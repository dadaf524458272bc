---------------------------- MODULE QspiController -----------------------------
(***************************************************************************)
(* gateware/blocks/qspi/controller.py and iostream.py, cycle by cycle: the *)
(* Enframer clocks an octet out bit by bit, `divisor` + 1 cycles a bit;    *)
(* each bit of a read leaves a tag in the pipeline of StreamIOBuffer that  *)
(* comes out `Latency` cycles later with what the pin was then, through    *)
(* the skid buffer to the Deframer, which gathers the bits of an octet.    *)
(*                                                                         *)
(* The octet that is offered, `o`, and whether the consumer takes the      *)
(* octet read, `rdy`, are this cycle's inputs. One data line, as all of    *)
(* the boot sequence uses; the quad modes differ in the bits per octet.    *)
(***************************************************************************)
EXTENDS Integers, Sequences, FiniteSets

CONSTANTS
  Divisor,   \* 4 in top.py
  Latency,   \* 4 for the DDR buffers
  Bits       \* bits of an octet, 8

ASSUME TimingAssumption == Divisor \in Nat /\ Latency \in Nat \ {0} /\ Bits \in Nat \ {0}

VARIABLES
  timer, cycle, started,   \* Enframer
  pipe,                    \* StreamIOBuffer: its meta registers, newest first
  skid,                    \* SkidBuffer: its FIFO
  shreg,                   \* Deframer: the bits of the octet so far
  cs                       \* the pin: a chip is selected

ctl_vars == <<timer, cycle, started, pipe, skid, shreg, cs>>

\* An octet offered: to shift out, to read, to release chip select, or none.
Put(data) == [valid |-> TRUE, chip |-> 1, mode |-> "Put", data |-> data]
Get       == [valid |-> TRUE, chip |-> 1, mode |-> "Get", data |-> 0]
Release   == [valid |-> TRUE, chip |-> 0, mode |-> "Dummy", data |-> 0]
Nothing   == [valid |-> FALSE, chip |-> 0, mode |-> "Dummy", data |-> 0]

\* A frame in the pipeline: none, one without a sample, or the bit sampled,
\* which is a pair of the octet it is of and its place there.
NoFrame == <<>>
Plain   == <<"plain">>

CtlInit ==
  /\ timer = 0 /\ cycle = 0 /\ started = FALSE
  /\ pipe = [k \in 1 .. Latency |-> NoFrame]
  /\ skid = <<>> /\ shreg = <<>>
  /\ cs = FALSE

-----------------------------------------------------------------------------
(* IOStreamer.o and the Deframer. *)

Arriving == IF skid # <<>> THEN Head(skid) ELSE pipe[Latency]

Sampled     == Len(Arriving) = 2
octet_valid == Sampled /\ Len(shreg) = Bits - 1

\* The octet, if its bits are one octet's and in their order. An octet read is
\* the number of its frame, its place among the reads of the frame, its value.
Garbled == <<0, 0, 0>>
Octet ==
  LET bits == Append(shreg, Arriving)
  IN IF \A k \in 1 .. Bits : bits[k] = <<bits[1][1], k - 1>> THEN bits[1][1] ELSE Garbled

FrameReady(rdy) == ~octet_valid \/ rdy

\* With a frame in the FIFO nothing is taken in until it is empty.
StreamReady(rdy) == skid = <<>> /\ FrameReady(rdy)

SkidTakes(rdy) == ~FrameReady(rdy) \/ skid # <<>>

\* The FIFO is as deep as the pipeline is long; what does not fit is lost.
NextSkid(rdy) ==
  LET kept == IF skid # <<>> /\ FrameReady(rdy) THEN Tail(skid) ELSE skid
  IN IF pipe[Latency] # NoFrame /\ SkidTakes(rdy) /\ Len(skid) < Latency
       THEN Append(kept, pipe[Latency]) ELSE kept

NextShreg(rdy) ==
  IF ~Sampled \/ ~FrameReady(rdy) THEN shreg
  ELSE IF octet_valid THEN <<>> ELSE Append(shreg, Arriving)

-----------------------------------------------------------------------------
(* The Enframer. *)

Framed(o, rdy) == o.valid /\ StreamReady(rdy)

\* The first bit period of a chip-select frame is spent without a clock.
Setup(o)   == o.chip # 0 /\ ~started
BitOver    == timer = Divisor
LastBit(o) == cycle = IF o.mode = "Dummy" THEN 0 ELSE Bits - 1

Accepted(o, rdy) == Framed(o, rdy) /\ BitOver /\ ~Setup(o) /\ LastBit(o)

SampleTime == timer = (Divisor + 1) \div 2

\* The device takes a bit in, and gives one out, as the clock rises.
ClockRises(o, rdy) == Framed(o, rdy) /\ o.chip # 0 /\ started /\ SampleTime

\* bit is the one the device gives out.
CtlStep(o, rdy, bit) ==
  /\ timer' = IF ~Framed(o, rdy) THEN timer ELSE IF BitOver THEN 0 ELSE timer + 1
  /\ cycle' = IF ~Framed(o, rdy) \/ ~BitOver \/ Setup(o) THEN cycle
              ELSE IF LastBit(o) THEN 0 ELSE (cycle + 1) % Bits
  /\ started' = IF o.valid /\ o.chip = 0 THEN FALSE
                ELSE (started \/ (Framed(o, rdy) /\ BitOver))
  /\ cs' = IF Framed(o, rdy) THEN o.chip # 0 ELSE cs
  /\ pipe' = [k \in 1 .. Latency |->
                IF k > 1 THEN pipe[k - 1]
                ELSE IF ~Framed(o, rdy) THEN NoFrame
                ELSE IF o.mode = "Get" /\ SampleTime THEN bit ELSE Plain]
  /\ skid' = NextSkid(rdy)
  /\ shreg' = NextShreg(rdy)

=============================================================================
