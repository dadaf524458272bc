------------------------------ MODULE SpiBridge -------------------------------
(***************************************************************************)
(* gateware/blocks/qspi/spi_bridge.py: a command octet, two lengths of two *)
(* octets each, the octets to shift out, and as many read back. The rx and *)
(* tx streams are the packet buffers of the serial backend's endpoints, an *)
(* octet at a time; qi holds the octets the controller has read.           *)
(***************************************************************************)
EXTENDS Integers, Sequences

CONSTANT Radix   \* values of an octet, 256 in the code

ASSUME RadixAssumption == Radix \in Nat \ {0}

VARIABLES
  br,               \* FSM state
  out_cnt, in_cnt,
  len_lo,           \* wlen_lo and rlen_lo, whose lives do not overlap
  boot,             \* history: the pulse of the 0x00 command
  rx, tx            \* the endpoints' buffers

br_vars == <<br, out_cnt, in_cnt, len_lo, boot, rx, tx>>

BridgeInit ==
  /\ br = "CMD_IDLE" /\ out_cnt = 0 /\ in_cnt = 0 /\ len_lo = 0 /\ boot = FALSE
  /\ rx = <<>> /\ tx = <<>>

\* The states that take an octet from rx, without the bus.
Takes(from) == br = from /\ rx # <<>> /\ rx' = Tail(rx)

\* Any octet but the two commands is ignored.
BrCommand ==
  /\ Takes("CMD_IDLE")
  /\ boot' = (boot \/ Head(rx) = 0)
  /\ br' = IF Head(rx) = 1 THEN "WLEN_LO" ELSE br
  /\ UNCHANGED <<out_cnt, in_cnt, len_lo, tx>>

BrLengthLo ==
  /\ \/ Takes("WLEN_LO") /\ br' = "WLEN_HI"
     \/ Takes("RLEN_LO") /\ br' = "RLEN_HI"
  /\ len_lo' = Head(rx)
  /\ UNCHANGED <<out_cnt, in_cnt, boot, tx>>

Length == len_lo + Radix * Head(rx)

BrWlenHi ==
  /\ Takes("WLEN_HI")
  /\ out_cnt' = Length
  /\ br' = "RLEN_LO"
  /\ UNCHANGED <<in_cnt, len_lo, boot, tx>>

BrRlenHi ==
  /\ Takes("RLEN_HI")
  /\ in_cnt' = Length
  /\ br' = IF out_cnt # 0 THEN "DO_OUT" ELSE IF Length # 0 THEN "DO_IN_REQ" ELSE "RELEASE"
  /\ UNCHANGED <<out_cnt, len_lo, boot, tx>>

BrTakes == BrCommand \/ BrLengthLo \/ BrWlenHi \/ BrRlenHi

-----------------------------------------------------------------------------
(* The states that use the bus; the octet is accepted by the controller. *)

BrWantsBus == (br = "DO_OUT" /\ rx # <<>>) \/ br \in {"DO_IN_REQ", "RELEASE"}

\* qo.valid or qi.ready.
BrActive == BrWantsBus \/ (br = "DO_IN_RESP" /\ tx = <<>>)

\* Bug: chip select is released only after a read.
AfterOutNoRelease == IF in_cnt # 0 THEN "DO_IN_REQ" ELSE "CMD_IDLE"

AfterOut == IF in_cnt # 0 THEN "DO_IN_REQ" ELSE "RELEASE"

BrOut ==
  /\ Takes("DO_OUT")
  /\ out_cnt' = out_cnt - 1
  /\ br' = IF out_cnt = 1 THEN AfterOut ELSE br
  /\ UNCHANGED <<in_cnt, len_lo, boot, tx>>

BrInReq ==
  /\ br = "DO_IN_REQ"
  /\ br' = "DO_IN_RESP"
  /\ UNCHANGED <<out_cnt, in_cnt, len_lo, boot, rx, tx>>

\* The octet read goes straight on to the IN endpoint, when that has room.
BrInResp(octet) ==
  /\ br = "DO_IN_RESP" /\ tx = <<>>
  /\ tx' = <<octet>>
  /\ in_cnt' = in_cnt - 1
  /\ br' = IF in_cnt = 1 THEN "RELEASE" ELSE "DO_IN_REQ"
  /\ UNCHANGED <<out_cnt, len_lo, boot, rx>>

BrRelease ==
  /\ br = "RELEASE"
  /\ br' = "CMD_IDLE"
  /\ UNCHANGED <<out_cnt, in_cnt, len_lo, boot, rx, tx>>

=============================================================================
