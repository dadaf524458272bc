--------------------------- MODULE ScsiTransport ----------------------------
(***************************************************************************)
(* SCSIHandler with the host at the other end of its two bulk endpoints:   *)
(* command, data phase, status, one command after another, with a bus      *)
(* reset at any point and a Mass Storage reset when the device has halted. *)
(* The UF2 decoder is its error output alone.                              *)
(***************************************************************************)
EXTENDS SCSIHandler

CONSTANTS
  Commands,   \* [op, length, lba] the host may issue
  Tags,
  Corrupt,    \* the write data the decoder finds an error in
  WriteData   \* all write data

ASSUME HostAssumption ==
  /\ Commands \subseteq [op : Nat, length : Nat, lba : Nat]
  /\ Tags \subseteq Nat
  /\ Corrupt \subseteq WriteData /\ WriteData \subseteq Nat

VARIABLES
  host,       \* "idle", "data_out", "data_in", "status", "stuck"
  cmd, tag,   \* the command being run
  moved,      \* bytes of its data phase the host has moved
  error_in    \* the decoder's error

hostvars == <<host, cmd, tag, moved, error_in>>
vars     == <<scsi, hostvars>>

NoCommand == [op |-> OP_TEST_UNIT_READY, length |-> 0, lba |-> 0]

Init ==
  /\ ScsiInit
  /\ host = "idle" /\ cmd = NoCommand /\ tag = 0 /\ moved = 0
  /\ error_in = FALSE

-----------------------------------------------------------------------------
(* The host. *)

Direction(c) == IF c.length = 0 THEN "status" ELSE IF c.op = OP_WRITE_10 THEN "data_out" ELSE "data_in"

Cbw(sig, t, c) == <<sig, t, c.length, c.op, c.lba>>

Issue(c, t) ==
  /\ host = "idle" /\ rx = <<>>
  /\ rx' = Cbw(CBW_SIGNATURE, t, c)
  /\ host' = Direction(c) /\ cmd' = c /\ tag' = t /\ moved' = 0
  /\ UNCHANGED <<scsi_state, scsi_regs, ghost, in_ep, error_in>>

\* A host that goes away in the middle of a command block, or sends one with a
\* bad signature, gets no answer and recovers by a reset.
IssueBroken(k) ==
  /\ host = "idle" /\ rx = <<>>
  /\ rx' = IF k = CbwLen THEN Cbw(0, 0, NoCommand)
           ELSE SubSeq(Cbw(CBW_SIGNATURE, 0, NoCommand), 1, k)
  /\ host' = "stuck" /\ cmd' = NoCommand /\ tag' = 0 /\ moved' = 0
  /\ UNCHANGED <<scsi_state, scsi_regs, ghost, in_ep, error_in>>

SendOut(d) ==
  /\ host = "data_out" /\ Len(rx) < MaxPacket
  /\ rx' = Append(rx, d)
  /\ moved' = moved + 1
  /\ host' = IF moved + 1 = cmd.length THEN "status" ELSE host
  /\ UNCHANGED <<scsi_state, scsi_regs, ghost, in_ep, cmd, tag, error_in>>

\* A short packet ends the data phase early.
TakeIn ==
  /\ host = "data_in" /\ packets # <<>>
  /\ packets' = Tail(packets)
  /\ moved' = moved + Len(Head(packets))
  /\ host' = IF Len(Head(packets)) < MaxPacket \/ moved' >= cmd.length THEN "status" ELSE host
  /\ UNCHANGED <<scsi_state, scsi_regs, ghost, rx, fill, cmd, tag, error_in>>

TakeStatus ==
  /\ host = "status" /\ packets # <<>>
  /\ packets' = Tail(packets)
  /\ host' = "idle"
  /\ UNCHANGED <<scsi_state, scsi_regs, ghost, rx, fill, cmd, tag, moved, error_in>>

\* The endpoints are emptied by the change of configuration that goes with a
\* bus reset, the decoder's error by the reset itself.
BusReset ==
  /\ ResetScsi
  /\ rx' = <<>> /\ fill' = <<>> /\ packets' = <<>>
  /\ error_in' = FALSE
  /\ host' = "idle"
  /\ UNCHANGED <<cmd, tag, moved>>

MassStorageReset ==
  /\ host = "stuck" /\ rx = <<>>
  /\ ResetScsi
  /\ host' = "idle"
  /\ UNCHANGED <<rx, in_ep, cmd, tag, moved, error_in>>

-----------------------------------------------------------------------------
(* The device, with the decoder's side of the write stream. *)

DispatchAndClear == Dispatch /\ error_in' = FALSE /\ UNCHANGED <<host, cmd, tag, moved>>

TakeWriteData ==
  /\ ReceiveWriteData
  /\ error_in' = (error_in \/ (Forwarded /\ Head(rx) \in Corrupt))
  /\ UNCHANGED <<host, cmd, tag, moved>>

Device ==
  \/ ScsiAlone /\ UNCHANGED hostvars
  \/ SendCswPrep(error_in) /\ UNCHANGED hostvars
  \/ DispatchAndClear
  \/ TakeWriteData

HostStep ==
  \/ \E d \in WriteData : SendOut(d)
  \/ TakeIn \/ TakeStatus
  \/ MassStorageReset

Start ==
  \/ \E c \in Commands, t \in Tags : Issue(c, t)
  \/ \E k \in 1 .. CbwLen : IssueBroken(k)

Next == Device \/ HostStep \/ Start \/ BusReset

\* The device's clock runs, and a host that has begun a command sees it through.
Spec == Init /\ [][Next]_vars /\ WF_vars(Device) /\ WF_vars(HostStep)

-----------------------------------------------------------------------------

Failed == cmd.op \in {OP_READ_10, OP_WRITE_10} /\ cmd.lba >= BlockCount
Known  == cmd.op \in RomOps \cup {OP_TEST_UNIT_READY, OP_READ_10, OP_WRITE_10}

\* What the host should read at byte n of the data phase.
DataByte(n) ==
  IF Failed THEN <<"zero", 0, 0>>
  ELSE IF cmd.op = OP_READ_10 THEN <<"sector", cmd.lba + n \div SectorSize, n % SectorSize>>
  ELSE IF n < RomLength[cmd.op] THEN <<"rom", cmd.op, n>>
  ELSE <<"zero", 0, 0>>

\* Every data byte the host reads is the one its command asks for, in order,
\* and no packet of the data phase runs into the status: nothing of an earlier
\* command, aborted or not, is still in the way.
DataAnswersCommand ==
  host = "data_in" /\ packets # <<>> =>
    \A k \in 1 .. Len(Head(packets)) : Head(packets)[k] = DataByte(moved + k - 1)

\* The status the host reads is one token in a packet of its own, is for this
\* command, accounts for the bytes that were not moved, and fails exactly for
\* an unknown command, an address off the end and a decoder error in the data.
StatusAnswersCommand ==
  host = "status" /\ packets # <<>> =>
    Head(packets) = << <<"csw", tag, cmd.length - moved, ~Known \/ Failed \/ error_in>> >>

\* A command is answered, and a broken one is recovered from: no sequence of
\* commands and resets leaves the handler waiting for something else.
CommandAnswered == host # "idle" ~> host = "idle"

=============================================================================
