------------------------- MODULE ScsiTransportProofs -------------------------
(***************************************************************************)
(* Theorems about ScsiTransport, for any ROM answers, any sector and       *)
(* packet size and any commands whose answers fit the packets: what the    *)
(* host reads is what its command asks for, and the status is its own.     *)
(***************************************************************************)
EXTENDS ScsiTransport, SequenceTheorems, TLAPS

\* Commands whose data phase ends where the handler ends it: a padded answer
\* and the sectors of a read fill whole packets, a command with a data phase
\* asks for at least a byte, and one the handler does not know has none. The
\* one byte of a read that fails is a short packet.
AnswersFit ==
  /\ MaxPacket > 1
  /\ \A c \in Commands :
       /\ c.op \in RomOps =>
            c.length > 0 /\ (c.length <= RomLength[c.op] \/ c.length % MaxPacket = 0)
       /\ c.op = OP_READ_10 =>
            c.length > 0 /\ c.length % SectorSize = 0 /\ c.length % MaxPacket = 0
       /\ c.op = OP_WRITE_10 => c.length > 0
       /\ c.op \notin RomOps \cup {OP_READ_10, OP_WRITE_10} => c.length = 0

-----------------------------------------------------------------------------
(* The inductive invariant: for each state of the handler, what the host has
   been given of the answer, and what of the command is still to come. *)

Token == ({"rom", "sector", "zero"} \X Nat \X Nat) \cup ({"csw"} \X Nat \X Int \X BOOLEAN)

CommandState == [op : Nat, length : Nat, lba : Nat]
GhostState == [busy : BOOLEAN, lba : Nat, byte : Nat]

Engaged == host \in {"data_out", "data_in", "status"}
Block   == Cbw(CBW_SIGNATURE, tag, cmd)
Silent  == fill = <<>> /\ packets = <<>>

Types ==
  /\ scsi_state \in {"RECEIVE_CBW", "HALT", "DISPATCH", "SEND_RESPONSE", "SEND_ZEROS_CONT",
                     "SEND_SECTOR", "SEND_SHORT_DATA", "RECEIVE_WRITE_DATA", "SEND_CSW_PREP",
                     "SEND_CSW"}
  /\ cbw_count \in 0 .. CbwLen - 1 /\ cbw \in [1 .. CbwLen -> Nat]
  /\ data_sent \in Nat /\ rom_offset \in Nat /\ csw_status \in BOOLEAN
  /\ scsi_lba \in Nat /\ sector_byte \in Nat
  /\ csw \in Token
  /\ ghost \in GhostState
  /\ rx \in Seq(Nat) /\ fill \in Seq(Token) /\ packets \in Seq(Seq(Token))
  /\ host \in {"idle", "stuck", "data_out", "data_in", "status"}
  /\ cmd \in CommandState /\ tag \in Nat /\ moved \in Nat
  /\ error_in \in BOOLEAN

\* Between two reads GhostFAT and the count inside a sector are at rest, and
\* so is the count of the block's fields once the block is taken.
AtRest ==
  /\ scsi_state # "SEND_SECTOR" => ~ghost.busy /\ sector_byte = 0
  /\ scsi_state # "RECEIVE_CBW" => cbw_count = 0

Idle ==
  host = "idle" => scsi_state = "RECEIVE_CBW" /\ cbw_count = 0 /\ rx = <<>> /\ Silent

\* A broken block leads nowhere but to HALT.
Stuck ==
  host = "stuck" =>
    /\ Silent
    /\ \/ scsi_state = "HALT" /\ rx = <<>>
       \/ /\ scsi_state = "RECEIVE_CBW"
          /\ cbw_count + Len(rx) <= CbwLen
          /\ cbw_count + Len(rx) = CbwLen =>
               IF cbw_count = 0 THEN rx[1] # CBW_SIGNATURE ELSE cbw[1] # CBW_SIGNATURE

\* The direction of the host's data phase and how far it is.
Moving ==
  Engaged =>
    /\ cmd \in Commands
    /\ scsi_state # "HALT"
    /\ host = "data_out" => cmd.op = OP_WRITE_10 /\ moved < cmd.length
    /\ host = "data_in" => cmd.op # OP_WRITE_10 /\ moved < cmd.length
    /\ host = "status" /\ cmd.op = OP_WRITE_10 => moved = cmd.length

\* The block is on its way in, with write data behind it or not.
Unanswered == cmd.op # OP_WRITE_10 => moved = 0 /\ host = Direction(cmd)

Receiving ==
  Engaged /\ scsi_state = "RECEIVE_CBW" /\ packets = <<>> =>
    /\ fill = <<>> /\ Unanswered
    /\ cbw_count + Len(rx) = CbwLen + moved
    /\ \A k \in 1 .. cbw_count : cbw[k] = Block[k]
    /\ \A k \in 1 .. CbwLen - cbw_count : rx[k] = Block[cbw_count + k]

Taken == Engaged /\ scsi_state # "RECEIVE_CBW" => cbw = Block

Dispatching ==
  scsi_state = "DISPATCH" => Silent /\ Unanswered /\ Len(rx) = moved /\ scsi_lba = cmd.lba

\* DataByte as a function of the command alone.
DataAt(c, n) ==
  IF c.op \in {OP_READ_10, OP_WRITE_10} /\ c.lba >= BlockCount THEN <<"zero", 0, 0>>
  ELSE IF c.op = OP_READ_10 THEN <<"sector", c.lba + n \div SectorSize, n % SectorSize>>
  ELSE IF n < RomLength[c.op] THEN <<"rom", c.op, n>>
  ELSE <<"zero", 0, 0>>

\* A packet, or the part of one, that begins at byte n of the data phase of c.
Carries(c, p, n) == \A k \in 1 .. Len(p) : p[k] = DataAt(c, n + k - 1)

\* Whole packets are with the host or ready for it, the rest is being collected.
OnItsWay ==
  /\ Len(fill) = data_sent % MaxPacket
  /\ Carries(cmd, fill, data_sent - Len(fill))
  /\ \/ packets = <<>> /\ moved = data_sent - Len(fill)
     \/ /\ Len(packets) = 1 /\ Len(packets[1]) = MaxPacket
        /\ moved + MaxPacket = data_sent - Len(fill)
        /\ Carries(cmd, packets[1], moved)

Sending ==
  scsi_state \in {"SEND_RESPONSE", "SEND_ZEROS_CONT", "SEND_SECTOR"} =>
    /\ host = "data_in" /\ rx = <<>> /\ data_sent < cmd.length
    /\ ~csw_status
    /\ OnItsWay

InRom ==
  /\ scsi_state = "SEND_RESPONSE" =>
       cmd.op \in RomOps /\ rom_offset = data_sent /\ rom_offset < RomLength[cmd.op]
  /\ scsi_state = "SEND_ZEROS_CONT" => cmd.op \in RomOps /\ data_sent >= RomLength[cmd.op]

InSector ==
  scsi_state = "SEND_SECTOR" =>
    /\ cmd.op = OP_READ_10 /\ cmd.lba < BlockCount
    /\ ghost = [busy |-> TRUE, lba |-> scsi_lba, byte |-> sector_byte]
    /\ scsi_lba = cmd.lba + data_sent \div SectorSize
    /\ sector_byte = data_sent % SectorSize

InShortData ==
  scsi_state = "SEND_SHORT_DATA" =>
    /\ host = "data_in" /\ cmd.op = OP_READ_10 /\ Failed
    /\ moved = 0 /\ Silent /\ rx = <<>> /\ csw_status

InWriteData ==
  scsi_state = "RECEIVE_WRITE_DATA" =>
    /\ cmd.op = OP_WRITE_10 /\ Silent
    /\ data_sent + Len(rx) = moved /\ data_sent < cmd.length
    /\ csw_status = Failed

\* The data phase is over for the handler: for the host too, or its last
\* packet is ready.
Ending ==
  scsi_state \in {"SEND_CSW_PREP", "SEND_CSW"} =>
    /\ rx = <<>> /\ fill = <<>>
    /\ csw_status = (~Known \/ Failed)
    /\ \/ host = "status" /\ packets = <<>> /\ data_sent = moved
       \/ /\ host = "data_in"
          /\ Len(packets) = 1 /\ moved + Len(packets[1]) = data_sent
          /\ Carries(cmd, packets[1], moved)
          /\ Len(packets[1]) < MaxPacket \/ data_sent = cmd.length

InCsw ==
  scsi_state = "SEND_CSW" =>
    csw = <<"csw", tag, cmd.length - data_sent, csw_status \/ error_in>>

\* The status is ready and the handler waits for the next block.
Answered ==
  Engaged /\ scsi_state = "RECEIVE_CBW" /\ packets # <<>> =>
    /\ host = "status" /\ rx = <<>> /\ fill = <<>> /\ cbw_count = 0
    /\ Len(packets) = 1
    /\ packets[1] = << <<"csw", tag, cmd.length - moved, ~Known \/ Failed \/ error_in>> >>

\* Outside its waiting states the handler works for an engaged host.
Working == scsi_state \notin {"RECEIVE_CBW", "HALT"} => Engaged

ScsiInv ==
  /\ Types /\ AtRest /\ Working
  /\ Idle /\ Stuck /\ Moving
  /\ Receiving /\ Taken /\ Dispatching
  /\ Sending /\ InRom /\ InSector /\ InShortData /\ InWriteData
  /\ Ending /\ InCsw /\ Answered

-----------------------------------------------------------------------------
(* Types. *)

LEMMA TokenTypes ==
  /\ NoCsw \in Token
  /\ \A a, b \in Nat : <<"rom", a, b>> \in Token /\ <<"sector", a, b>> \in Token
                       /\ <<"zero", a, b>> \in Token
  /\ \A a \in Nat, b \in Int, c \in BOOLEAN : <<"csw", a, b, c>> \in Token
<1>1. \A a \in Nat, b \in Int, c \in BOOLEAN : <<"csw", a, b, c>> \in {"csw"} \X Nat \X Int \X BOOLEAN
  BY Zenon
<1>2. \A a, b \in Nat, n \in {"rom", "sector", "zero"} :
        <<n, a, b>> \in {"rom", "sector", "zero"} \X Nat \X Nat
  OBVIOUS
<1>3. 0 \in Nat /\ 0 \in Int /\ FALSE \in BOOLEAN OBVIOUS
<1> QED BY <1>1, <1>2, <1>3, Zenon DEF Token, NoCsw

LEMMA BlockFields ==
  ASSUME NEW s \in Nat, NEW t \in Nat, NEW c \in CommandState
  PROVE  /\ Cbw(s, t, c) \in Seq(Nat) /\ Len(Cbw(s, t, c)) = CbwLen
         /\ Cbw(s, t, c)[1] = s /\ Cbw(s, t, c)[2] = t /\ Cbw(s, t, c)[3] = c.length
         /\ Cbw(s, t, c)[4] = c.op /\ Cbw(s, t, c)[5] = c.lba
BY DEF Cbw, CbwLen, CommandState

LEMMA Broken ==
  /\ NoCommand \in CommandState
  /\ CBW_SIGNATURE \in Nat /\ CBW_SIGNATURE # 0 /\ 0 \in Nat
BY DEF NoCommand, CBW_SIGNATURE, OP_TEST_UNIT_READY, CommandState

\* A block that breaks off, or is whole with no signature.
LEMMA BrokenBlock ==
  ASSUME NEW k \in 1 .. CbwLen, IssueBroken(k)
  PROVE  /\ rx' \in Seq(Nat) /\ Len(rx') = k
         /\ k = CbwLen => rx'[1] # CBW_SIGNATURE
<1>1. CASE k = CbwLen
  <2> DEFINE b == Cbw(0, 0, NoCommand)
  <2>1. rx' = b BY <1>1 DEF IssueBroken
  <2>2. b \in Seq(Nat) /\ Len(b) = CbwLen /\ b[1] = 0 BY Broken, BlockFields
  <2> HIDE DEF b
  <2> QED BY <1>1, <2>1, <2>2, Broken
<1>2. CASE k # CbwLen
  <2> DEFINE b == Cbw(CBW_SIGNATURE, 0, NoCommand)
  <2>1. b \in Seq(Nat) /\ Len(b) = CbwLen BY Broken, BlockFields
  <2>2. rx' = SubSeq(b, 1, k) BY <1>2 DEF IssueBroken
  <2> HIDE DEF b
  <2>3. \A i \in 1 .. k : b[i] \in Nat
    <3> TAKE i \in 1 .. k
    <3>1. i \in 1 .. Len(b) BY <2>1 DEF CbwLen
    <3> QED BY <2>1, <3>1, ElementOfSeq
  <2>4. SubSeq(b, 1, k) \in Seq(Nat) /\ Len(SubSeq(b, 1, k)) = k
    BY <2>3, SubSeqProperties DEF CbwLen
  <2> QED BY <1>2, <2>2, <2>4
<1> QED BY <1>1, <1>2

LEMMA TakeHead ==
  ASSUME rx \in Seq(Nat), rx # <<>>, rx' = Tail(rx)
  PROVE  /\ rx' \in Seq(Nat) /\ Head(rx) \in Nat /\ Head(rx) = rx[1]
         /\ Len(rx) \in Nat \ {0} /\ Len(rx') = Len(rx) - 1
         /\ \A k \in 1 .. Len(rx) - 1 : rx'[k] = rx[k + 1]
BY HeadTailProperties, EmptySeq

LEMMA TxTypes ==
  ASSUME fill \in Seq(Token), packets \in Seq(Seq(Token)), NEW t \in Token,
         NEW last \in BOOLEAN, Tx(t, last)
  PROVE  /\ packets = <<>>
         /\ fill' \in Seq(Token) /\ packets' \in Seq(Seq(Token))
         /\ \/ packets' = << Append(fill, t) >> /\ fill' = <<>> /\ (last \/ Len(fill) + 1 = MaxPacket)
            \/ packets' = <<>> /\ fill' = Append(fill, t) /\ ~last /\ Len(fill) + 1 # MaxPacket
<1> DEFINE p == Append(fill, t)
           full == last \/ Len(fill) + 1 = MaxPacket
<1>1. p \in Seq(Token) BY AppendProperties
<1>2. packets = <<>> BY DEF Tx, TxReady
<1>3. IF full THEN packets' = Append(packets, p) /\ fill' = <<>>
              ELSE fill' = p /\ packets' = packets
  BY Zenon DEF Tx
<1> HIDE DEF p
<1>4. <<p>> \in Seq(Seq(Token)) /\ <<>> \in Seq(Token) BY <1>1
<1>5. Append(packets, p) = <<p>> BY <1>2, <1>1
<1>6. CASE full BY <1>2, <1>3, <1>4, <1>5, <1>6, Zenon DEF p
<1>7. CASE ~full BY <1>1, <1>2, <1>3, <1>7, Zenon DEF p
<1> QED BY <1>6, <1>7

LEMMA Fields ==
  ASSUME Types
  PROVE  /\ cbw_tag \in Nat /\ transfer_length \in Nat /\ opcode \in Nat
         /\ LastByte \in BOOLEAN
         /\ ghost \in GhostState /\ scsi_lba \in Nat
         /\ data_sent \in Nat /\ transfer_length - data_sent \in Int
BY DEF Types, cbw_tag, transfer_length, opcode, LastByte, CbwLen

\* The dispatch, command by command.
LEMMA Dispatched ==
  ASSUME Types, Dispatch
  PROVE  /\ csw_status' \in BOOLEAN
         /\ \/ /\ opcode \in RomOps
               /\ scsi_state' = "SEND_RESPONSE" /\ ~csw_status' /\ rom_offset' = 0
               /\ ghost' = ghost
            \/ /\ opcode = OP_READ_10 /\ scsi_lba >= BlockCount
               /\ scsi_state' = "SEND_SHORT_DATA" /\ csw_status' /\ ghost' = ghost
            \/ /\ opcode = OP_READ_10 /\ scsi_lba < BlockCount
               /\ scsi_state' = "SEND_SECTOR" /\ ~csw_status' /\ StartGhost(scsi_lba)
            \/ /\ opcode = OP_WRITE_10 /\ scsi_state' = "RECEIVE_WRITE_DATA"
               /\ csw_status' = (scsi_lba >= BlockCount) /\ ghost' = ghost
            \/ /\ opcode \notin RomOps \cup {OP_READ_10, OP_WRITE_10}
               /\ scsi_state' = "SEND_CSW_PREP" /\ ghost' = ghost
               /\ csw_status' = (opcode # OP_TEST_UNIT_READY)
<1>1. OP_READ_10 \notin RomOps /\ OP_WRITE_10 \notin RomOps /\ OP_READ_10 # OP_WRITE_10
  BY ScsiAssumption DEF OP_READ_10, OP_WRITE_10
<1>2. CASE opcode \in RomOps
  <2>1. opcode \notin {OP_READ_10, OP_WRITE_10} BY <1>1, <1>2
  <2>2. csw_status' = FALSE BY <1>2, <2>1 DEF Dispatch
  <2> QED BY <1>2, <2>1, <2>2 DEF Dispatch
<1>3. CASE opcode = OP_READ_10
  <2>1. csw_status' = (scsi_lba >= BlockCount) BY <1>3 DEF Dispatch
  <2>2. scsi_lba >= BlockCount \/ scsi_lba < BlockCount BY Fields, ScsiAssumption
  <2>3. CASE scsi_lba >= BlockCount
    <3>1. ~(scsi_lba < BlockCount) BY <2>3, Fields, ScsiAssumption
    <3>2. csw_status' = TRUE BY <2>1, <2>3
    <3> QED BY <1>1, <1>3, <2>3, <3>1, <3>2 DEF Dispatch
  <2>4. CASE scsi_lba < BlockCount
    <3>1. ~(scsi_lba >= BlockCount) BY <2>4, Fields, ScsiAssumption
    <3>2. ~csw_status' /\ csw_status' \in BOOLEAN
      <4> DEFINE b == scsi_lba >= BlockCount
      <4>1. b \in BOOLEAN BY Fields, ScsiAssumption
      <4>2. ~b /\ csw_status' = b BY <2>1, <3>1
      <4> HIDE DEF b
      <4> QED BY <4>1, <4>2, Zenon
    <3> QED BY <1>1, <1>3, <2>4, <3>1, <3>2 DEF Dispatch
  <2> QED BY <2>2, <2>3, <2>4
<1>4. CASE opcode = OP_WRITE_10
  <2>1. csw_status' = (scsi_lba >= BlockCount) BY <1>4 DEF Dispatch
  <2> QED BY <1>1, <1>4, <2>1 DEF Dispatch
<1>5. CASE opcode \notin RomOps \cup {OP_READ_10, OP_WRITE_10}
  <2>1. csw_status' = (opcode # OP_TEST_UNIT_READY) BY <1>5 DEF Dispatch
  <2> QED BY <1>5, <2>1 DEF Dispatch
<1> QED BY <1>2, <1>3, <1>4, <1>5

LEMMA DeviceTypes ==
  ASSUME Types, Device
  PROVE  Types'
<1>1. CASE ReceiveCbw /\ UNCHANGED hostvars
  <2>1. rx' \in Seq(Nat) /\ Head(rx) \in Nat BY <1>1, TakeHead DEF Types, ReceiveCbw
  <2>2. cbw' \in [1 .. CbwLen -> Nat] BY <1>1, <2>1 DEF Types, ReceiveCbw, CbwLen
  <2>3. cbw_count' = 0 \/ (cbw_count # CbwLen - 1 /\ cbw_count' = cbw_count + 1)
    BY <1>1 DEF ReceiveCbw
  <2>6. cbw_count' \in 0 .. CbwLen - 1 BY <2>3 DEF Types, CbwLen
  <2>4. scsi_lba' \in Nat BY <1>1, <2>1 DEF Types, ReceiveCbw
  <2>5. scsi_state' \in {"RECEIVE_CBW", "DISPATCH", "HALT"} BY <1>1 DEF ReceiveCbw
  <2> QED BY <1>1, <2>1, <2>2, <2>4, <2>5, <2>6 DEF Types, ReceiveCbw, hostvars, in_ep
<1>2. CASE SendResponse /\ UNCHANGED hostvars
  <2>1. <<"rom", opcode, rom_offset>> \in Token BY TokenTypes, Fields, Zenon DEF Types
  <2>2. fill' \in Seq(Token) /\ packets' \in Seq(Seq(Token))
    BY <1>2, <2>1, Fields, TxTypes, Zenon DEF SendResponse, Types
  <2> QED BY <1>2, <2>2 DEF Types, SendResponse, hostvars
<1>3. CASE SendZerosCont /\ UNCHANGED hostvars
  <2>1. fill' \in Seq(Token) /\ packets' \in Seq(Seq(Token))
    BY <1>3, TokenTypes, TxTypes DEF SendZerosCont, Types
  <2> QED BY <1>3, <2>1 DEF Types, SendZerosCont, hostvars
<1>4. CASE SendSector /\ UNCHANGED hostvars
  <2>1. <<"sector", ghost.lba, ghost.byte>> \in Token
    <3>1. ghost.lba \in Nat /\ ghost.byte \in Nat BY Fields DEF GhostState
    <3> QED BY <3>1, TokenTypes, Zenon
  <2>2. fill' \in Seq(Token) /\ packets' \in Seq(Seq(Token))
    BY <1>4, <2>1, TxTypes DEF SendSector, Types
  <2>3. sector_byte' \in {0, sector_byte + 1} /\ scsi_lba' \in {scsi_lba, scsi_lba + 1}
    BY <1>4 DEF SendSector
  <2>6. sector_byte' \in Nat /\ scsi_lba' \in Nat BY <2>3 DEF Types
  <2>7. data_sent' \in Nat BY <1>4 DEF Types, SendSector
  <2>8. scsi_state' \in {"SEND_CSW_PREP", "SEND_SECTOR"} BY <1>4 DEF SendSector
  <2>4. \/ ghost' = [ghost EXCEPT !.byte = ghost.byte + 1]
        \/ ghost' = [busy |-> TRUE, lba |-> scsi_lba + 1, byte |-> 0]
        \/ ghost' = [ghost EXCEPT !.busy = FALSE]
    BY <1>4, Zenon DEF SendSector
  <2>5. ghost' \in GhostState
    <3> USE Fields DEF GhostState
    <3>1. CASE ghost' = [ghost EXCEPT !.byte = ghost.byte + 1] BY <3>1
    <3>2. CASE ghost' = [busy |-> TRUE, lba |-> scsi_lba + 1, byte |-> 0] BY <3>2
    <3>3. CASE ghost' = [ghost EXCEPT !.busy = FALSE] BY <3>3
    <3> QED BY <2>4, <3>1, <3>2, <3>3
  <2>9. UNCHANGED <<cbw_count, cbw, rom_offset, csw_status, csw, rx, host, cmd, tag, moved, error_in>>
    BY <1>4 DEF SendSector, hostvars
  <2> QED BY <2>2, <2>5, <2>6, <2>7, <2>8, <2>9 DEF Types
<1>5. CASE SendShortData /\ UNCHANGED hostvars
  <2>1. fill' \in Seq(Token) /\ packets' \in Seq(Seq(Token))
    BY <1>5, TokenTypes, TxTypes DEF SendShortData, Types
  <2> QED BY <1>5, <2>1 DEF Types, SendShortData, hostvars
<1>6. CASE SendCsw /\ UNCHANGED hostvars
  <2>1. fill' \in Seq(Token) /\ packets' \in Seq(Seq(Token))
    BY <1>6, TxTypes DEF SendCsw, Types
  <2> QED BY <1>6, <2>1 DEF Types, SendCsw, scsi_regs, hostvars
<1>7. CASE SendCswPrep(error_in) /\ UNCHANGED hostvars
  <2>1. csw' = <<"csw", cbw_tag, transfer_length - data_sent, csw_status \/ error_in>>
    BY <1>7, Zenon DEF SendCswPrep
  <2> DEFINE a == transfer_length - data_sent
             b == csw_status \/ error_in
  <2>2. cbw_tag \in Nat /\ a \in Int /\ b \in BOOLEAN BY Fields
  <2> HIDE DEF a, b
  <2>3. <<"csw", cbw_tag, a, b>> \in Token BY <2>2, TokenTypes, Zenon
  <2>4. csw' \in Token BY <2>1, <2>3 DEF a, b
  <2> QED BY <1>7, <2>4 DEF Types, SendCswPrep, hostvars, in_ep
<1>8. CASE DispatchAndClear
  <2>1. ghost' \in GhostState
    <3>1. \/ ghost' = ghost
          \/ ghost' = [busy |-> TRUE, lba |-> scsi_lba, byte |-> 0]
      BY <1>8, Zenon DEF DispatchAndClear, Dispatch, StartGhost
    <3>2. CASE ghost' = ghost BY <3>2, Fields
    <3>3. CASE ghost' = [busy |-> TRUE, lba |-> scsi_lba, byte |-> 0] BY <3>3, Fields DEF GhostState
    <3> QED BY <3>1, <3>2, <3>3
  <2> QED BY <1>8, <2>1, Dispatched DEF Types, DispatchAndClear, Dispatch, in_ep
<1>9. CASE TakeWriteData
  <2>1. rx' \in Seq(Nat) BY <1>9, TakeHead DEF Types, TakeWriteData, ReceiveWriteData
  <2> QED BY <1>9, <2>1 DEF Types, TakeWriteData, ReceiveWriteData, Forwarded, in_ep
<1> QED
  BY <1>1, <1>2, <1>3, <1>4, <1>5, <1>6, <1>7, <1>8, <1>9 DEF Device, ScsiAlone

LEMMA ResetTypes ==
  ASSUME ResetScsi
  PROVE  /\ scsi_state' = "RECEIVE_CBW"
         /\ cbw_count' \in 0 .. CbwLen - 1 /\ cbw' \in [1 .. CbwLen -> Nat]
         /\ data_sent' \in Nat /\ rom_offset' \in Nat /\ csw_status' \in BOOLEAN
         /\ scsi_lba' \in Nat /\ sector_byte' \in Nat /\ csw' \in Token
         /\ ghost' \in GhostState
<1>1. ghost' = [busy |-> FALSE, lba |-> 0, byte |-> 0] /\ csw' = NoCsw BY DEF ResetScsi
<1>2. ghost' \in GhostState BY <1>1 DEF GhostState
<1>3. cbw_count' \in 0 .. CbwLen - 1 /\ cbw' \in [1 .. CbwLen -> Nat] BY DEF ResetScsi, CbwLen
<1> QED BY <1>1, <1>2, <1>3, TokenTypes DEF ResetScsi

LEMMA HostTypes ==
  ASSUME Types, HostStep \/ Start \/ BusReset
  PROVE  Types'
<1>1. ASSUME NEW d \in WriteData, SendOut(d) PROVE Types'
  BY <1>1, HostAssumption DEF Types, SendOut, scsi_regs, in_ep
<1>2. CASE TakeIn
  <2>1. packets' \in Seq(Seq(Token)) /\ Len(Head(packets)) \in Nat
    <3>1. Head(packets) \in Seq(Token) /\ packets' \in Seq(Seq(Token))
      BY <1>2, HeadTailProperties DEF TakeIn, Types
    <3> QED BY <3>1
  <2> QED BY <1>2, <2>1 DEF Types, TakeIn, scsi_regs
<1>3. CASE TakeStatus BY <1>3 DEF Types, TakeStatus, scsi_regs
<1>4. CASE MassStorageReset
  BY <1>4, TokenTypes, ResetTypes DEF Types, MassStorageReset, in_ep
<1>5. ASSUME NEW c \in Commands, NEW t \in Tags, Issue(c, t) PROVE Types'
  <2>1. c \in CommandState /\ t \in Nat BY HostAssumption DEF CommandState
  <2>2. rx' \in Seq(Nat) BY <1>5, <2>1, BlockFields, Broken DEF Issue
  <2> QED BY <1>5, <2>1, <2>2 DEF Types, Issue, scsi_regs, in_ep, Direction
<1>6. ASSUME NEW k \in 1 .. CbwLen, IssueBroken(k) PROVE Types'
  <2>1. rx' \in Seq(Nat) BY <1>6, BrokenBlock DEF IssueBroken
  <2> QED BY <1>6, <2>1, Broken DEF Types, IssueBroken, scsi_regs, in_ep
<1>7. CASE BusReset
  <2>1. rx' \in Seq(Nat) /\ fill' \in Seq(Token) /\ packets' \in Seq(Seq(Token))
    BY <1>7 DEF BusReset
  <2> QED BY <1>7, <2>1, ResetTypes DEF Types, BusReset
<1> QED BY <1>1, <1>2, <1>3, <1>4, <1>5, <1>6, <1>7 DEF HostStep, Start

-----------------------------------------------------------------------------
(* A data byte. *)

LEMMA DataByteIs == \A n \in Nat : DataByte(n) = DataAt(cmd, n)
BY DEF DataByte, DataAt, Failed

LEMMA UniqueQuotient ==
  ASSUME NEW m \in Nat \ {0}, NEW q \in Nat, NEW r \in 0 .. m - 1, NEW a \in Nat,
         a = m * q + r
  PROVE  a % m = r /\ a \div m = q
<1> DEFINE d == a \div m
           e == a % m
<1>1. d \in Nat /\ e \in 0 .. m - 1 /\ a = m * d + e BY SMT
<1> HIDE DEF d, e
<1>2. CASE d > q
  <2>1. PICK x \in Nat : d = q + 1 + x BY <1>1, <1>2, SMT
  <2>2. m * d = m * q + m + m * x BY <2>1, SMT
  <2>3. m * x >= 0 BY SMT
  <2> QED BY <1>1, <2>2, <2>3, SMT
<1>3. CASE q > d
  <2>1. PICK x \in Nat : q = d + 1 + x BY <1>1, <1>3, SMT
  <2>2. m * q = m * d + m + m * x BY <2>1, <1>1, SMT
  <2>3. m * x >= 0 BY SMT
  <2> QED BY <1>1, <2>2, <2>3, SMT
<1>4. CASE d = q BY <1>1, <1>4, SMT DEF d, e
<1> QED BY <1>1, <1>2, <1>3, <1>4

LEMMA Remainder ==
  ASSUME NEW n \in Nat, NEW m \in Nat \ {0}
  PROVE  /\ n % m \in 0 .. m - 1 /\ n \div m \in Nat
         /\ IF (n % m) + 1 = m
              THEN (n + 1) % m = 0 /\ (n + 1) \div m = (n \div m) + 1
              ELSE (n + 1) % m = (n % m) + 1 /\ (n + 1) \div m = n \div m
<1>1. n = m * (n \div m) + (n % m) /\ n \div m \in Nat /\ n % m \in 0 .. m - 1 BY SMT
<1> DEFINE q == n \div m
           r == n % m
<1>2. q \in Nat /\ r \in 0 .. m - 1 /\ n = m * q + r BY <1>1
<1> HIDE DEF q, r
<1>3. CASE r + 1 = m
  <2> DEFINE a == n + 1
             d == q + 1
  <2>1. a \in Nat /\ d \in Nat /\ 0 \in 0 .. m - 1 /\ a = m * d + 0 BY <1>2, <1>3, SMT
  <2> HIDE DEF a, d
  <2>2. a % m = 0 /\ a \div m = d BY <2>1, UniqueQuotient
  <2> QED BY <1>2, <1>3, <2>2 DEF a, d, q, r
<1>4. CASE r + 1 # m
  <2> DEFINE a == n + 1
             e == r + 1
  <2>1. a \in Nat /\ e \in 0 .. m - 1 /\ a = m * q + e BY <1>2, <1>4, SMT
  <2> HIDE DEF a, e
  <2>2. a % m = e /\ a \div m = q BY <1>2, <2>1, UniqueQuotient
  <2> QED BY <1>2, <1>4, <2>2 DEF a, e, q, r
<1> QED BY <1>3, <1>4

LEMMA Extended ==
  ASSUME NEW c, NEW p \in Seq(Token), NEW n \in Nat, NEW t \in Token,
         Carries(c, p, n), t = DataAt(c, n + Len(p))
  PROVE  /\ Append(p, t) \in Seq(Token) /\ Len(Append(p, t)) = Len(p) + 1
         /\ Carries(c, Append(p, t), n)
<1> DEFINE q == Append(p, t)
<1>1. /\ q \in Seq(Token) /\ Len(q) = Len(p) + 1 /\ Len(p) \in Nat
      /\ \A k \in 1 .. Len(p) : q[k] = p[k]
      /\ q[Len(p) + 1] = t
  BY AppendProperties, LenProperties
<1> HIDE DEF q
<1>2. ASSUME NEW k \in 1 .. Len(q) PROVE q[k] = DataAt(c, n + k - 1)
  <2>1. CASE k = Len(p) + 1
    <3>1. n + k - 1 = n + Len(p) BY <1>1, <2>1
    <3> QED BY <1>1, <2>1, <3>1, Zenon
  <2>2. CASE k # Len(p) + 1
    <3>1. k \in 1 .. Len(p) BY <1>1, <2>2
    <3> QED BY <1>1, <3>1 DEF Carries
  <2> QED BY <2>1, <2>2
<1> QED BY <1>1, <1>2 DEF Carries, q

\* A byte of the data phase goes into the packet, and closes it when it is the
\* last one or the packet is full.
LEMMA ByteSent ==
  ASSUME Types, OnItsWay, NEW t \in Token, t = DataAt(cmd, data_sent),
         NEW last \in BOOLEAN, Tx(t, last),
         data_sent' = data_sent + 1, UNCHANGED <<cmd, moved>>
  PROVE  /\ ~last => OnItsWay'
         /\ last \/ data_sent' % MaxPacket = 0 =>
              /\ fill' = <<>> /\ Len(packets') = 1
              /\ moved' + Len(packets'[1]) = data_sent'
              /\ Carries(cmd, packets[1], moved)'
<1> DEFINE p == Append(fill, t)
           n == data_sent - Len(fill)
<1>1. /\ fill \in Seq(Token) /\ packets \in Seq(Seq(Token)) /\ Len(fill) \in Nat
      /\ data_sent \in Nat /\ moved \in Nat
  BY LenProperties DEF Types
<1>2. packets = <<>>
  BY <1>1, TxTypes
<1>3. moved = n /\ n \in Nat /\ data_sent = n + Len(fill) /\ Carries(cmd, fill, n)
  BY <1>1, <1>2 DEF OnItsWay
<1>4. p \in Seq(Token) /\ Len(p) = Len(fill) + 1 /\ Carries(cmd, p, n)
  BY <1>1, <1>3, Extended
<1>5. /\ Len(fill) = data_sent % MaxPacket
      /\ IF Len(fill) + 1 = MaxPacket THEN data_sent' % MaxPacket = 0
                                      ELSE data_sent' % MaxPacket = Len(fill) + 1
  <2>1. Len(fill) = data_sent % MaxPacket BY DEF OnItsWay
  <2>2. MaxPacket \in Nat \ {0} BY ScsiAssumption
  <2>3. IF (data_sent % MaxPacket) + 1 = MaxPacket
          THEN (data_sent + 1) % MaxPacket = 0
          ELSE (data_sent + 1) % MaxPacket = (data_sent % MaxPacket) + 1
    BY <1>1, <2>2, Remainder
  <2> QED BY <2>1, <2>3
<1>6. n + Len(p) = data_sent' /\ moved' = n BY <1>1, <1>3, <1>4
<1>7. CASE packets' = <<p>> /\ fill' = <<>> /\ (last \/ Len(fill) + 1 = MaxPacket)
  <2>1. Len(packets') = 1 /\ packets'[1] = p BY <1>7
  <2>2. Carries(cmd, packets[1], moved)' BY <1>4, <1>6, <2>1
  <2>3. moved' + Len(packets'[1]) = data_sent' BY <1>6, <2>1
  <2>4. ASSUME ~last PROVE OnItsWay'
    <3>1. Len(fill) + 1 = MaxPacket BY <1>7, <2>4
    <3>2. Len(fill') = 0 /\ data_sent' % MaxPacket = 0 BY <1>5, <1>7, <3>1
    <3>3. Len(packets'[1]) = MaxPacket BY <1>4, <2>1, <3>1
    <3>4. Carries(cmd, fill, data_sent - Len(fill))' BY <1>7 DEF Carries
    <3>5. moved' + MaxPacket = data_sent' - Len(fill')
      <4>1. moved' + MaxPacket = data_sent' BY <1>4, <1>6, <3>1
      <4>2. data_sent' - 0 = data_sent' BY <1>1
      <4> QED BY <3>2, <4>1, <4>2
    <3> QED BY <2>1, <2>2, <3>2, <3>3, <3>4, <3>5 DEF OnItsWay
  <2> QED BY <1>7, <2>1, <2>2, <2>3, <2>4
<1>8. CASE packets' = <<>> /\ fill' = p /\ ~last /\ Len(fill) + 1 # MaxPacket
  <2>1. Len(fill') = data_sent' % MaxPacket /\ data_sent' % MaxPacket # 0
    BY <1>1, <1>4, <1>5, <1>8
  <2>2. data_sent' - Len(fill') = n BY <1>1, <1>3, <1>4, <1>8
  <2>3. Carries(cmd, fill, data_sent - Len(fill))' BY <1>4, <1>8, <2>2
  <2>4. OnItsWay' BY <1>3, <1>8, <2>1, <2>2, <2>3 DEF OnItsWay
  <2> QED BY <1>8, <2>1, <2>4
<1> QED BY <1>1, <1>7, <1>8, TxTypes

-----------------------------------------------------------------------------
(* Every step of the handler preserves the invariant. *)

LEMMA BlockIs ==
  ASSUME Types
  PROVE  /\ Block \in Seq(Nat) /\ Len(Block) = CbwLen
         /\ Block[1] = CBW_SIGNATURE /\ Block[2] = tag /\ Block[3] = cmd.length
         /\ Block[4] = cmd.op /\ Block[5] = cmd.lba
<1>1. cmd \in CommandState /\ tag \in Nat BY DEF Types
<1> QED BY <1>1, BlockFields, Broken DEF Block

\* What the handler reads of a block it has taken.
LEMMA BlockTaken ==
  ASSUME Types, cbw = Block
  PROVE  cbw_tag = tag /\ transfer_length = cmd.length /\ opcode = cmd.op
BY BlockIs DEF cbw_tag, transfer_length, opcode

LEMMA AtWork ==
  ASSUME ScsiInv, scsi_state \notin {"RECEIVE_CBW", "HALT"}
  PROVE  /\ Types /\ Engaged /\ cmd \in Commands
         /\ cbw = Block /\ cbw_tag = tag /\ transfer_length = cmd.length /\ opcode = cmd.op
BY BlockTaken DEF ScsiInv, Working, Taken, Moving

LEMMA ReceiveCbwStep ==
  ASSUME ScsiInv, ReceiveCbw, UNCHANGED hostvars, Types'
  PROVE  ScsiInv'
<1> DEFINE i == cbw_count
<1> USE DEF CbwLen
<1>1. /\ scsi_state = "RECEIVE_CBW" /\ rx # <<>> /\ rx' = Tail(rx)
      /\ cbw' = [cbw EXCEPT ![i + 1] = Head(rx)]
      /\ UNCHANGED <<data_sent, rom_offset, csw_status, sector_byte, csw, ghost, fill, packets>>
      /\ UNCHANGED <<host, cmd, tag, moved, error_in>>
  BY DEF ReceiveCbw, hostvars, in_ep
<1>2. Types BY DEF ScsiInv
<1>3. /\ rx' \in Seq(Nat) /\ Head(rx) = rx[1] /\ Len(rx) \in Nat \ {0} /\ Len(rx') = Len(rx) - 1
      /\ \A k \in 1 .. Len(rx) - 1 : rx'[k] = rx[k + 1]
  BY <1>1, <1>2, TakeHead DEF Types
<1>4. /\ i \in 0 .. 4 /\ cbw \in [1 .. 5 -> Nat]
      /\ cbw'[i + 1] = rx[1] /\ \A k \in 1 .. 5 : k # i + 1 => cbw'[k] = cbw[k]
  BY <1>1, <1>2, <1>3 DEF Types
<1>5. host # "idle" BY <1>1 DEF ScsiInv, Idle
<1>6. CASE host = "stuck"
  <2>1. Silent /\ i + Len(rx) <= 5
        /\ (i + Len(rx) = 5 => IF i = 0 THEN rx[1] # CBW_SIGNATURE ELSE cbw[1] # CBW_SIGNATURE)
    BY <1>1, <1>6 DEF ScsiInv, Stuck
  <2>2. CASE i = 4
    <3>1. scsi_state' = "HALT" /\ cbw_count' = 0
      BY <1>3, <2>1, <2>2 DEF ReceiveCbw, signature
    <3>2. rx' = <<>> BY <1>3, <2>1, <2>2, EmptySeq
    <3>3. Stuck' BY <1>1, <1>6, <2>1, <3>1, <3>2 DEF Stuck, Silent
    <3> QED
      BY <1>1, <1>6, <3>1, <3>3
      DEF ScsiInv, AtRest, Working, Idle, Moving, Receiving, Taken, Dispatching, Sending, InRom,
          InSector, InShortData, InWriteData, Ending, InCsw, Answered, Engaged
  <2>3. CASE i # 4
    <3>1. scsi_state' = "RECEIVE_CBW" /\ cbw_count' = i + 1
      BY <1>1, <2>3 DEF ReceiveCbw
    <3>2. i + 1 + Len(rx') = 5 => cbw'[1] # CBW_SIGNATURE
      BY <1>3, <1>4, <2>1
    <3>3. Stuck' BY <1>1, <1>3, <1>4, <1>6, <2>1, <3>1, <3>2 DEF Stuck, Silent
    <3> QED
      BY <1>1, <1>6, <3>1, <3>3
      DEF ScsiInv, AtRest, Working, Idle, Moving, Receiving, Taken, Dispatching, Sending, InRom,
          InSector, InShortData, InWriteData, Ending, InCsw, Answered, Engaged
  <2> QED BY <2>2, <2>3
<1>7. CASE host # "stuck"
  <2>1. Engaged BY <1>2, <1>5, <1>7 DEF Types, Engaged
  <2>2. packets = <<>> BY <1>1, <2>1 DEF ScsiInv, Answered
  <2>3. /\ fill = <<>> /\ Unanswered /\ i + Len(rx) = 5 + moved
        /\ \A k \in 1 .. i : cbw[k] = Block[k]
        /\ \A k \in 1 .. 5 - i : rx[k] = Block[i + k]
    BY <1>1, <2>1, <2>2 DEF ScsiInv, Receiving
  <2>4. rx[1] = Block[i + 1] BY <1>4, <2>3
  <2>5. ASSUME NEW k \in 1 .. i + 1 PROVE cbw'[k] = Block[k]
    <3>1. CASE k = i + 1 BY <1>4, <2>4, <3>1, Zenon
    <3>2. CASE k # i + 1
      <4>1. k \in 1 .. i /\ k \in 1 .. 5 BY <1>4, <3>2
      <4> QED BY <1>4, <2>3, <3>2, <4>1, Zenon
    <3> QED BY <3>1, <3>2
  <2>6. Block' = Block /\ Unanswered' /\ Engaged' BY <1>1, <2>1, <2>3 DEF Block, Unanswered, Engaged, Direction
  <2>7. Block \in Seq(Nat) /\ Len(Block) = 5 /\ Block[1] = CBW_SIGNATURE /\ Block[5] = cmd.lba
    BY <1>2, BlockIs
  <2>8. cmd \in Commands BY <2>1 DEF ScsiInv, Moving
  <2>9. CASE i = 4
    <3>1. scsi_state' = "DISPATCH" /\ cbw_count' = 0 /\ scsi_lba' = cmd.lba
      BY <1>1, <1>3, <2>3, <2>4, <2>7, <2>9 DEF ReceiveCbw, signature
    <3>2. cbw' = Block
      <4>1. cbw' \in [1 .. 5 -> Nat] /\ Block \in [1 .. 5 -> Nat]
        BY <2>7, Types', LenProperties DEF Types
      <4>2. \A k \in 1 .. 5 : cbw'[k] = Block[k] BY <2>5, <2>9
      <4> QED BY <4>1, <4>2
    <3>3. Len(rx') = moved
      <4>1. moved \in Nat BY <1>2 DEF Types
      <4> QED BY <1>3, <2>3, <2>9, <4>1
    <3>4. Moving' BY <1>1, <2>1, <3>1 DEF ScsiInv, Moving, Engaged
    <3>5. Dispatching' BY <1>1, <2>2, <2>3, <2>6, <3>1, <3>3 DEF Dispatching, Silent
    <3>6. Taken' BY <2>6, <3>2 DEF Taken
    <3> QED
      BY <1>1, <1>5, <1>7, <2>6, <3>1, <3>4, <3>5, <3>6
      DEF ScsiInv, AtRest, Working, Idle, Stuck, Receiving, Sending, InRom,
          InSector, InShortData, InWriteData, Ending, InCsw, Answered
  <2>10. CASE i # 4
    <3>1. scsi_state' = "RECEIVE_CBW" /\ cbw_count' = i + 1
      BY <1>1, <2>10 DEF ReceiveCbw
    <3>2. cbw_count' + Len(rx') = 5 + moved BY <1>3, <1>4, <2>3, <3>1
    <3>3. \A k \in 1 .. 5 - cbw_count' : rx'[k] = Block[cbw_count' + k]
      <4> TAKE k \in 1 .. 5 - cbw_count'
      <4>1. k + 1 \in 1 .. 5 - i /\ k \in 1 .. Len(rx) - 1 /\ i + (k + 1) = cbw_count' + k
        <5>1. moved \in Nat BY <1>2 DEF Types
        <5> QED BY <1>3, <1>4, <2>3, <3>1, <5>1
      <4> QED BY <1>3, <2>3, <4>1
    <3>4. Moving' BY <1>1, <2>1, <3>1 DEF ScsiInv, Moving, Engaged
    <3>5. Receiving' BY <1>1, <2>3, <2>5, <2>6, <3>1, <3>2, <3>3 DEF Receiving
    <3> QED
      BY <1>1, <1>5, <1>7, <2>2, <2>6, <3>1, <3>4, <3>5
      DEF ScsiInv, AtRest, Working, Idle, Stuck, Taken, Dispatching, Sending, InRom,
          InSector, InShortData, InWriteData, Ending, InCsw, Answered
  <2> QED BY <2>9, <2>10
<1> QED BY <1>6, <1>7

\* The data phase begins.
LEMMA NothingSent ==
  ASSUME Silent', data_sent' = 0, moved' = 0
  PROVE  OnItsWay'
<1>1. fill' = <<>> /\ packets' = <<>> /\ Len(fill') = 0 BY DEF Silent
<1>2. MaxPacket \in Nat \ {0} BY ScsiAssumption
<1>3. 0 % MaxPacket = 0 BY <1>2
<1>4. Carries(cmd, fill, data_sent - Len(fill))' BY <1>1 DEF Carries
<1>5. moved' = data_sent' - Len(fill')
  <2>1. 0 = 0 - 0 OBVIOUS
  <2> QED BY <1>1, <2>1, Zenon
<1> QED BY <1>1, <1>3, <1>4, <1>5 DEF OnItsWay

LEMMA DispatchStep ==
  ASSUME AnswersFit, ScsiInv, DispatchAndClear, Types'
  PROVE  ScsiInv'
<1>1. /\ scsi_state = "DISPATCH" /\ Dispatch /\ data_sent' = 0
      /\ UNCHANGED <<cbw_count, cbw, scsi_lba, sector_byte, csw, rx, fill, packets>>
      /\ UNCHANGED <<host, cmd, tag, moved>>
  BY DEF DispatchAndClear, Dispatch, in_ep
<1>2. Types /\ Engaged /\ cmd \in Commands /\ cbw = Block /\ opcode = cmd.op
  BY <1>1, AtWork
<1>3. Silent /\ Unanswered /\ Len(rx) = moved /\ scsi_lba = cmd.lba
  BY <1>1 DEF ScsiInv, Dispatching
<1>4. Engaged' /\ Block' = Block /\ Taken' BY <1>1, <1>2 DEF Engaged, Block, Taken
<1>5. ~ghost.busy /\ sector_byte = 0 /\ cbw_count = 0 BY <1>1 DEF ScsiInv, AtRest
<1>6. rx \in Seq(Nat) /\ (moved = 0 => rx = <<>>) BY <1>2, <1>3, EmptySeq DEF Types
<1>7. host # "idle" /\ host # "stuck" BY <1>2 DEF Engaged
<1>8. Moving BY DEF ScsiInv
<1>9. OP_READ_10 # OP_WRITE_10 /\ OP_READ_10 \notin RomOps /\ OP_WRITE_10 \notin RomOps
      /\ OP_TEST_UNIT_READY \notin RomOps \cup {OP_READ_10, OP_WRITE_10}
  BY ScsiAssumption DEF OP_READ_10, OP_WRITE_10, OP_TEST_UNIT_READY
<1>10. cmd.length \in Nat /\ cmd.lba \in Nat BY <1>2 DEF Types, CommandState
<1>11. fill' = <<>> /\ packets' = <<>> /\ Silent'
  BY <1>1, <1>3 DEF Silent
<1>12. ASSUME cmd.op # OP_WRITE_10, cmd.length > 0
       PROVE  host = "data_in" /\ moved = 0 /\ rx = <<>> /\ OnItsWay'
  <2>1. host = "data_in" /\ moved = 0 /\ rx = <<>>
    BY <1>3, <1>6, <1>10, <1>12 DEF Unanswered, Direction
  <2> QED BY <1>1, <1>11, <2>1, NothingSent
<1>13. CASE cmd.op \in RomOps
  <2>1. scsi_state' = "SEND_RESPONSE" /\ ~csw_status' /\ rom_offset' = 0 /\ ghost' = ghost
    BY <1>1, <1>2, <1>9, <1>13, Dispatched
  <2>2. cmd.length > 0 /\ cmd.op # OP_WRITE_10 BY <1>2, <1>9, <1>13 DEF AnswersFit
  <2>3. RomLength[cmd.op] > 0
    <3>1. RomLength[cmd.op] \in Nat \ {0} BY <1>13, ScsiAssumption
    <3> QED BY <3>1
  <2>4. Sending' /\ InRom' BY <1>1, <1>12, <1>13, <2>1, <2>2, <2>3 DEF Sending, InRom
  <2> QED
    BY <1>1, <1>2, <1>4, <1>5, <1>7, <1>8, <2>1, <2>4
    DEF ScsiInv, AtRest, Working, Idle, Stuck, Moving, Receiving, Dispatching, InSector,
        InShortData, InWriteData, Ending, InCsw, Answered
<1>14. CASE cmd.op = OP_READ_10 /\ cmd.lba >= BlockCount
  <2>1. scsi_state' = "SEND_SHORT_DATA" /\ csw_status' /\ ghost' = ghost
    BY <1>1, <1>2, <1>3, <1>9, <1>10, <1>14, Dispatched, ScsiAssumption
  <2>2. cmd.length > 0 /\ cmd.op # OP_WRITE_10 BY <1>2, <1>9, <1>14 DEF AnswersFit
  <2>3. InShortData'
    BY <1>1, <1>11, <1>12, <1>14, <2>1, <2>2 DEF InShortData, Failed
  <2> QED
    BY <1>1, <1>2, <1>4, <1>5, <1>7, <1>8, <2>1, <2>3
    DEF ScsiInv, AtRest, Working, Idle, Stuck, Moving, Receiving, Dispatching, Sending, InRom,
        InSector, InWriteData, Ending, InCsw, Answered
<1>15. CASE cmd.op = OP_READ_10 /\ cmd.lba < BlockCount
  <2>1. scsi_state' = "SEND_SECTOR" /\ ~csw_status'
        /\ ghost' = [busy |-> TRUE, lba |-> scsi_lba, byte |-> 0]
    BY <1>1, <1>2, <1>3, <1>5, <1>9, <1>10, <1>15, Dispatched, ScsiAssumption DEF StartGhost
  <2>2. cmd.length > 0 /\ cmd.op # OP_WRITE_10 BY <1>2, <1>9, <1>15 DEF AnswersFit
  <2>3. 0 % SectorSize = 0 /\ 0 \div SectorSize = 0 BY ScsiAssumption
  <2>4. Sending' BY <1>1, <1>12, <2>1, <2>2 DEF Sending
  <2>5. InSector' BY <1>1, <1>3, <1>5, <1>10, <1>15, <2>1, <2>3 DEF InSector
  <2> QED
    BY <1>1, <1>2, <1>4, <1>5, <1>7, <1>8, <2>1, <2>4, <2>5
    DEF ScsiInv, AtRest, Working, Idle, Stuck, Moving, Receiving, Dispatching, InRom,
        InShortData, InWriteData, Ending, InCsw, Answered
<1>16. CASE cmd.op = OP_WRITE_10
  <2>1. scsi_state' = "RECEIVE_WRITE_DATA" /\ csw_status' = (scsi_lba >= BlockCount) /\ ghost' = ghost
    BY <1>1, <1>2, <1>9, <1>16, Dispatched
  <2>2. cmd.length > 0 BY <1>2, <1>16 DEF AnswersFit
  <2>3. csw_status' = Failed' BY <1>1, <1>3, <1>16, <2>1 DEF Failed
  <2>4. 0 + Len(rx) = moved BY <1>3, <1>6, LenProperties
  <2>5. InWriteData' BY <1>1, <1>11, <1>16, <2>1, <2>2, <2>3, <2>4 DEF InWriteData
  <2> QED
    BY <1>1, <1>2, <1>4, <1>5, <1>7, <1>8, <2>1, <2>5
    DEF ScsiInv, AtRest, Working, Idle, Stuck, Moving, Receiving, Dispatching, Sending, InRom,
        InSector, InShortData, Ending, InCsw, Answered
<1>17. CASE cmd.op \notin RomOps \cup {OP_READ_10, OP_WRITE_10}
  <2>1. scsi_state' = "SEND_CSW_PREP" /\ ghost' = ghost
        /\ csw_status' = (cmd.op # OP_TEST_UNIT_READY)
    BY <1>1, <1>2, <1>9, <1>17, Dispatched
  <2>2. cmd.length = 0 /\ cmd.op # OP_WRITE_10 BY <1>2, <1>17 DEF AnswersFit
  <2>3. host = "status" /\ moved = 0 /\ rx = <<>>
    BY <1>3, <1>6, <2>2 DEF Unanswered, Direction
  <2>4. csw_status' = (~Known \/ Failed)' BY <1>1, <1>17, <2>1 DEF Known, Failed
  <2>5. Ending' BY <1>1, <1>11, <2>1, <2>3, <2>4 DEF Ending
  <2> QED
    BY <1>1, <1>2, <1>4, <1>5, <1>7, <1>8, <2>1, <2>5
    DEF ScsiInv, AtRest, Working, Idle, Stuck, Moving, Receiving, Dispatching, Sending, InRom,
        InSector, InShortData, InWriteData, InCsw, Answered
<1>18. cmd.lba >= BlockCount \/ cmd.lba < BlockCount BY <1>10, ScsiAssumption
<1> QED BY <1>13, <1>14, <1>15, <1>16, <1>17, <1>18

\* Where data are sent, before and after a byte.
LEMMA SendingFacts ==
  ASSUME ScsiInv, scsi_state \in {"SEND_RESPONSE", "SEND_ZEROS_CONT", "SEND_SECTOR"},
         UNCHANGED <<cbw, csw_status, rx, host, cmd, tag, moved>>,
         data_sent' = data_sent + 1
  PROVE  /\ Types /\ cmd \in Commands /\ host = "data_in" /\ rx = <<>> /\ ~csw_status
         /\ opcode = cmd.op /\ OnItsWay
         /\ cmd.length \in Nat /\ cmd.op \in Nat /\ cmd.lba \in Nat /\ data_sent \in Nat
         /\ data_sent < cmd.length
         /\ LastByte <=> data_sent' = cmd.length
         /\ ~LastByte => data_sent' < cmd.length
         /\ Engaged' /\ Taken' /\ cbw_count = 0
         /\ host' # "idle" /\ host' # "stuck"
<1>1. /\ Types /\ cmd \in Commands /\ Engaged /\ cbw = Block /\ transfer_length = cmd.length
      /\ opcode = cmd.op
  BY AtWork
<1>2. /\ host = "data_in" /\ rx = <<>> /\ ~csw_status /\ OnItsWay /\ data_sent < cmd.length
  BY DEF ScsiInv, Sending
<1>3. cmd.length \in Nat /\ cmd.op \in Nat /\ cmd.lba \in Nat /\ data_sent \in Nat
  BY <1>1 DEF Types, CommandState
<1>4. /\ LastByte <=> data_sent' = cmd.length
      /\ ~LastByte => data_sent' < cmd.length
  BY <1>1, <1>2, <1>3 DEF LastByte
<1>5. Block' = Block BY DEF Block
<1>6. Engaged' /\ Taken' BY <1>1, <1>2, <1>5 DEF Engaged, Taken
<1>7. cbw_count = 0 BY DEF ScsiInv, AtRest
<1> QED BY <1>1, <1>2, <1>3, <1>4, <1>6, <1>7

LEMMA SendResponseStep ==
  ASSUME AnswersFit, ScsiInv, SendResponse, UNCHANGED hostvars, Types'
  PROVE  ScsiInv'
<1>1. /\ scsi_state = "SEND_RESPONSE" /\ Tx(<<"rom", opcode, rom_offset>>, LastByte)
      /\ data_sent' = data_sent + 1 /\ rom_offset' = rom_offset + 1
      /\ scsi_state' = IF LastByte THEN "SEND_CSW_PREP"
                       ELSE IF rom_offset = RomLength[opcode] - 1 THEN "SEND_ZEROS_CONT"
                       ELSE scsi_state
      /\ UNCHANGED <<cbw_count, cbw, csw_status, scsi_lba, sector_byte, csw, ghost, rx>>
      /\ UNCHANGED <<host, cmd, tag, moved, error_in>>
  BY DEF SendResponse, hostvars
<1>2. /\ Types /\ cmd \in Commands /\ host = "data_in" /\ rx = <<>> /\ ~csw_status
      /\ opcode = cmd.op /\ OnItsWay
      /\ cmd.length \in Nat /\ cmd.op \in Nat /\ cmd.lba \in Nat /\ data_sent \in Nat
      /\ LastByte <=> data_sent' = cmd.length
      /\ ~LastByte => data_sent' < cmd.length
      /\ Engaged' /\ Taken' /\ cbw_count = 0
      /\ host' # "idle" /\ host' # "stuck"
  BY <1>1, SendingFacts
<1>3. cmd.op \in RomOps /\ rom_offset = data_sent /\ rom_offset < RomLength[cmd.op]
  BY <1>1 DEF ScsiInv, InRom
<1>4. ~ghost.busy /\ sector_byte = 0 BY <1>1 DEF ScsiInv, AtRest
<1>5. cmd.op \notin {OP_READ_10, OP_WRITE_10} BY <1>3, ScsiAssumption
<1>6. RomLength[cmd.op] \in Nat BY <1>3, ScsiAssumption
<1> DEFINE t == <<"rom", opcode, rom_offset>>
<1>7. t \in Token /\ t = DataAt(cmd, data_sent)
  <2>1. t \in Token BY <1>2, <1>3, TokenTypes, Zenon
  <2>2. t = <<"rom", cmd.op, data_sent>> BY <1>2, <1>3, Zenon
  <2>3. data_sent < RomLength[cmd.op] BY <1>3
  <2> QED BY <1>5, <2>1, <2>2, <2>3, Zenon DEF DataAt
<1>8. LastByte \in BOOLEAN BY <1>2, Fields
<1> HIDE DEF t
<1>9. /\ ~LastByte => OnItsWay'
      /\ LastByte =>
           /\ fill' = <<>> /\ Len(packets') = 1
           /\ moved' + Len(packets'[1]) = data_sent'
           /\ Carries(cmd, packets[1], moved)'
  BY <1>1, <1>2, <1>7, <1>8, ByteSent DEF t
<1>10. Moving' BY <1>1, <1>2 DEF ScsiInv, Moving, Engaged
<1>11. CASE LastByte
  <2>1. scsi_state' = "SEND_CSW_PREP" BY <1>1, <1>11
  <2>2. csw_status' = (~Known \/ Failed)' BY <1>1, <1>2, <1>3, <1>5, Types' DEF Known, Failed, Types
  <2>3. Ending' BY <1>1, <1>2, <1>9, <1>11, <2>1, <2>2 DEF Ending
  <2> QED
    BY <1>1, <1>2, <1>4, <1>10, <2>1, <2>3
    DEF ScsiInv, AtRest, Working, Idle, Stuck, Receiving, Dispatching, Sending, InRom,
        InSector, InShortData, InWriteData, InCsw, Answered
<1>12. CASE ~LastByte
  <2>1. scsi_state' \in {"SEND_RESPONSE", "SEND_ZEROS_CONT"} BY <1>1, <1>12
  <2>2. Sending' BY <1>1, <1>2, <1>9, <1>12, <2>1 DEF Sending
  <2>3. InRom' BY <1>1, <1>2, <1>3, <1>6, <1>12, <2>1 DEF InRom
  <2> QED
    BY <1>1, <1>2, <1>4, <1>10, <2>1, <2>2, <2>3
    DEF ScsiInv, AtRest, Working, Idle, Stuck, Receiving, Dispatching,
        InSector, InShortData, InWriteData, Ending, InCsw, Answered
<1> QED BY <1>11, <1>12

LEMMA SendZerosStep ==
  ASSUME AnswersFit, ScsiInv, SendZerosCont, UNCHANGED hostvars, Types'
  PROVE  ScsiInv'
<1>1. /\ scsi_state = "SEND_ZEROS_CONT" /\ Tx(<<"zero", 0, 0>>, FALSE)
      /\ data_sent' = data_sent + 1
      /\ scsi_state' = IF LastByte THEN "SEND_CSW_PREP" ELSE scsi_state
      /\ UNCHANGED <<cbw_count, cbw, rom_offset, csw_status, scsi_lba, sector_byte, csw, ghost, rx>>
      /\ UNCHANGED <<host, cmd, tag, moved, error_in>>
  BY DEF SendZerosCont, hostvars
<1>2. /\ Types /\ cmd \in Commands /\ host = "data_in" /\ rx = <<>> /\ ~csw_status
      /\ opcode = cmd.op /\ OnItsWay
      /\ cmd.length \in Nat /\ cmd.op \in Nat /\ cmd.lba \in Nat /\ data_sent \in Nat
      /\ data_sent < cmd.length
      /\ LastByte <=> data_sent' = cmd.length
      /\ ~LastByte => data_sent' < cmd.length
      /\ Engaged' /\ Taken' /\ cbw_count = 0
      /\ host' # "idle" /\ host' # "stuck"
  BY <1>1, SendingFacts
<1>3. cmd.op \in RomOps /\ data_sent >= RomLength[cmd.op]
  BY <1>1 DEF ScsiInv, InRom
<1>4. ~ghost.busy /\ sector_byte = 0 BY <1>1 DEF ScsiInv, AtRest
<1>5. cmd.op \notin {OP_READ_10, OP_WRITE_10} BY <1>3, ScsiAssumption
<1>6. RomLength[cmd.op] \in Nat BY <1>3, ScsiAssumption
<1> DEFINE t == <<"zero", 0, 0>>
<1>7. t \in Token /\ t = DataAt(cmd, data_sent)
  <2>1. t \in Token BY TokenTypes
  <2>2. ~(data_sent < RomLength[cmd.op]) BY <1>2, <1>3, <1>6
  <2> QED BY <1>5, <2>1, <2>2, Zenon DEF DataAt
<1> HIDE DEF t
<1>8. /\ OnItsWay'
      /\ data_sent' % MaxPacket = 0 =>
           /\ fill' = <<>> /\ Len(packets') = 1
           /\ moved' + Len(packets'[1]) = data_sent'
           /\ Carries(cmd, packets[1], moved)'
  BY <1>1, <1>2, <1>7, ByteSent DEF t
<1>9. Moving' BY <1>1, <1>2 DEF ScsiInv, Moving, Engaged
<1>10. CASE LastByte
  <2>1. scsi_state' = "SEND_CSW_PREP" /\ data_sent' = cmd.length BY <1>1, <1>2, <1>10
  <2>2. ~(cmd.length <= RomLength[cmd.op]) BY <1>2, <1>3, <1>6
  <2>3. data_sent' % MaxPacket = 0 BY <1>2, <1>3, <2>1, <2>2 DEF AnswersFit
  <2>4. csw_status' = (~Known \/ Failed)' BY <1>1, <1>2, <1>3, <1>5, Types' DEF Known, Failed, Types
  <2>5. Ending' BY <1>1, <1>2, <1>8, <2>1, <2>3, <2>4 DEF Ending
  <2> QED
    BY <1>1, <1>2, <1>4, <1>9, <2>1, <2>5
    DEF ScsiInv, AtRest, Working, Idle, Stuck, Receiving, Dispatching, Sending, InRom,
        InSector, InShortData, InWriteData, InCsw, Answered
<1>11. CASE ~LastByte
  <2>1. scsi_state' = "SEND_ZEROS_CONT" BY <1>1, <1>11
  <2>2. Sending' BY <1>1, <1>2, <1>8, <1>11, <2>1 DEF Sending
  <2>3. InRom' BY <1>1, <1>2, <1>3, <1>6, <2>1 DEF InRom
  <2> QED
    BY <1>1, <1>2, <1>4, <1>9, <2>1, <2>2, <2>3
    DEF ScsiInv, AtRest, Working, Idle, Stuck, Receiving, Dispatching,
        InSector, InShortData, InWriteData, Ending, InCsw, Answered
<1> QED BY <1>10, <1>11

LEMMA SendSectorStep ==
  ASSUME AnswersFit, ScsiInv, SendSector, UNCHANGED hostvars, Types'
  PROVE  ScsiInv'
<1> DEFINE sectorEnd == ~LastByte /\ sector_byte = SectorSize - 1
           ghostEnd  == ghost.byte = SectorSize - 1
           t == <<"sector", ghost.lba, ghost.byte>>
<1>1. /\ scsi_state = "SEND_SECTOR" /\ Tx(t, FALSE)
      /\ data_sent' = data_sent + 1
      /\ scsi_state' = IF LastByte THEN "SEND_CSW_PREP" ELSE scsi_state
      /\ sector_byte' = IF LastByte \/ sectorEnd THEN 0 ELSE sector_byte + 1
      /\ scsi_lba' = IF sectorEnd THEN scsi_lba + 1 ELSE scsi_lba
      /\ ghost' = IF ~ghostEnd THEN [ghost EXCEPT !.byte = @ + 1]
                  ELSE IF sectorEnd THEN [busy |-> TRUE, lba |-> scsi_lba + 1, byte |-> 0]
                  ELSE [ghost EXCEPT !.busy = FALSE]
      /\ UNCHANGED <<cbw_count, cbw, rom_offset, csw_status, csw, rx>>
      /\ UNCHANGED <<host, cmd, tag, moved, error_in>>
  BY DEF SendSector, hostvars
<1>2. /\ Types /\ cmd \in Commands /\ host = "data_in" /\ rx = <<>> /\ ~csw_status
      /\ opcode = cmd.op /\ OnItsWay
      /\ cmd.length \in Nat /\ cmd.op \in Nat /\ cmd.lba \in Nat /\ data_sent \in Nat
      /\ data_sent < cmd.length
      /\ LastByte <=> data_sent' = cmd.length
      /\ ~LastByte => data_sent' < cmd.length
      /\ Engaged' /\ Taken' /\ cbw_count = 0
      /\ host' # "idle" /\ host' # "stuck"
  BY <1>1, SendingFacts
<1>3. /\ cmd.op = OP_READ_10 /\ cmd.lba < BlockCount
      /\ ghost = [busy |-> TRUE, lba |-> scsi_lba, byte |-> sector_byte]
      /\ scsi_lba = cmd.lba + data_sent \div SectorSize
      /\ sector_byte = data_sent % SectorSize
  BY <1>1 DEF ScsiInv, InSector
<1>4. SectorSize \in Nat \ {0} /\ BlockCount \in Nat /\ OP_READ_10 # OP_WRITE_10
  BY ScsiAssumption DEF OP_READ_10, OP_WRITE_10
<1>5. /\ sector_byte \in 0 .. SectorSize - 1 /\ data_sent \div SectorSize \in Nat
      /\ IF sector_byte + 1 = SectorSize
           THEN data_sent' % SectorSize = 0 /\ data_sent' \div SectorSize = (data_sent \div SectorSize) + 1
           ELSE /\ data_sent' % SectorSize = sector_byte + 1
                /\ data_sent' \div SectorSize = data_sent \div SectorSize
  <2> DEFINE n == data_sent
  <2>1. n \in Nat BY <1>2
  <2> HIDE DEF n
  <2>2. /\ n % SectorSize \in 0 .. SectorSize - 1 /\ n \div SectorSize \in Nat
        /\ IF (n % SectorSize) + 1 = SectorSize
             THEN (n + 1) % SectorSize = 0 /\ (n + 1) \div SectorSize = (n \div SectorSize) + 1
             ELSE (n + 1) % SectorSize = (n % SectorSize) + 1 /\ (n + 1) \div SectorSize = n \div SectorSize
    BY <1>4, <2>1, Remainder
  <2> QED BY <1>1, <1>3, <2>2 DEF n
<1>6. ghost.busy /\ ghost.lba = scsi_lba /\ ghost.byte = sector_byte BY <1>3
<1>7. t \in Token /\ t = DataAt(cmd, data_sent)
  <2>1. ghost.lba \in Nat /\ ghost.byte \in Nat BY <1>2, Fields DEF GhostState
  <2>2. t \in Token BY <2>1, TokenTypes, Zenon
  <2>3. t = <<"sector", cmd.lba + data_sent \div SectorSize, data_sent % SectorSize>>
    BY <1>3, <1>6, Zenon
  <2>4. ~(cmd.lba >= BlockCount) BY <1>2, <1>3, <1>4
  <2> QED BY <1>3, <2>2, <2>3, <2>4, Zenon DEF DataAt
<1> HIDE DEF t
<1>8. /\ OnItsWay'
      /\ data_sent' % MaxPacket = 0 =>
           /\ fill' = <<>> /\ Len(packets') = 1
           /\ moved' + Len(packets'[1]) = data_sent'
           /\ Carries(cmd, packets[1], moved)'
  BY <1>1, <1>2, <1>7, ByteSent
<1>9. Moving' BY <1>1, <1>2 DEF ScsiInv, Moving, Engaged
<1>10. CASE LastByte
  <2>1. scsi_state' = "SEND_CSW_PREP" /\ data_sent' = cmd.length /\ sector_byte' = 0
    BY <1>1, <1>2, <1>10
  <2>2. data_sent' % MaxPacket = 0 /\ data_sent' % SectorSize = 0
    BY <1>2, <1>3, <2>1 DEF AnswersFit
  <2>3. sector_byte + 1 = SectorSize BY <1>4, <1>5, <2>2
  <2>4. ghostEnd /\ ~sectorEnd BY <1>4, <1>5, <1>6, <1>10, <2>3
  <2>5. ghost' = [ghost EXCEPT !.busy = FALSE] BY <1>1, <2>4
  <2>6. ~ghost'.busy BY <1>3, <2>5
  <2>7. Known' /\ ~Failed' BY <1>1, <1>2, <1>3, <1>4 DEF Known, Failed
  <2>8. csw_status' = (~Known \/ Failed)' BY <1>1, <1>2, <2>7, Types' DEF Types
  <2>9. Ending' BY <1>1, <1>2, <1>8, <2>1, <2>2, <2>8 DEF Ending
  <2> QED
    BY <1>1, <1>2, <1>9, <2>1, <2>6, <2>9
    DEF ScsiInv, AtRest, Working, Idle, Stuck, Receiving, Dispatching, Sending, InRom,
        InSector, InShortData, InWriteData, InCsw, Answered
<1>11. CASE ~LastByte
  <2>1. scsi_state' = "SEND_SECTOR" BY <1>1, <1>11
  <2>2. Sending' BY <1>1, <1>2, <1>8, <1>11, <2>1 DEF Sending
  <2>3. ASSUME sector_byte + 1 = SectorSize PROVE InSector'
    <3>1. ghostEnd /\ sectorEnd BY <1>4, <1>5, <1>6, <1>11, <2>3
    <3>2. ghost' = [busy |-> TRUE, lba |-> scsi_lba + 1, byte |-> 0] /\ sector_byte' = 0
          /\ scsi_lba' = scsi_lba + 1
      BY <1>1, <3>1
    <3>3. scsi_lba + 1 = cmd.lba + data_sent' \div SectorSize
      <4> DEFINE q == data_sent \div SectorSize
                 r == data_sent' \div SectorSize
      <4>1. q \in Nat /\ r = q + 1 /\ scsi_lba = cmd.lba + q BY <1>3, <1>5, <2>3
      <4> HIDE DEF q, r
      <4>2. scsi_lba + 1 = cmd.lba + r BY <1>2, <4>1
      <4> QED BY <4>2 DEF r
    <3> QED BY <1>1, <1>3, <1>5, <2>3, <3>2, <3>3 DEF InSector
  <2>4. ASSUME sector_byte + 1 # SectorSize PROVE InSector'
    <3>1. ~ghostEnd /\ ~sectorEnd BY <1>4, <1>5, <1>6, <2>4
    <3>2. ghost' = [ghost EXCEPT !.byte = @ + 1] /\ sector_byte' = sector_byte + 1
          /\ scsi_lba' = scsi_lba
      BY <1>1, <1>11, <3>1
    <3>3. ghost' = [busy |-> TRUE, lba |-> scsi_lba, byte |-> sector_byte + 1]
      BY <1>3, <3>2
    <3> QED BY <1>1, <1>3, <1>5, <2>4, <3>2, <3>3 DEF InSector
  <2>5. InSector' BY <2>3, <2>4
  <2> QED
    BY <1>1, <1>2, <1>9, <2>1, <2>2, <2>5
    DEF ScsiInv, AtRest, Working, Idle, Stuck, Receiving, Dispatching, InRom,
        InShortData, InWriteData, Ending, InCsw, Answered
<1> QED BY <1>10, <1>11

LEMMA SendShortDataStep ==
  ASSUME AnswersFit, ScsiInv, SendShortData, UNCHANGED hostvars, Types'
  PROVE  ScsiInv'
<1> DEFINE t == <<"zero", 0, 0>>
<1>1. /\ scsi_state = "SEND_SHORT_DATA" /\ Tx(t, TRUE)
      /\ data_sent' = 1 /\ scsi_state' = "SEND_CSW_PREP"
      /\ UNCHANGED <<cbw_count, cbw, rom_offset, csw_status, scsi_lba, sector_byte, csw, ghost, rx>>
      /\ UNCHANGED <<host, cmd, tag, moved, error_in>>
  BY DEF SendShortData, hostvars
<1>2. Types /\ Engaged /\ cmd \in Commands /\ cbw = Block BY <1>1, AtWork
<1>3. /\ host = "data_in" /\ cmd.op = OP_READ_10 /\ Failed
      /\ moved = 0 /\ Silent /\ rx = <<>> /\ csw_status
  BY <1>1 DEF ScsiInv, InShortData
<1>4. Engaged' /\ Taken' BY <1>1, <1>2 DEF Engaged, Taken, Block
<1>5. t \in Token /\ t = DataAt(cmd, 0)
  <2>1. t \in Token BY TokenTypes
  <2> QED BY <1>3, <2>1, Zenon DEF DataAt, Failed
<1> HIDE DEF t
<1>6. packets' = << Append(<<>>, t) >> /\ fill' = <<>>
  BY <1>1, <1>2, <1>3, <1>5, TxTypes DEF Types, Silent
<1>7. Len(packets') = 1 /\ packets'[1] = <<t>> /\ Len(packets'[1]) = 1
  BY <1>6
<1>8. Carries(cmd, packets[1], moved)'
  <2>1. Carries(cmd, <<t>>, 0)
    <3> SUFFICES ASSUME NEW k \in 1 .. Len(<<t>>) PROVE <<t>>[k] = DataAt(cmd, 0 + k - 1)
      BY DEF Carries
    <3>1. k = 1 /\ 0 + k - 1 = 0 OBVIOUS
    <3> QED BY <1>5, <3>1
  <2> QED BY <1>1, <1>3, <1>7, <2>1
<1>9. 1 < MaxPacket BY ScsiAssumption DEF AnswersFit
<1>10. Moving' BY <1>1 DEF ScsiInv, Moving, Engaged
<1>11. ~ghost.busy /\ sector_byte = 0 /\ cbw_count = 0 BY <1>1 DEF ScsiInv, AtRest
<1>12. csw_status' = (~Known \/ Failed)'
  BY <1>1, <1>3, Types' DEF Known, Failed, Types
<1>13. Ending'
  <2>1. moved' + Len(packets'[1]) = data_sent' BY <1>1, <1>3, <1>7
  <2> QED BY <1>1, <1>3, <1>6, <1>7, <1>8, <1>9, <1>12, <2>1 DEF Ending
<1> QED
  BY <1>1, <1>3, <1>4, <1>10, <1>11, <1>13
  DEF ScsiInv, AtRest, Working, Idle, Stuck, Receiving, Dispatching, Sending, InRom,
      InSector, InShortData, InWriteData, InCsw, Answered

LEMMA WriteDataStep ==
  ASSUME ScsiInv, TakeWriteData, Types'
  PROVE  ScsiInv'
<1>1. /\ scsi_state = "RECEIVE_WRITE_DATA" /\ rx # <<>> /\ rx' = Tail(rx)
      /\ data_sent' = data_sent + 1
      /\ scsi_state' = IF LastByte THEN "SEND_CSW_PREP" ELSE scsi_state
      /\ UNCHANGED <<cbw_count, cbw, rom_offset, csw_status, scsi_lba, sector_byte, csw, ghost>>
      /\ UNCHANGED <<fill, packets, host, cmd, tag, moved>>
  BY DEF TakeWriteData, ReceiveWriteData, in_ep
<1>2. Types /\ Engaged /\ cmd \in Commands /\ cbw = Block /\ transfer_length = cmd.length
  BY <1>1, AtWork
<1>3. /\ cmd.op = OP_WRITE_10 /\ Silent
      /\ data_sent + Len(rx) = moved /\ data_sent < cmd.length
      /\ csw_status = Failed
  BY <1>1 DEF ScsiInv, InWriteData
<1>4. Engaged' /\ Taken' BY <1>1, <1>2 DEF Engaged, Taken, Block
<1>5. rx' \in Seq(Nat) /\ Len(rx') = Len(rx) - 1 /\ Len(rx) \in Nat \ {0}
  BY <1>1, <1>2, TakeHead DEF Types
<1>6. cmd.length \in Nat /\ data_sent \in Nat /\ moved \in Nat BY <1>2 DEF Types, CommandState
<1>7. data_sent' + Len(rx') = moved' BY <1>1, <1>3, <1>5, <1>6
<1>8. ~ghost.busy /\ sector_byte = 0 /\ cbw_count = 0 BY <1>1 DEF ScsiInv, AtRest
<1>9. Moving' BY <1>1 DEF ScsiInv, Moving, Engaged
<1>10. Silent' BY <1>1, <1>3 DEF Silent
<1>11. host # "idle" /\ host # "stuck" /\ host \in {"data_out", "data_in", "status"}
  BY <1>2 DEF Engaged
<1>12. csw_status' = Failed' BY <1>1, <1>3 DEF Failed
<1>13. CASE LastByte
  <2>1. scsi_state' = "SEND_CSW_PREP" /\ data_sent' = cmd.length
    BY <1>1, <1>2, <1>6, <1>13 DEF LastByte
  <2>2. host = "status" /\ moved = cmd.length
    <3>1. moved >= cmd.length BY <1>5, <1>6, <1>1, <1>7, <2>1
    <3> QED BY <1>2, <1>3, <1>6, <1>11, <3>1 DEF ScsiInv, Moving
  <2>3. rx' = <<>>
    <3>1. Len(rx') = 0 BY <1>1, <1>5, <1>6, <1>7, <2>1, <2>2
    <3> QED BY <1>5, <3>1, EmptySeq
  <2>4. csw_status' = (~Known \/ Failed)'
    BY <1>1, <1>3, <1>12, Types' DEF Known, Failed, Types
  <2>5. Ending' BY <1>1, <1>10, <2>1, <2>2, <2>3, <2>4 DEF Ending, Silent
  <2> QED
    BY <1>1, <1>4, <1>8, <1>9, <1>11, <2>1, <2>5
    DEF ScsiInv, AtRest, Working, Idle, Stuck, Receiving, Dispatching, Sending, InRom,
        InSector, InShortData, InWriteData, InCsw, Answered
<1>14. CASE ~LastByte
  <2>1. scsi_state' = "RECEIVE_WRITE_DATA" BY <1>1, <1>14
  <2>2. data_sent' < cmd.length BY <1>1, <1>2, <1>3, <1>6, <1>14 DEF LastByte
  <2>3. InWriteData' BY <1>1, <1>3, <1>7, <1>10, <1>12, <2>1, <2>2 DEF InWriteData
  <2> QED
    BY <1>1, <1>4, <1>8, <1>9, <1>11, <2>1, <2>3
    DEF ScsiInv, AtRest, Working, Idle, Stuck, Receiving, Dispatching, Sending, InRom,
        InSector, InShortData, Ending, InCsw, Answered
<1> QED BY <1>13, <1>14

LEMMA SendCswPrepStep ==
  ASSUME ScsiInv, SendCswPrep(error_in), UNCHANGED hostvars, Types'
  PROVE  ScsiInv'
<1>1. /\ scsi_state = "SEND_CSW_PREP" /\ scsi_state' = "SEND_CSW"
      /\ csw' = <<"csw", cbw_tag, transfer_length - data_sent, csw_status \/ error_in>>
      /\ UNCHANGED <<cbw_count, cbw, data_sent, rom_offset, csw_status, scsi_lba, sector_byte>>
      /\ UNCHANGED <<ghost, rx, fill, packets, host, cmd, tag, moved, error_in>>
  BY DEF SendCswPrep, hostvars, in_ep
<1>2. /\ Engaged /\ cmd \in Commands /\ cbw = Block
      /\ cbw_tag = tag /\ transfer_length = cmd.length
  BY <1>1, AtWork
<1>3. Engaged' /\ Taken' BY <1>1, <1>2 DEF Engaged, Taken, Block
<1>4. Moving' BY <1>1 DEF ScsiInv, Moving, Engaged
<1>5. Ending' BY <1>1 DEF ScsiInv, Ending, Known, Failed
<1>6. InCsw' BY <1>1, <1>2 DEF InCsw
<1> QED
  BY <1>1, <1>2, <1>3, <1>4, <1>5, <1>6
  DEF ScsiInv, AtRest, Working, Idle, Stuck, Receiving, Dispatching, Sending, InRom,
      InSector, InShortData, InWriteData, Answered, Engaged

LEMMA SendCswStep ==
  ASSUME ScsiInv, SendCsw, UNCHANGED hostvars, Types'
  PROVE  ScsiInv'
<1>1. /\ scsi_state = "SEND_CSW" /\ scsi_state' = "RECEIVE_CBW" /\ Tx(csw, TRUE)
      /\ UNCHANGED <<cbw_count, cbw, data_sent, rom_offset, csw_status, scsi_lba, sector_byte>>
      /\ UNCHANGED <<csw, ghost, rx, host, cmd, tag, moved, error_in>>
  BY DEF SendCsw, hostvars, scsi_regs
<1>2. Types /\ Engaged BY <1>1, AtWork
<1>3. packets = <<>> /\ packets' = << Append(fill, csw) >> /\ fill' = <<>>
  BY <1>1, <1>2, TxTypes DEF Types
<1>4. /\ rx = <<>> /\ fill = <<>> /\ csw_status = (~Known \/ Failed)
      /\ host = "status" /\ data_sent = moved
      /\ csw = <<"csw", tag, cmd.length - data_sent, csw_status \/ error_in>>
  BY <1>1, <1>3 DEF ScsiInv, Ending, InCsw
<1>5. Len(packets') = 1 /\ packets'[1] = <<csw>> BY <1>3, <1>4
<1>6. csw = <<"csw", tag, cmd.length - moved, ~Known \/ Failed \/ error_in>>
  <2>1. (csw_status \/ error_in) = (~Known \/ Failed \/ error_in) BY <1>4, Zenon
  <2> QED BY <1>4, <2>1, Zenon
<1>7. cbw_count = 0 /\ ~ghost.busy /\ sector_byte = 0 BY <1>1 DEF ScsiInv, AtRest
<1>8. <<csw>> = << <<"csw", tag, cmd.length - moved, ~Known \/ Failed \/ error_in>> >>'
  BY <1>1, <1>6, Zenon DEF Known, Failed
<1>9. Answered' BY <1>1, <1>3, <1>4, <1>5, <1>7, <1>8 DEF Answered
<1>10. Moving' BY <1>1 DEF ScsiInv, Moving, Engaged
<1>11. packets' # <<>> BY <1>3
<1> QED
  BY <1>1, <1>4, <1>7, <1>9, <1>10, <1>11
  DEF ScsiInv, AtRest, Working, Idle, Stuck, Receiving, Taken, Dispatching, Sending, InRom,
      InSector, InShortData, InWriteData, Ending, InCsw

-----------------------------------------------------------------------------
(* Every step of the host preserves it. *)

LEMMA IssueStep ==
  ASSUME NEW c \in Commands, NEW t \in Tags, ScsiInv, Issue(c, t), Types'
  PROVE  ScsiInv'
<1>1. /\ host = "idle" /\ rx' = Cbw(CBW_SIGNATURE, t, c)
      /\ host' = Direction(c) /\ cmd' = c /\ tag' = t /\ moved' = 0
      /\ UNCHANGED <<scsi_state, cbw_count, cbw, data_sent, rom_offset, csw_status, scsi_lba>>
      /\ UNCHANGED <<sector_byte, csw, ghost, fill, packets, error_in>>
  BY DEF Issue, scsi_regs, in_ep
<1>2. scsi_state = "RECEIVE_CBW" /\ cbw_count = 0 /\ fill = <<>> /\ packets = <<>>
  BY <1>1 DEF ScsiInv, Idle, Silent
<1>3. rx' = Block' BY <1>1 DEF Block
<1>4. Len(rx') = CbwLen
  <2>1. c \in CommandState /\ t \in Nat BY HostAssumption DEF CommandState
  <2> QED BY <1>1, <2>1, BlockFields, Broken
<1>5. host' \in {"data_out", "data_in", "status"} BY <1>1 DEF Direction
<1>6. /\ host' = "data_out" => c.op = OP_WRITE_10 /\ c.length # 0
      /\ host' = "data_in" => c.op # OP_WRITE_10 /\ c.length # 0
      /\ host' = "status" => c.length = 0
  BY <1>1 DEF Direction
<1>7. c.length \in Nat BY HostAssumption
<1>8. Moving' BY <1>1, <1>2, <1>6, <1>7 DEF Moving
<1>9. Unanswered' BY <1>1 DEF Unanswered, Direction
<1>10. Receiving'
  <2>1. cbw_count' + Len(rx') = CbwLen + moved' BY <1>1, <1>2, <1>4
  <2>2. \A k \in 1 .. cbw_count' : cbw'[k] = Block'[k] BY <1>1, <1>2
  <2>3. \A k \in 1 .. CbwLen - cbw_count' : rx'[k] = Block'[cbw_count' + k]
    BY <1>1, <1>2, <1>3 DEF CbwLen
  <2> QED BY <1>1, <1>2, <1>9, <2>1, <2>2, <2>3 DEF Receiving
<1> QED
  BY <1>1, <1>2, <1>5, <1>8, <1>10
  DEF ScsiInv, AtRest, Working, Idle, Stuck, Taken, Dispatching, Sending, InRom,
      InSector, InShortData, InWriteData, Ending, InCsw, Answered

LEMMA IssueBrokenStep ==
  ASSUME NEW k \in 1 .. CbwLen, ScsiInv, IssueBroken(k), Types'
  PROVE  ScsiInv'
<1>1. /\ host = "idle" /\ host' = "stuck"
      /\ UNCHANGED <<scsi_state, cbw_count, cbw, data_sent, rom_offset, csw_status, scsi_lba>>
      /\ UNCHANGED <<sector_byte, csw, ghost, fill, packets, error_in>>
  BY DEF IssueBroken, scsi_regs, in_ep
<1>2. scsi_state = "RECEIVE_CBW" /\ cbw_count = 0 /\ Silent
  BY <1>1 DEF ScsiInv, Idle
<1>3. Len(rx') = k /\ (k = CbwLen => rx'[1] # CBW_SIGNATURE) BY BrokenBlock
<1>4. Stuck'
  <2>1. cbw_count' + Len(rx') <= CbwLen /\ (cbw_count' + Len(rx') = CbwLen => k = CbwLen)
    BY <1>1, <1>2, <1>3 DEF CbwLen
  <2> QED BY <1>1, <1>2, <1>3, <2>1 DEF Stuck, Silent
<1> QED
  BY <1>1, <1>2, <1>4
  DEF ScsiInv, AtRest, Working, Idle, Moving, Receiving, Taken, Dispatching, Sending, InRom,
      InSector, InShortData, InWriteData, Ending, InCsw, Answered, Engaged

LEMMA SendOutStep ==
  ASSUME NEW d \in WriteData, ScsiInv, SendOut(d), Types'
  PROVE  ScsiInv'
<1>1. /\ host = "data_out" /\ rx' = Append(rx, d) /\ moved' = moved + 1
      /\ host' = IF moved + 1 = cmd.length THEN "status" ELSE host
      /\ UNCHANGED <<scsi_state, cbw_count, cbw, data_sent, rom_offset, csw_status, scsi_lba>>
      /\ UNCHANGED <<sector_byte, csw, ghost, fill, packets, cmd, tag, error_in>>
  BY DEF SendOut, scsi_regs, in_ep
<1>2. /\ rx \in Seq(Nat) /\ moved \in Nat /\ cmd.length \in Nat /\ cbw_count \in 0 .. 4
      /\ data_sent \in Nat
  BY DEF ScsiInv, Types, CommandState, CbwLen
<1>3. d \in Nat BY HostAssumption
<1>4. /\ Len(rx') = Len(rx) + 1 /\ Len(rx) \in Nat
      /\ \A k \in 1 .. Len(rx) : rx'[k] = rx[k]
  BY <1>1, <1>2, <1>3, AppendProperties, LenProperties
<1>5. Engaged /\ Engaged' /\ Block' = Block BY <1>1 DEF Engaged, Block
<1>6. /\ cmd \in Commands /\ scsi_state # "HALT" /\ cmd.op = OP_WRITE_10 /\ moved < cmd.length
  BY <1>1, <1>5 DEF ScsiInv, Moving
<1>7. Moving' BY <1>1, <1>2, <1>6 DEF Moving
<1>8. Receiving'
  <2> SUFFICES ASSUME scsi_state = "RECEIVE_CBW", packets = <<>> PROVE Receiving'
    BY <1>1 DEF Receiving
  <2>1. /\ fill = <<>> /\ cbw_count + Len(rx) = 5 + moved
        /\ \A k \in 1 .. cbw_count : cbw[k] = Block[k]
        /\ \A k \in 1 .. 5 - cbw_count : rx[k] = Block[cbw_count + k]
    BY <1>5 DEF ScsiInv, Receiving, CbwLen
  <2>2. cbw_count' + Len(rx') = 5 + moved' BY <1>1, <1>2, <1>4, <2>1
  <2>3. \A k \in 1 .. 5 - cbw_count : k \in 1 .. Len(rx) BY <1>2, <1>4, <2>1
  <2>4. \A k \in 1 .. 5 - cbw_count' : rx'[k] = Block'[cbw_count' + k]
    BY <1>1, <1>4, <1>5, <2>1, <2>3
  <2>5. Unanswered' BY <1>1, <1>6 DEF Unanswered
  <2> QED BY <1>1, <1>5, <2>1, <2>2, <2>4, <2>5 DEF Receiving, CbwLen
<1>9. Taken' BY <1>1, <1>5 DEF ScsiInv, Taken
<1>10. Dispatching' BY <1>1, <1>4, <1>6 DEF ScsiInv, Dispatching, Silent, Unanswered
<1>11. InWriteData' BY <1>1, <1>2, <1>4 DEF ScsiInv, InWriteData, Silent, Failed
<1> QED
  BY <1>1, <1>5, <1>7, <1>8, <1>9, <1>10, <1>11
  DEF ScsiInv, AtRest, Working, Idle, Stuck, Sending, InRom,
      InSector, InShortData, Ending, InCsw, Answered

LEMMA TakeInStep ==
  ASSUME ScsiInv, TakeIn, Types'
  PROVE  ScsiInv'
<1> DEFINE p == Head(packets)
<1>1. /\ host = "data_in" /\ packets # <<>> /\ packets' = Tail(packets)
      /\ moved' = moved + Len(p)
      /\ host' = IF Len(p) < MaxPacket \/ moved' >= cmd.length THEN "status" ELSE host
      /\ UNCHANGED <<scsi_state, cbw_count, cbw, data_sent, rom_offset, csw_status, scsi_lba>>
      /\ UNCHANGED <<sector_byte, csw, ghost, rx, fill, cmd, tag, error_in>>
  BY DEF TakeIn, scsi_regs
<1>2. Types BY DEF ScsiInv
<1>3. /\ packets \in Seq(Seq(Token)) /\ fill \in Seq(Token) /\ Len(fill) \in Nat
      /\ moved \in Nat /\ data_sent \in Nat /\ cmd.length \in Nat
  BY <1>2, LenProperties DEF Types, CommandState
<1>4. Engaged /\ Engaged' /\ Block' = Block BY <1>1 DEF Engaged, Block
<1>5. cmd \in Commands /\ scsi_state # "HALT" /\ cmd.op # OP_WRITE_10
  BY <1>1, <1>4 DEF ScsiInv, Moving
<1>6. scsi_state # "RECEIVE_CBW" BY <1>1, <1>4 DEF ScsiInv, Answered
<1>7. scsi_state \notin {"DISPATCH", "SEND_SHORT_DATA", "RECEIVE_WRITE_DATA"}
  BY <1>1, <1>5 DEF ScsiInv, Dispatching, InShortData, InWriteData, Silent
<1>8. Taken' BY <1>1, <1>4 DEF ScsiInv, Taken
<1>9. ASSUME Len(packets) = 1
      PROVE  packets' = <<>> /\ p = packets[1] /\ p \in Seq(Token) /\ Len(p) \in Nat
  <2>1. p \in Seq(Token) /\ packets' \in Seq(Seq(Token)) /\ Len(packets') = 0
    BY <1>1, <1>3, <1>9, HeadTailProperties
  <2> QED BY <1>3, <1>9, <2>1, EmptySeq, LenProperties
<1> HIDE DEF p
<1>10. CASE scsi_state \in {"SEND_RESPONSE", "SEND_ZEROS_CONT", "SEND_SECTOR"}
  <2>1. /\ rx = <<>> /\ data_sent < cmd.length /\ ~csw_status /\ OnItsWay
    BY <1>10 DEF ScsiInv, Sending
  <2>2. /\ Len(packets) = 1 /\ Len(packets[1]) = MaxPacket
        /\ moved + MaxPacket = data_sent - Len(fill)
    BY <1>1, <2>1 DEF OnItsWay
  <2>3. packets' = <<>> /\ Len(p) = MaxPacket BY <1>9, <2>2
  <2>4. moved' = data_sent - Len(fill) /\ moved' < cmd.length
    BY <1>1, <1>3, <2>1, <2>2, <2>3
  <2>5. MaxPacket \in Nat BY ScsiAssumption
  <2>6. moved' \in Nat BY Types' DEF Types
  <2>7. host' = "data_in" BY <1>1, <1>3, <2>3, <2>4, <2>5, <2>6
  <2>8. OnItsWay' BY <1>1, <2>1, <2>3, <2>4 DEF OnItsWay
  <2>9. Sending' BY <1>1, <2>1, <2>7, <2>8 DEF Sending
  <2>10. Moving' BY <1>1, <1>5, <2>4, <2>7 DEF Moving
  <2>11. InRom' /\ InSector' BY <1>1 DEF ScsiInv, InRom, InSector
  <2> QED
    BY <1>1, <1>4, <1>6, <1>8, <1>10, <2>7, <2>9, <2>10, <2>11
    DEF ScsiInv, AtRest, Working, Idle, Stuck, Receiving, Dispatching,
        InShortData, InWriteData, Ending, InCsw, Answered
<1>11. CASE scsi_state \in {"SEND_CSW_PREP", "SEND_CSW"}
  <2>1. /\ rx = <<>> /\ fill = <<>> /\ csw_status = (~Known \/ Failed)
        /\ Len(packets) = 1 /\ moved + Len(packets[1]) = data_sent
        /\ Len(packets[1]) < MaxPacket \/ data_sent = cmd.length
    BY <1>1, <1>11 DEF ScsiInv, Ending
  <2>2. packets' = <<>> /\ p = packets[1] BY <1>9, <2>1
  <2>3. moved' = data_sent BY <1>1, <2>1, <2>2
  <2>4. host' = "status" BY <1>1, <1>3, <2>1, <2>2, <2>3
  <2>5. csw_status' = (~Known \/ Failed)' BY <1>1, <2>1 DEF Known, Failed
  <2>6. Ending' BY <1>1, <2>1, <2>2, <2>3, <2>4, <2>5 DEF Ending
  <2>7. InCsw' BY <1>1 DEF ScsiInv, InCsw
  <2>8. Moving' BY <1>1, <1>5, <2>4 DEF Moving
  <2> QED
    BY <1>1, <1>4, <1>6, <1>8, <1>11, <2>4, <2>6, <2>7, <2>8
    DEF ScsiInv, AtRest, Working, Idle, Stuck, Receiving, Dispatching, Sending, InRom,
        InSector, InShortData, InWriteData, Answered
<1> QED BY <1>2, <1>5, <1>6, <1>7, <1>10, <1>11 DEF Types

LEMMA TakeStatusStep ==
  ASSUME ScsiInv, TakeStatus, Types'
  PROVE  ScsiInv'
<1>1. /\ host = "status" /\ packets # <<>> /\ packets' = Tail(packets) /\ host' = "idle"
      /\ UNCHANGED <<scsi_state, cbw_count, cbw, data_sent, rom_offset, csw_status, scsi_lba>>
      /\ UNCHANGED <<sector_byte, csw, ghost, rx, fill, cmd, tag, moved, error_in>>
  BY DEF TakeStatus, scsi_regs
<1>2. Engaged /\ Types /\ packets \in Seq(Seq(Token)) BY <1>1 DEF Engaged, ScsiInv, Types
<1>3. scsi_state = "RECEIVE_CBW"
  BY <1>1, <1>2
  DEF ScsiInv, Types, Moving, Dispatching, Sending, InShortData, InWriteData, Ending, Silent
<1>4. rx = <<>> /\ fill = <<>> /\ cbw_count = 0 /\ Len(packets) = 1
  BY <1>1, <1>2, <1>3 DEF ScsiInv, Answered
<1>5. packets' = <<>> BY <1>1, <1>2, <1>4, HeadTailProperties, EmptySeq
<1> QED
  BY <1>1, <1>3, <1>4, <1>5
  DEF ScsiInv, AtRest, Working, Idle, Stuck, Moving, Receiving, Taken, Dispatching, Sending,
      InRom, InSector, InShortData, InWriteData, Ending, InCsw, Answered, Engaged, Silent

LEMMA ResetStep ==
  ASSUME ScsiInv, BusReset \/ MassStorageReset, Types'
  PROVE  ScsiInv'
<1>1. ResetScsi /\ host' = "idle" BY DEF BusReset, MassStorageReset
<1>2. /\ scsi_state' = "RECEIVE_CBW" /\ cbw_count' = 0 /\ sector_byte' = 0
      /\ ghost' = [busy |-> FALSE, lba |-> 0, byte |-> 0]
  BY <1>1 DEF ResetScsi
<1>3. rx' = <<>> /\ fill' = <<>> /\ packets' = <<>>
  <2>1. CASE BusReset BY <2>1 DEF BusReset
  <2>2. CASE MassStorageReset
    BY <2>2 DEF MassStorageReset, in_ep, ScsiInv, Stuck, Silent
  <2> QED BY <2>1, <2>2
<1> QED
  BY <1>1, <1>2, <1>3
  DEF ScsiInv, AtRest, Working, Idle, Stuck, Moving, Receiving, Taken, Dispatching, Sending,
      InRom, InSector, InShortData, InWriteData, Ending, InCsw, Answered, Engaged, Silent

-----------------------------------------------------------------------------

LEMMA Initial == Init => ScsiInv
<1> SUFFICES ASSUME Init PROVE ScsiInv OBVIOUS
<1>1. Types
  <2>1. ghost \in GhostState BY DEF Init, ScsiInit, GhostState
  <2>2. cbw \in [1 .. CbwLen -> Nat] /\ cbw_count \in 0 .. CbwLen - 1
    BY DEF Init, ScsiInit, CbwLen
  <2>3. rx \in Seq(Nat) /\ fill \in Seq(Token) /\ packets \in Seq(Seq(Token))
    BY DEF Init, ScsiInit
  <2> QED BY <2>1, <2>2, <2>3, TokenTypes, Broken DEF Init, ScsiInit, Types
<1> QED
  BY <1>1
  DEF Init, ScsiInit, ScsiInv, AtRest, Working, Idle, Stuck, Moving, Receiving, Taken,
      Dispatching, Sending, InRom, InSector, InShortData, InWriteData, Ending, InCsw, Answered,
      Engaged, Silent

LEMMA Stuttering == ScsiInv /\ UNCHANGED vars => ScsiInv'
BY DEF vars, scsi, scsi_regs, in_ep, hostvars, ScsiInv, Types, AtRest, Working, Idle, Stuck, Moving,
       Receiving, Taken, Dispatching, Sending, OnItsWay, InRom, InSector, InShortData,
       InWriteData, Ending, InCsw, Answered, Engaged, Silent, Unanswered, Block, Known, Failed

LEMMA Step == ASSUME AnswersFit, ScsiInv, [Next]_vars PROVE ScsiInv'
<1>1. Types BY DEF ScsiInv
<1>2. CASE Device
  <2>1. Types' BY <1>1, <1>2, DeviceTypes
  <2> QED
    BY <1>2, <2>1, ReceiveCbwStep, DispatchStep, SendResponseStep, SendZerosStep, SendSectorStep,
       SendShortDataStep, WriteDataStep, SendCswPrepStep, SendCswStep
    DEF Device, ScsiAlone
<1>3. CASE HostStep
  <2>1. Types' BY <1>1, <1>3, HostTypes
  <2> QED BY <1>3, <2>1, SendOutStep, TakeInStep, TakeStatusStep, ResetStep DEF HostStep
<1>4. CASE Start
  <2>1. Types' BY <1>1, <1>4, HostTypes
  <2> QED BY <1>4, <2>1, IssueStep, IssueBrokenStep DEF Start
<1>5. CASE BusReset
  <2>1. Types' BY <1>1, <1>5, HostTypes
  <2> QED BY <1>5, <2>1, ResetStep
<1> QED BY <1>2, <1>3, <1>4, <1>5, Stuttering DEF Next

\* At every moment what the host has of the answer and what is still to come of
\* it are those of its command.
THEOREM AnswersFollow == ASSUME AnswersFit PROVE Spec => []ScsiInv
<1>1. ScsiInv /\ [Next]_vars => ScsiInv' BY Step
<1> QED BY <1>1, Initial, PTL DEF Spec

\* The data the host reads are those its command asks for, whatever was
\* aborted before (`DataAnswersCommand`).
THEOREM DataAnswered == ASSUME AnswersFit PROVE Spec => []DataAnswersCommand
<1>1. ScsiInv => DataAnswersCommand
  <2> SUFFICES ASSUME ScsiInv, host = "data_in", packets # <<>>,
                      NEW k \in 1 .. Len(Head(packets))
               PROVE  Head(packets)[k] = DataByte(moved + k - 1)
    BY DEF DataAnswersCommand
  <2>1. Types /\ moved \in Nat /\ packets \in Seq(Seq(Token)) BY DEF ScsiInv, Types
  <2>2. Engaged BY DEF Engaged
  <2>3. Len(packets) = 1 /\ Carries(cmd, packets[1], moved)
    BY <2>1, <2>2
    DEF ScsiInv, Types, Moving, Answered, Dispatching, Sending, OnItsWay, InShortData,
        InWriteData, Ending, Silent
  <2>4. Head(packets) = packets[1] BY <2>1, <2>3
  <2>5. k \in Nat /\ moved + k - 1 \in Nat BY <2>1, <2>3, <2>4
  <2> QED BY <2>3, <2>4, <2>5, DataByteIs DEF Carries
<1> QED BY <1>1, AnswersFollow, PTL

\* The status the host reads is the one of its own command, and accounts for
\* the bytes that were moved (`StatusAnswersCommand`).
THEOREM StatusAnswered == ASSUME AnswersFit PROVE Spec => []StatusAnswersCommand
<1>1. ScsiInv => StatusAnswersCommand
  <2> SUFFICES ASSUME ScsiInv, host = "status", packets # <<>>
               PROVE  Head(packets) =
                        << <<"csw", tag, cmd.length - moved, ~Known \/ Failed \/ error_in>> >>
    BY DEF StatusAnswersCommand
  <2>1. Engaged /\ packets \in Seq(Seq(Token)) BY DEF Engaged, ScsiInv, Types
  <2>2. scsi_state = "RECEIVE_CBW"
    BY <2>1
    DEF ScsiInv, Types, Moving, Dispatching, Sending, InShortData, InWriteData, Ending, Silent
  <2>3. /\ Len(packets) = 1
        /\ packets[1] = << <<"csw", tag, cmd.length - moved, ~Known \/ Failed \/ error_in>> >>
    BY <2>1, <2>2 DEF ScsiInv, Answered
  <2> QED BY <2>1, <2>3
<1> QED BY <1>1, AnswersFollow, PTL

=============================================================================
