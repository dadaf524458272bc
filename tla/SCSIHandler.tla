---------------------------- MODULE SCSIHandler -----------------------------
(***************************************************************************)
(* gateware/blocks/storage/scsi.py with its GhostFAT: the device side of   *)
(* the Mass Storage Bulk-Only Transport. A 31-byte command block comes in, *)
(* a data phase runs in one direction, a 13-byte status goes back.         *)
(*                                                                         *)
(* The handler acts on the fields of a command block once each is whole,   *)
(* so a field is a token: signature, tag, transfer length, opcode, LBA.    *)
(* A data byte is a token that names its contents; the status is one       *)
(* token. The endpoints are LUNA's: `rx` is what the OUT endpoint holds,   *)
(* `fill` the packet the IN endpoint is collecting, `packets` what it has  *)
(* ready for the host.                                                     *)
(***************************************************************************)
EXTENDS Integers, Sequences

CONSTANTS
  RomOps,         \* opcodes answered from the ROM
  RomLength,      \* [RomOps -> bytes of the answer]
  BlockCount,     \* blocks of the medium
  SectorSize,
  MaxPacket       \* wMaxPacketSize of the IN endpoint

CBW_SIGNATURE == 90
OP_TEST_UNIT_READY == 80
OP_READ_10 == 81
OP_WRITE_10 == 82
CbwLen == 5

ASSUME ScsiAssumption ==
  /\ RomOps \subseteq Nat /\ RomOps \cap {OP_TEST_UNIT_READY, OP_READ_10, OP_WRITE_10} = {}
  /\ RomLength \in [RomOps -> Nat \ {0}]
  /\ BlockCount \in Nat /\ SectorSize \in Nat \ {0} /\ MaxPacket \in Nat \ {0}

VARIABLES
  scsi_state,
  cbw_count, cbw,            \* the five latched fields
  data_sent, rom_offset, csw_status, scsi_lba, sector_byte,
  csw,                       \* the status being sent
  ghost,                     \* GhostFAT: the sector it is in and the byte it is at
  rx, fill, packets

scsi_regs == <<cbw_count, cbw, data_sent, rom_offset, csw_status, scsi_lba, sector_byte, csw>>
in_ep     == <<fill, packets>>
scsi      == <<scsi_state, scsi_regs, ghost, rx, in_ep>>

signature       == cbw[1]
cbw_tag         == cbw[2]
transfer_length == cbw[3]
opcode          == cbw[4]

NoCsw == <<"csw", 0, 0, FALSE>>

ScsiInit ==
  /\ scsi_state = "RECEIVE_CBW"
  /\ cbw_count = 0 /\ cbw = [k \in 1 .. CbwLen |-> 0]
  /\ data_sent = 0 /\ rom_offset = 0 /\ csw_status = FALSE
  /\ scsi_lba = 0 /\ sector_byte = 0
  /\ csw = NoCsw
  /\ ghost = [busy |-> FALSE, lba |-> 0, byte |-> 0]
  /\ rx = <<>> /\ fill = <<>> /\ packets = <<>>

(* The IN endpoint: a packet is ready when it is full or its last byte is in;
   two buffers, one filling and one going out. *)
TxReady == packets = <<>>

Tx(t, last) ==
  /\ TxReady
  /\ IF last \/ Len(fill) + 1 = MaxPacket
       THEN packets' = Append(packets, Append(fill, t)) /\ fill' = <<>>
       ELSE fill' = Append(fill, t) /\ UNCHANGED packets

LastByte == data_sent = transfer_length - 1

-----------------------------------------------------------------------------

ReceiveCbw ==
  /\ scsi_state = "RECEIVE_CBW" /\ rx # <<>>
  /\ rx' = Tail(rx)
  /\ cbw' = [cbw EXCEPT ![cbw_count + 1] = Head(rx)]
  /\ scsi_lba' = IF cbw_count = CbwLen - 1 THEN Head(rx) ELSE scsi_lba
  /\ IF cbw_count = CbwLen - 1
       THEN /\ cbw_count' = 0
            /\ scsi_state' = IF signature = CBW_SIGNATURE THEN "DISPATCH" ELSE "HALT"
       ELSE cbw_count' = cbw_count + 1 /\ UNCHANGED scsi_state
  /\ UNCHANGED <<data_sent, rom_offset, csw_status, sector_byte, csw, ghost, in_ep>>

\* GhostFAT looks at `start` in its idle state only.
StartGhost(lba) ==
  ghost' = IF ghost.busy THEN ghost ELSE [busy |-> TRUE, lba |-> lba, byte |-> 0]

\* clear_decoder is high in this state: the composition clears the decoder.
Dispatch ==
  /\ scsi_state = "DISPATCH"
  /\ data_sent' = 0
  /\ rom_offset' = IF opcode \in RomOps THEN 0 ELSE rom_offset
  /\ csw_status' = CASE opcode \in {OP_READ_10, OP_WRITE_10} -> scsi_lba >= BlockCount
                     [] OTHER -> opcode \notin RomOps \cup {OP_TEST_UNIT_READY}
  /\ scsi_state' = CASE opcode \in RomOps -> "SEND_RESPONSE"
                     [] opcode = OP_READ_10 /\ scsi_lba >= BlockCount -> "SEND_SHORT_DATA"
                     [] opcode = OP_READ_10 /\ scsi_lba < BlockCount -> "SEND_SECTOR"
                     [] opcode = OP_WRITE_10 -> "RECEIVE_WRITE_DATA"
                     [] OTHER -> "SEND_CSW_PREP"
  /\ IF opcode = OP_READ_10 /\ scsi_lba < BlockCount
       THEN StartGhost(scsi_lba)
       ELSE UNCHANGED ghost
  /\ UNCHANGED <<cbw_count, cbw, scsi_lba, sector_byte, csw, rx, in_ep>>

SendResponse ==
  /\ scsi_state = "SEND_RESPONSE"
  /\ Tx(<<"rom", opcode, rom_offset>>, LastByte)
  /\ data_sent' = data_sent + 1
  /\ rom_offset' = rom_offset + 1
  /\ scsi_state' = IF LastByte THEN "SEND_CSW_PREP"
                   ELSE IF rom_offset = RomLength[opcode] - 1 THEN "SEND_ZEROS_CONT"
                   ELSE scsi_state
  /\ UNCHANGED <<cbw_count, cbw, csw_status, scsi_lba, sector_byte, csw, ghost, rx>>

\* `last` is commented out here.
SendZerosCont ==
  /\ scsi_state = "SEND_ZEROS_CONT"
  /\ Tx(<<"zero", 0, 0>>, FALSE)
  /\ data_sent' = data_sent + 1
  /\ scsi_state' = IF LastByte THEN "SEND_CSW_PREP" ELSE scsi_state
  /\ UNCHANGED <<cbw_count, cbw, rom_offset, csw_status, scsi_lba, sector_byte, csw, ghost, rx>>

\* Bug: the sectors of one read all come from its first address.
SendSectorSame ==
  /\ scsi_state = "SEND_SECTOR" /\ ghost.busy
  /\ Tx(<<"sector", ghost.lba, ghost.byte>>, FALSE)
  /\ data_sent' = data_sent + 1
  /\ sector_byte' = IF LastByte THEN 0 ELSE (sector_byte + 1) % SectorSize
  /\ ghost' = IF ghost.byte # SectorSize - 1 THEN [ghost EXCEPT !.byte = @ + 1]
              ELSE IF ~LastByte THEN [busy |-> TRUE, lba |-> scsi_lba, byte |-> 0]
              ELSE [ghost EXCEPT !.busy = FALSE]
  /\ scsi_state' = IF LastByte THEN "SEND_CSW_PREP" ELSE scsi_state
  /\ UNCHANGED <<cbw_count, cbw, rom_offset, csw_status, scsi_lba, csw, rx>>

\* `last` is commented out here as well. GhostFAT ends its sector with its own
\* count; at the end of a sector, not of the transfer, it is started on the next.
SendSector ==
  /\ scsi_state = "SEND_SECTOR" /\ ghost.busy
  /\ Tx(<<"sector", ghost.lba, ghost.byte>>, FALSE)
  /\ data_sent' = data_sent + 1
  /\ LET sectorEnd == ~LastByte /\ sector_byte = SectorSize - 1
         ghostEnd  == ghost.byte = SectorSize - 1
     IN /\ sector_byte' = IF LastByte \/ sectorEnd THEN 0 ELSE sector_byte + 1
        /\ scsi_lba' = IF sectorEnd THEN scsi_lba + 1 ELSE scsi_lba
        /\ ghost' = IF ~ghostEnd THEN [ghost EXCEPT !.byte = @ + 1]
                    ELSE IF sectorEnd THEN [busy |-> TRUE, lba |-> scsi_lba + 1, byte |-> 0]
                    ELSE [ghost EXCEPT !.busy = FALSE]
  /\ scsi_state' = IF LastByte THEN "SEND_CSW_PREP" ELSE scsi_state
  /\ UNCHANGED <<cbw_count, cbw, rom_offset, csw_status, csw, rx>>

SendShortData ==
  /\ scsi_state = "SEND_SHORT_DATA"
  /\ Tx(<<"zero", 0, 0>>, TRUE)
  /\ data_sent' = 1
  /\ scsi_state' = "SEND_CSW_PREP"
  /\ UNCHANGED <<cbw_count, cbw, rom_offset, csw_status, scsi_lba, sector_byte, csw, ghost, rx>>

\* One byte of write data, dropped when the command has already failed; the
\* composition hands it to the decoder when it is Forwarded.
Forwarded == scsi_state = "RECEIVE_WRITE_DATA" /\ rx # <<>> /\ ~csw_status

ReceiveWriteData ==
  /\ scsi_state = "RECEIVE_WRITE_DATA" /\ rx # <<>>
  /\ rx' = Tail(rx)
  /\ data_sent' = data_sent + 1
  /\ scsi_state' = IF LastByte THEN "SEND_CSW_PREP" ELSE scsi_state
  /\ UNCHANGED <<cbw_count, cbw, rom_offset, csw_status, scsi_lba, sector_byte, csw, ghost, in_ep>>

\* Bug: the decoder's error is not looked at.
SendCswPrepIgnores(error_in) ==
  /\ scsi_state = "SEND_CSW_PREP"
  /\ csw' = <<"csw", cbw_tag, transfer_length - data_sent, csw_status>>
  /\ scsi_state' = "SEND_CSW"
  /\ UNCHANGED <<cbw_count, cbw, data_sent, rom_offset, csw_status, scsi_lba, sector_byte,
                 ghost, rx, in_ep>>

SendCswPrep(error_in) ==
  /\ scsi_state = "SEND_CSW_PREP"
  /\ csw' = <<"csw", cbw_tag, transfer_length - data_sent, csw_status \/ error_in>>
  /\ scsi_state' = "SEND_CSW"
  /\ UNCHANGED <<cbw_count, cbw, data_sent, rom_offset, csw_status, scsi_lba, sector_byte,
                 ghost, rx, in_ep>>

SendCsw ==
  /\ scsi_state = "SEND_CSW"
  /\ Tx(csw, TRUE)
  /\ scsi_state' = "RECEIVE_CBW"
  /\ UNCHANGED <<scsi_regs, ghost, rx>>

\* Bug: the command block count survives.
ResetScsiKeepsCount ==
  /\ scsi_state' = "RECEIVE_CBW"
  /\ cbw' = [k \in 1 .. CbwLen |-> 0]
  /\ data_sent' = 0 /\ rom_offset' = 0 /\ csw_status' = FALSE
  /\ scsi_lba' = 0 /\ sector_byte' = 0
  /\ csw' = NoCsw
  /\ ghost' = [busy |-> FALSE, lba |-> 0, byte |-> 0]
  /\ UNCHANGED cbw_count

\* The ResetInserter: Mass Storage reset or bus reset.
ResetScsi ==
  /\ scsi_state' = "RECEIVE_CBW"
  /\ cbw_count' = 0 /\ cbw' = [k \in 1 .. CbwLen |-> 0]
  /\ data_sent' = 0 /\ rom_offset' = 0 /\ csw_status' = FALSE
  /\ scsi_lba' = 0 /\ sector_byte' = 0
  /\ csw' = NoCsw
  /\ ghost' = [busy |-> FALSE, lba |-> 0, byte |-> 0]

\* The steps that involve neither the decoder nor its error.
ScsiAlone ==
  \/ ReceiveCbw
  \/ SendResponse \/ SendZerosCont \/ SendSector \/ SendShortData
  \/ SendCsw

=============================================================================
