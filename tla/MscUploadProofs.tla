---------------------------- MODULE MscUploadProofs ----------------------------
(***************************************************************************)
(* Theorems about MscUpload, whatever the packet size, the host's pace,    *)
(* the commands that are not part of the file and the pace of the flash:   *)
(* while no bus reset comes in, the decoder is in step with the file, and  *)
(* the device that reboots has the file's image in its flash; with bus     *)
(* resets anywhere, the flash below the slot is left alone.                *)
(***************************************************************************)
EXTENDS MscUpload, SequenceTheorems, TLAPS

-----------------------------------------------------------------------------
(* The files the theorems are about. *)

IsBlock(s) == s[1] = MAGIC_START0 /\ s[2] = MAGIC_START1 /\ ~NotMainFlash(s[3])

\* Where a block's payload goes: its first address, and the one after its last.
FirstOf(s) == s[4] + base_addr
EndOf(s)   == s[4] + base_addr + s[5]

\* A block for main flash that leaves a byte of padding and ends in the flash.
PlainBlock(s) ==
  /\ IsBlock(s) /\ s[5] \in 1 .. Room - 1
  /\ EndOf(s) <= AddrSpace
  /\ \A n \in 1 .. s[5] : s[HeaderLen + n] \in Byte

(* The blocks are in the order of their addresses. A gap between two of them
   ends in another page than it starts in: only the first byte of a page's run
   carries its address to the device. The block numbered last is the last one. *)
InOrder(f) ==
  /\ \A j, k \in 1 .. Len(f) : j < k => EndOf(f[j]) <= FirstOf(f[k])
  /\ \A k \in 1 .. Len(f) - 1 :
       /\ EndOf(f[k]) = FirstOf(f[k + 1])
            \/ (EndOf(f[k]) - 1) \div PageSize # FirstOf(f[k + 1]) \div PageSize
       /\ f[k][6] # f[k][7] - 1

\* The last byte of the image is not alone in its page: see the run msc_lost_flush.
LongTail(s) == s[5] > 1 /\ (EndOf(s) - 1) % PageSize # 0

PlainFile(f) ==
  /\ f # <<>>
  /\ \A k \in 1 .. Len(f) : PlainBlock(f[k])
  /\ InOrder(f)
  /\ LongTail(f[Len(f)])

PlainUploads ==
  /\ BlockCount > 0
  /\ \A f \in Files : PlainFile(f)
  /\ \A s \in Strays : s \in [1 .. SectorLen -> Nat] /\ ~IsBlock(s)

-----------------------------------------------------------------------------
(* The properties speak of the array and of the reboot. The invariant follows
   the file on its way there. First the transport: a command block, then the
   tokens that are left of its data, in the endpoint and at the host. *)

Preparing  == scsi_state = "DISPATCH" \/ (scsi_state = "RECEIVE_CBW" /\ rx # <<>>)
Forwarding == scsi_state = "RECEIVE_WRITE_DATA" /\ ~csw_status

CbwLeft  == IF scsi_state = "RECEIVE_CBW" /\ rx # <<>> THEN CbwLen - cbw_count ELSE 0
CbwField(k) ==
  IF scsi_state = "RECEIVE_CBW" /\ k > cbw_count THEN rx[k - cbw_count] ELSE cbw[k]

Left      == Len(rx) + Len(data) - CbwLeft
Token(j)  == IF j <= Len(rx) THEN rx[j] ELSE data[j - Len(rx)]
Coming(j) == Token(CbwLeft + j)

TransportTypes ==
  /\ rx \in Seq(Nat) /\ data \in Seq(Nat)
  /\ cbw \in [1 .. CbwLen -> Nat] /\ cbw_count \in 0 .. CbwLen - 1
  /\ data_sent \in Nat /\ csw_status \in BOOLEAN
  /\ host \in {"idle", "data_out", "status", "failed"}
  /\ scsi_state \in {"RECEIVE_CBW", "DISPATCH", "RECEIVE_WRITE_DATA", "SEND_CSW_PREP", "SEND_CSW"}

\* The host's stage of a command against the handler's.
StagesMatch ==
  /\ (data # <<>>) <=> (host = "data_out")
  /\ host \in {"idle", "failed"} => scsi_state = "RECEIVE_CBW" /\ rx = <<>>
  /\ scsi_state = "RECEIVE_CBW" /\ rx = <<>> => data = <<>>
  /\ (scsi_state # "RECEIVE_CBW" \/ rx = <<>>) => cbw_count = 0
  /\ CbwLeft <= Len(rx)
  /\ packets # <<>> =>
       scsi_state = "RECEIVE_CBW" /\ rx = <<>> /\ host = "status" /\ packets = <<packets[1]>>

\* What the command block says, and how far the data phase is.
CommandCarried ==
  /\ Preparing =>
       /\ CbwField(1) = CBW_SIGNATURE /\ CbwField(3) = Left
       /\ CbwField(4) = IF Left > 0 THEN OP_WRITE_10 ELSE OP_TEST_UNIT_READY
       /\ (chunk # 0 /\ Left > 0) => CbwField(5) = 0
  /\ scsi_state = "DISPATCH" => scsi_lba = cbw[5]
  /\ scsi_state = "RECEIVE_WRITE_DATA" =>
       /\ Left > 0 /\ transfer_length = data_sent + Left
       /\ chunk # 0 => ~csw_status
  /\ scsi_state \in {"SEND_CSW_PREP", "SEND_CSW"} => Left = 0

TransportInv == TransportTypes /\ StagesMatch /\ CommandCarried

-----------------------------------------------------------------------------
(* The file as one stream of tokens: how many of them have been decoded, and
   that the ones to come are the next ones. *)

FileToken(p) == file[1 + (p - 1) \div SectorLen][1 + ((p - 1) % SectorLen)]

EndSector == IF host = "data_out" THEN written + chunk ELSE written
Pos       == EndSector * SectorLen - (IF chunk = 0 THEN 0 ELSE Left)
Whole     == Pos \div SectorLen
Cur       == file[Whole + 1]

StreamTypes ==
  /\ file \in Files /\ written \in Nat /\ chunk \in Nat /\ EndSector <= Len(file)
  /\ Pos \in Nat /\ byte_count \in 0 .. LastToken

\* What of the sector s the decoder has read at byte_count, state by state.
HeaderRead(s) ==
  /\ byte_count > 0 => s[1] = MAGIC_START0
  /\ byte_count > 1 => s[2] = MAGIC_START1
  /\ byte_count > 2 => flags = s[3]
  /\ byte_count > 3 => target_addr = Target(s[4])
  /\ byte_count > 4 => payload_size = s[5]
  /\ byte_count > 5 => blockNo = s[6]
  /\ byte_count > 6 => numBlocks = s[7]

BlockRead(s) == IsBlock(s) /\ payload_size = s[5] /\ blockNo = s[6] /\ numBlocks = s[7]

Decoded(s) ==
  \/ uf2_state = "HEADER" /\ byte_count < HeaderLen /\ HeaderRead(s)
  \/ /\ uf2_state = "DATA" /\ BlockRead(s)
     /\ data_count \in 0 .. payload_size /\ byte_count = HeaderLen + data_count
     /\ data_count < payload_size => target_addr = FirstOf(s) + data_count
  \/ uf2_state = "PAD" /\ BlockRead(s) /\ byte_count \in HeaderLen + 1 .. LastPad
  \/ uf2_state = "FINAL" /\ BlockRead(s) /\ byte_count = LastToken
  \/ uf2_state = "DISCARD" /\ ~IsBlock(s) /\ byte_count > 0

FileRead ==
  chunk # 0 =>
    /\ byte_count = Pos % SectorLen
    /\ byte_count > 0 => Decoded(Cur)
    /\ \A j \in 1 .. Left : Coming(j) = FileToken(Pos + j)

StrayRead ==
  chunk = 0 =>
    /\ ~Forwarding => byte_count = 0
    /\ (Preparing /\ Left > 0) \/ Forwarding =>
         /\ Left + byte_count = SectorLen
         /\ \E s \in Strays :
              Decoded(s) /\ \A j \in 1 .. Left : Coming(j) = s[byte_count + j]

StreamInv ==
  /\ StreamTypes /\ FileRead /\ StrayRead
  /\ byte_count = 0 => uf2_state = "HEADER"

-----------------------------------------------------------------------------
(* What is in the flash. The decoder is a writer that keeps FlashUpload's
   contract, so what FlashStoreProofs says of the array holds of the file. The
   writer's view of it: which bytes have been on the port, where they belong,
   and a flush that stays once the last block has asked for it. *)

NoByte    == CHOOSE n : n \notin Byte
Bytes(a)  == Byte

\* How many bytes of the sector at hand have been on the port, and the address
\* after the last byte that has.
Shown ==
  CASE uf2_state = "DATA" -> data_count + (IF PortW.valid THEN 1 ELSE 0)
    [] uf2_state \in {"PAD", "FINAL"} -> payload_size
    [] OTHER -> 0

FrontAt(k, n) ==
  IF n > 0 THEN FirstOf(file[k]) + n ELSE IF k > 1 THEN EndOf(file[k - 1]) ELSE 0
Front == FrontAt(Whole + 1, Shown)

Covers(k, n) == n \in FirstOf(file[k]) .. EndOf(file[k]) - 1
Covered(n)   == \E k \in 1 .. Len(file) : Covers(k, n)
ByteAt(n) ==
  LET k == CHOOSE k \in 1 .. Len(file) : Covers(k, n)
  IN file[k][HeaderLen + 1 + n - FirstOf(file[k])]

Number(a) == (a.blk * Pages + a.pg) * PageSize + a.off

UpW ==
  [valid |-> PortW.valid,
   addr  |-> IF Front = 0 THEN FlashAddr(0) ELSE FlashAddr(Front - 1),
   data  |-> IF Front = 0 THEN Flash!Erased ELSE ByteAt(Front - 1)]
UpFlush == done \/ pending
UpSent  == {a \in Flash!Addr : Covered(Number(a)) /\ Number(a) < Front}
UpImage == [a \in Flash!Addr |-> IF a \in UpSent THEN ByteAt(Number(a)) ELSE Flash!Erased]

Upload == INSTANCE FlashStoreProofs
            WITH w <- UpW, flush <- UpFlush, image <- UpImage, sent <- UpSent,
                 Payload <- Bytes, session <- extra, MaxBytes <- 0,
                 MaxSessions <- MaxExtra, None <- NoByte

\* The FSM has the place of the last byte it took.
LastLatched == ~PortW.valid /\ Front > 0 => addr_latch = FlashAddr(Front - 1)

\* The flush is asked for by the end of the file and by nothing else.
FlushMeant ==
  /\ done \in BOOLEAN /\ pending \in BOOLEAN
  /\ done => scsi_state # "RECEIVE_WRITE_DATA"
  /\ done \/ pending =>
       /\ Whole = Len(file) /\ written = Len(file)
       /\ file[Len(file)][SectorLen] = MAGIC_END

\* The last byte opens no page, so that the FSM can be caught between the last
\* byte and the flush in no state but WRITE_NEXT; and a command that clears
\* `done` leaves the flush to be done nowhere.
FlushSeen ==
  /\ ~PortW.valid /\ Front = EndOf(file[Len(file)]) /\ Upload!LatchLive => state = "WRITE_DATA"
  /\ pending /\ ~done => ~Upload!LatchLive /\ state # "WRITE_NEXT"

StoredInv ==
  /\ Upload!ProtocolInv /\ Upload!StoreInv
  /\ LastLatched /\ FlushMeant /\ FlushSeen /\ FlashedAtBoot /\ BootsAfterUpload

Inv == TransportInv /\ StreamInv /\ StoredInv

-----------------------------------------------------------------------------
(* The instance of FlashStoreProofs, and the numbers of its addresses. *)

\* What FlashStoreProofs assumes holds of this writer.
LEMMA Given ==
  /\ NoByte \notin Byte /\ \A a \in Upload!Addr : Bytes(a) \subseteq Byte
  /\ Blocks \in Nat \ {0} /\ Pages \in Nat \ {0} /\ PageSize \in Nat \ {0}
  /\ Byte \subseteq Nat
  /\ {Upload!Erased, Upload!WRITE_ENABLE, Upload!READ_STATUS, Upload!PAGE_PROGRAM,
      Upload!BLOCK_ERASE} \subseteq Byte
  /\ 0 .. Blocks - 1 \subseteq Byte /\ 0 .. Pages - 1 \subseteq Byte /\ 0 .. PageSize - 1 \subseteq Byte
  /\ \A x, y \in Byte : /\ BitAnd(x, y) \in Byte
                        /\ BitAnd(Upload!Erased, x) = x /\ BitAnd(x, Upload!Erased) = x
  /\ Contents \subseteq [Upload!Addr -> Byte]
  /\ MaxExtra \in Nat /\ MaxResets \in Nat /\ 0 \in Nat
<1>1. NoByte \notin Byte
  <2>1. \E n : n \notin Byte BY NoSetContainsEverything
  <2> QED BY <2>1 DEF NoByte
<1>2. \A a \in Upload!Addr : Bytes(a) \subseteq Byte BY FlashAssumption DEF Bytes
<1>3. Contents \subseteq [Upload!Addr -> Byte]
  BY FlashAssumption DEF Flash!Addr, Upload!Addr
<1>4. Blocks \in Nat \ {0} /\ Pages \in Nat \ {0} /\ PageSize \in Nat \ {0}
  BY FlashAssumption DEF Flash!GeometryAssumption
<1> USE DEF Flash!Erased, Flash!WRITE_ENABLE, Flash!READ_STATUS, Flash!PAGE_PROGRAM,
            Flash!BLOCK_ERASE, Upload!Erased, Upload!WRITE_ENABLE, Upload!READ_STATUS,
            Upload!PAGE_PROGRAM, Upload!BLOCK_ERASE
<1>5. /\ Byte \subseteq Nat
      /\ {Upload!Erased, Upload!WRITE_ENABLE, Upload!READ_STATUS, Upload!PAGE_PROGRAM,
          Upload!BLOCK_ERASE} \subseteq Byte
      /\ 0 .. Blocks - 1 \subseteq Byte /\ 0 .. Pages - 1 \subseteq Byte
      /\ 0 .. PageSize - 1 \subseteq Byte
  BY FlashAssumption DEF Flash!ByteAssumption
<1>6. \A x, y \in Byte : /\ BitAnd(x, y) \in Byte
                         /\ BitAnd(Upload!Erased, x) = x /\ BitAnd(x, Upload!Erased) = x
  BY FlashAssumption DEF Flash!AndAssumption
<1> QED BY <1>1, <1>2, <1>3, <1>4, <1>5, <1>6, UploadAssumption

LEMMA UploadStores ==
  ASSUME Upload!ProtocolInv, Upload!StoreInv, [Upload!Next]_(Upload!core)
  PROVE  Upload!ProtocolInv' /\ Upload!StoreInv'
<1>1. Upload!StoreInv /\ Upload!ProtocolInv /\ [Upload!Next]_(Upload!core) => Upload!StoreInv'
  BY Given, Upload!StoreStep
<1>2. Upload!ProtocolInv /\ [Upload!Next]_(Upload!core) => Upload!ProtocolInv'
  BY Given, Upload!ProtocolStep
<1> QED BY <1>1, <1>2

LEMMA UploadFlushes ==
  ASSUME Upload!ProtocolInv, Upload!StoreInv, Upload!Flushed
  PROVE  /\ ~wip
         /\ \A a \in Flash!Addr : (\E s \in UpSent : s.blk = a.blk) => mem[a] = UpImage[a]
BY Given, Upload!FlushStores DEF Flash!Addr, Upload!Addr

LEMMA SpaceIsCapacity == Upload!Capacity = AddrSpace
<1>1. \A x, y, z \in Nat : x * y * z = x * (y * z) BY SMT
<1> QED BY <1>1, Given, UploadAssumption DEF Upload!Capacity, BlockSize

LEMMA AddressNumbered ==
  ASSUME NEW a \in Flash!Addr
  PROVE  Number(a) \in 0 .. AddrSpace - 1 /\ FlashAddr(Number(a)) = a
<1>1. a \in Upload!Addr BY DEF Flash!Addr, Upload!Addr
<1>2. /\ Upload!Cell(Upload!Number(a)) = a
      /\ Upload!Number(a) \in 0 .. Upload!Capacity - 1
  BY <1>1, Given, Upload!CellOfNumber
<1> QED
  BY <1>2, SpaceIsCapacity DEF Upload!Number, Number, Upload!Cell, FlashAddr, BlockSize

LEMMA NumberAddressed ==
  ASSUME NEW n \in 0 .. AddrSpace - 1
  PROVE  FlashAddr(n) \in Flash!Addr /\ Number(FlashAddr(n)) = n
<1>1. n \in 0 .. Upload!Capacity - 1 BY SpaceIsCapacity
<1>2. Upload!Cell(n) \in Upload!Addr /\ Upload!Number(Upload!Cell(n)) = n
  BY <1>1, Given, Upload!NumberOfCell
<1>3. Upload!Cell(n) = FlashAddr(n) BY DEF Upload!Cell, FlashAddr, BlockSize
<1>4. Upload!Number(FlashAddr(n)) = Number(FlashAddr(n)) BY DEF Upload!Number, Number
<1> QED BY <1>2, <1>3, <1>4 DEF Flash!Addr, Upload!Addr

LEMMA CountedFollows ==
  ASSUME NEW last \in Flash!Addr, NEW a \in Flash!Addr, Number(a) = Number(last) + 1,
         \A s \in UpSent : Number(s) <= Number(last)
  PROVE  Upload!MayFollow(last, a)
<1>1. last \in Upload!Addr /\ a \in Upload!Addr /\ \A s \in UpSent : s \in Upload!Addr
  BY DEF Flash!Addr, Upload!Addr, UpSent
<1>2. \A s : Upload!Number(s) = Number(s) BY DEF Upload!Number, Number
<1> QED BY <1>1, <1>2, Given, Upload!SequentialFollows

LEMMA Divided ==
  ASSUME NEW m \in Nat \ {0}, NEW q \in Nat, NEW r \in 0 .. m - 1, NEW a \in Nat, a = m * q + r
  PROVE  a % m = r /\ a \div m = q
BY Given, Upload!Quotient

\* The FSM's actions are the same formulas on the port and on the writer's view of it.
LEMMA UploadTakes ==
  ASSUME PortW = UpW, Flash!TakesByte
  PROVE  Upload!TakesByte /\ addr_latch' = UpW.addr
BY DEF Flash!TakesByte, Flash!Idle, Flash!WriteNextByte, Flash!Accept, Flash!device, Flash!PageOf,
       Upload!TakesByte, Upload!Idle, Upload!WriteNextByte, Upload!Accept, Upload!device,
       Upload!PageOf

LEMMA UploadShifts == ASSUME NEW b PROVE Flash!ShiftIn(b) <=> Upload!ShiftIn(b)
BY DEF Flash!ShiftIn, Upload!ShiftIn

LEMMA UploadRises == Flash!ChipSelectRise <=> Upload!ChipSelectRise
BY DEF Upload!ChipSelectRise, Flash!ChipSelectRise, Flash!Erases, Flash!Programs, Upload!Erases,
       Upload!Programs, Flash!HasAddress, Upload!HasAddress, Flash!Command, Upload!Command,
       Flash!FrameBlock, Upload!FrameBlock, Flash!FramePage, Upload!FramePage, Flash!Programmed,
       Upload!Programmed, Flash!EmptyBuf, Upload!EmptyBuf, Flash!Addr, Upload!Addr, Flash!Erased,
       Upload!Erased, Flash!PAGE_PROGRAM, Upload!PAGE_PROGRAM, Flash!BLOCK_ERASE,
       Upload!BLOCK_ERASE, Flash!WRITE_ENABLE, Upload!WRITE_ENABLE

LEMMA UploadWorks ==
  ASSUME Flash!WorksAlone
  PROVE  Upload!WorksAlone /\ addr_latch' = addr_latch
<1> USE UploadRises
    DEF Flash!device, Upload!device, Flash!regs, Upload!regs, Flash!PageOf, Upload!PageOf
<1>1. CASE Flash!Wren
  BY <1>1, UploadShifts DEF Flash!Wren, Upload!Wren, Flash!WRITE_ENABLE, Upload!WRITE_ENABLE,
     Upload!WorksAlone
<1>2. CASE Flash!WrenRelease
  BY <1>2 DEF Flash!WrenRelease, Upload!WrenRelease, Upload!WorksAlone
<1>3. CASE Flash!EraseCmd
  BY <1>3, UploadShifts DEF Flash!EraseCmd, Upload!EraseCmd, Flash!SendOpcode, Upload!SendOpcode,
     Flash!BLOCK_ERASE, Upload!BLOCK_ERASE, Upload!WorksAlone
<1>4. CASE Flash!EraseAddr
  BY <1>4, UploadShifts DEF Flash!EraseAddr, Upload!EraseAddr, Upload!WorksAlone
<1>5. CASE Flash!EraseRelease
  BY <1>5 DEF Flash!EraseRelease, Upload!EraseRelease, Upload!WorksAlone
<1>6. CASE Flash!WriteCmd
  BY <1>6, UploadShifts DEF Flash!WriteCmd, Upload!WriteCmd, Flash!SendOpcode, Upload!SendOpcode,
     Flash!PAGE_PROGRAM, Upload!PAGE_PROGRAM, Upload!WorksAlone
<1>7. CASE Flash!WriteAddr
  BY <1>7, UploadShifts DEF Flash!WriteAddr, Upload!WriteAddr, Upload!WorksAlone
<1>8. CASE Flash!WriteData
  BY <1>8, UploadShifts DEF Flash!WriteData, Upload!WriteData, Upload!WorksAlone
<1>9. CASE Flash!WriteNextFlush
  <2>1. UpFlush /\ ~UpW.valid BY <1>9 DEF Flash!WriteNextFlush, PortW, UpW, UpFlush
  <2> QED BY <1>9, <2>1 DEF Flash!WriteNextFlush, Upload!WriteNextFlush, Upload!WorksAlone
<1>10. CASE Flash!WriteRelease
  BY <1>10 DEF Flash!WriteRelease, Upload!WriteRelease, Upload!WorksAlone
<1>11. CASE Flash!PollCmd
  BY <1>11, UploadShifts DEF Flash!PollCmd, Upload!PollCmd, Flash!READ_STATUS, Upload!READ_STATUS,
     Upload!WorksAlone
<1>12. CASE Flash!PollRead BY <1>12 DEF Flash!PollRead, Upload!PollRead, Upload!WorksAlone
<1>13. CASE Flash!PollCapture
  BY <1>13 DEF Flash!PollCapture, Upload!PollCapture, Upload!WorksAlone
<1>14. CASE Flash!PollRelease
  BY <1>14 DEF Flash!PollRelease, Upload!PollRelease, Upload!WorksAlone
<1> QED BY <1>1, <1>2, <1>3, <1>4, <1>5, <1>6, <1>7, <1>8, <1>9, <1>10, <1>11, <1>12, <1>13, <1>14
        DEF Flash!WorksAlone

-----------------------------------------------------------------------------
(* The transport, one lemma per step. *)

LEMMA Sizes ==
  /\ HeaderLen = 8 /\ LastPad = Room + 7 /\ LastToken = Room + 8 /\ SectorLen = Room + 9
  /\ Room \in Nat \ {0} /\ SectorLen \in Nat \ {0} /\ Word \subseteq Nat
  /\ base_addr \in Nat /\ AddrSpace \in Nat \ {0} /\ MaxPacket \in Nat \ {0} /\ BlockCount \in Nat
  /\ {MAGIC_START0, MAGIC_START1, MAGIC_END} \subseteq Nat
<1>1. HeaderLen = 8 /\ LastPad = Room + 7 /\ LastToken = Room + 8 /\ SectorLen = Room + 9
  BY DecoderAssumption DEF HeaderLen, LastPad, LastToken, SectorLen
<1>2. Room \in Nat \ {0} /\ base_addr \in Nat /\ AddrSpace \in Nat \ {0} /\ Word \subseteq Nat
  BY DecoderAssumption
<1>3. {MAGIC_START0, MAGIC_START1, MAGIC_END} \subseteq Nat BY DecoderAssumption
<1>4. MaxPacket \in Nat \ {0} /\ BlockCount \in Nat BY ScsiAssumption
<1> QED BY <1>1, <1>2, <1>3, <1>4

LEMMA TransportStutter ==
  ASSUME TransportInv, UNCHANGED <<scsi, host, data, chunk>>
  PROVE  TransportInv' /\ Left' = Left /\ \A j : Coming(j)' = Coming(j)
BY DEF scsi, scsi_regs, in_ep, TransportInv, TransportTypes, StagesMatch, CommandCarried, Preparing,
       CbwLeft, CbwField, Left, Token, Coming, signature, transfer_length

\* The first token is taken from the endpoint.
LEMMA TokenTaken ==
  ASSUME rx \in Seq(Nat), data \in Seq(Nat), rx # <<>>, rx' = Tail(rx), data' = data
  PROVE  /\ rx' \in Seq(Nat) /\ Len(rx) \in Nat \ {0} /\ Len(rx') = Len(rx) - 1
         /\ Head(rx) = Token(1) /\ Head(rx) \in Nat /\ Len(data) \in Nat
         /\ \A k \in 1 .. Len(rx') : rx'[k] = rx[k + 1]
         /\ \A j \in Nat : 0 < j /\ j < Len(rx) + Len(data) => Token(j)' = Token(j + 1)
<1>1. /\ rx' \in Seq(Nat) /\ Len(rx) \in Nat \ {0} /\ Len(rx') = Len(rx) - 1
      /\ Head(rx) = rx[1] /\ rx[1] \in Nat /\ Len(data) \in Nat
      /\ \A k \in 1 .. Len(rx') : rx'[k] = rx[k + 1]
  OBVIOUS
<1>2. Token(1) = rx[1] BY <1>1 DEF Token
<1>3. ASSUME NEW j \in Nat, 0 < j, j < Len(rx) + Len(data) PROVE Token(j)' = Token(j + 1)
  <2>1. CASE j <= Len(rx')
    <3>1. j \in 1 .. Len(rx') /\ j + 1 <= Len(rx) BY <1>1, <1>3, <2>1
    <3>2. rx'[j] = rx[j + 1] BY <1>1, <3>1
    <3> QED BY <2>1, <3>1, <3>2 DEF Token
  <2>2. CASE ~(j <= Len(rx'))
    <3>1. ~(j + 1 <= Len(rx)) /\ j - Len(rx') = (j + 1) - Len(rx) BY <1>1, <2>2
    <3> QED BY <2>2, <3>1 DEF Token
  <2> QED BY <2>1, <2>2
<1> QED BY <1>1, <1>2, <1>3

LEMMA ReceiveCbwStep ==
  ASSUME TransportInv, ReceiveCbw, UNCHANGED <<host, data, chunk>>
  PROVE  /\ TransportInv' /\ Left' = Left /\ Preparing /\ Preparing'
         /\ \A j \in 1 .. Left : Coming(j)' = Coming(j)
<1>1. scsi_state = "RECEIVE_CBW" /\ rx # <<>> /\ rx' = Tail(rx) BY DEF ReceiveCbw
<1>2. cbw' = [cbw EXCEPT ![cbw_count + 1] = Head(rx)] BY DEF ReceiveCbw
<1>3. /\ cbw_count # 4 => cbw_count' = cbw_count + 1 /\ scsi_state' = scsi_state
      /\ cbw_count = 4 => cbw_count' = 0 /\ scsi_lba' = Head(rx)
                          /\ scsi_state' = IF signature = CBW_SIGNATURE THEN "DISPATCH" ELSE "HALT"
  <2>1. (cbw_count = CbwLen - 1) = (cbw_count = 4) BY DEF CbwLen
  <2> QED BY <2>1 DEF ReceiveCbw
<1>4. UNCHANGED <<data_sent, csw_status, packets, host, data, chunk>>
  BY DEF ReceiveCbw, in_ep
<1>5. TransportTypes /\ StagesMatch /\ CommandCarried BY DEF TransportInv
<1>6. /\ rx \in Seq(Nat) /\ data \in Seq(Nat) /\ cbw_count \in 0 .. 4 /\ cbw \in [1 .. 5 -> Nat]
  BY <1>5 DEF TransportTypes, CbwLen
<1>7. Preparing /\ CbwLeft = 5 - cbw_count /\ CbwLeft <= Len(rx) /\ CbwLeft \in 1 .. 5
  BY <1>1, <1>5, <1>6 DEF StagesMatch, Preparing, CbwLeft, CbwLen
<1>8. /\ rx' \in Seq(Nat) /\ Len(rx) \in Nat \ {0} /\ Len(rx') = Len(rx) - 1
      /\ Head(rx) \in Nat /\ Len(data) \in Nat
  BY <1>1, <1>4, <1>6, TokenTaken
<1>9. Head(rx) = rx[1] BY <1>1, <1>6
<1>10. cbw_count < 4 => rx' # <<>>
  <2>1. cbw_count < 4 => Len(rx') > 0 BY <1>6, <1>7, <1>8
  <2> QED BY <1>8, <2>1
<1>11. cbw' \in [1 .. 5 -> Nat] /\ cbw'[cbw_count + 1] = rx[1]
       /\ \A k \in 1 .. 5 : k # cbw_count + 1 => cbw'[k] = cbw[k]
  <2>1. cbw_count + 1 \in 1 .. 5 /\ rx[1] \in Nat BY <1>6, <1>8, <1>9
  <2>2. cbw' = [cbw EXCEPT ![cbw_count + 1] = rx[1]] BY <1>2, <1>9
  <2> DEFINE c == cbw_count + 1
  <2> HIDE DEF c
  <2>3. c \in 1 .. 5 /\ cbw' = [cbw EXCEPT ![c] = rx[1]] BY <2>1, <2>2 DEF c
  <2>4. /\ cbw' \in [1 .. 5 -> Nat] /\ cbw'[c] = rx[1]
        /\ \A k \in 1 .. 5 : k # c => cbw'[k] = cbw[k]
    BY <1>6, <2>1, <2>3
  <2> QED BY <2>4 DEF c
<1>12. \A k \in 1 .. 5 : CbwField(k) = IF k > cbw_count THEN rx[k - cbw_count] ELSE cbw[k]
  BY <1>1 DEF CbwField
<1>13. cbw_count = 4 => signature = CBW_SIGNATURE
  BY <1>5, <1>7, <1>12 DEF CommandCarried, signature
<1>14. cbw_count = 4 \/ (cbw_count < 4 /\ cbw_count # 4) BY <1>6
<1>15. \/ cbw_count = 4 /\ cbw_count' = 0 /\ scsi_state' = "DISPATCH"
       \/ cbw_count < 4 /\ cbw_count' = cbw_count + 1 /\ scsi_state' = "RECEIVE_CBW" /\ rx' # <<>>
  BY <1>14, <1>1, <1>3, <1>10, <1>13
<1>16. CbwLeft' = CbwLeft - 1
  <2>1. CASE cbw_count = 4
    <3>1. CbwLeft' = 0 BY <1>3, <1>13, <2>1 DEF CbwLeft
    <3> QED BY <1>7, <2>1, <3>1
  <2>2. CASE cbw_count < 4
    <3>1. CbwLeft' = 5 - (cbw_count + 1)
      BY <1>1, <1>3, <1>6, <1>10, <2>2 DEF CbwLeft, CbwLen
    <3> QED BY <1>6, <1>7, <2>2, <3>1
  <2> QED BY <1>14, <2>1, <2>2
<1>17. Left' = Left
  BY <1>4, <1>6, <1>7, <1>8, <1>16 DEF Left
<1>18. Preparing' BY <1>15 DEF Preparing
<1>19. \A k \in 1 .. 5 : CbwField(k)' = CbwField(k)
  <2> SUFFICES ASSUME NEW k \in 1 .. 5 PROVE CbwField(k)' = CbwField(k) OBVIOUS
  <2>1. CbwField(k) = IF k > cbw_count THEN rx[k - cbw_count] ELSE cbw[k] BY <1>12
  <2>2. CASE cbw_count = 4
    <3>1. CbwField(k)' = cbw'[k] BY <1>3, <1>13, <2>2 DEF CbwField
    <3> QED BY <1>11, <2>1, <2>2, <3>1
  <2>3. CASE cbw_count < 4
    <3>1. CbwField(k)' = IF k > cbw_count + 1 THEN rx'[k - (cbw_count + 1)] ELSE cbw'[k]
      BY <1>15, <2>3 DEF CbwField
    <3>2. CASE k > cbw_count + 1
      <4>1. k - (cbw_count + 1) \in 1 .. Len(rx') /\ k - (cbw_count + 1) + 1 = k - cbw_count
        <5> DEFINE c == cbw_count
                   m == Len(rx)
                   n == Len(rx')
        <5>1. c \in 0 .. 4 /\ m \in Nat /\ n = m - 1 /\ 5 - c <= m /\ k \in 1 .. 5 /\ k > c + 1
          BY <1>6, <1>7, <1>8, <3>2
        <5> HIDE DEF c, m, n
        <5>2. k - (c + 1) \in 1 .. n /\ k - (c + 1) + 1 = k - c BY <5>1
        <5> QED BY <5>2 DEF c, n
      <4>2. rx'[k - (cbw_count + 1)] = rx[k - (cbw_count + 1) + 1] BY <1>1, <1>4, <1>6, <4>1, TokenTaken
      <4> QED BY <1>6, <2>1, <3>1, <3>2, <4>1, <4>2
    <3>3. CASE k = cbw_count + 1 BY <1>6, <1>11, <2>1, <3>1, <3>3
    <3>4. CASE k < cbw_count + 1
      <4>1. k # cbw_count + 1 /\ ~(k > cbw_count + 1) /\ ~(k > cbw_count) BY <1>6, <3>4
      <4> QED BY <1>11, <2>1, <3>1, <4>1
    <3> QED BY <1>6, <3>2, <3>3, <3>4
  <2> QED BY <1>14, <2>2, <2>3
<1>20. ASSUME NEW j \in 1 .. Left PROVE Coming(j)' = Coming(j)
  <2>1. Left \in Nat /\ Left = Len(rx) + Len(data) - CbwLeft BY <1>6, <1>7, <1>8 DEF Left
  <2>2. PICK i \in Nat : i > 0 /\ i + 1 = CbwLeft + j /\ i < Len(rx) + Len(data)
    <3>1. j \in Nat /\ j > 0 /\ j <= Left BY <2>1
    <3>2. CbwLeft \in Nat /\ CbwLeft > 0 /\ Len(rx) \in Nat /\ Len(data) \in Nat BY <1>7, <1>8
    <3>3. CbwLeft + j - 1 \in Nat /\ CbwLeft + j - 1 > 0 /\ CbwLeft + j - 1 < Len(rx) + Len(data)
      BY <2>1, <3>1, <3>2
    <3> QED BY <3>1, <3>2, <3>3
  <2>3. Token(i)' = Token(i + 1) BY <1>1, <1>4, <1>6, <2>2, TokenTaken
  <2>4. Coming(j)' = Token(i)'
    <3> DEFINE c == CbwLeft
               d == CbwLeft'
    <3>1. c \in 1 .. 5 /\ d = c - 1 /\ i + 1 = c + j /\ i \in Nat /\ j \in Int
      BY <1>7, <1>16, <2>1, <2>2
    <3> HIDE DEF c, d
    <3>2. d + j = i BY <3>1
    <3> QED BY <3>2 DEF c, d, Coming, Token
  <2>5. Coming(j) = Token(i + 1) BY <2>2 DEF Coming
  <2> QED BY <2>3, <2>4, <2>5
<1>21. TransportTypes'
  <2>1. cbw_count' \in 0 .. 4 BY <1>15, <1>6
  <2>2. rx' \in Seq(Nat) /\ cbw' \in [1 .. 5 -> Nat] BY <1>8, <1>11
  <2>3. scsi_state' \in {"RECEIVE_CBW", "DISPATCH"} BY <1>15
  <2> QED BY <1>4, <1>5, <2>1, <2>2, <2>3 DEF TransportTypes, CbwLen
<1>22. StagesMatch'
  <2>1. scsi_state' = "RECEIVE_CBW" => rx' # <<>> BY <1>15
  <2>2. CbwLeft' <= Len(rx') BY <1>6, <1>7, <1>8, <1>16
  <2>3. scsi_state' # "RECEIVE_CBW" => cbw_count' = 0 BY <1>1, <1>3
  <2> QED BY <1>1, <1>4, <1>5, <2>1, <2>2, <2>3 DEF StagesMatch
<1>23. CommandCarried'
  <2>1. CbwField(1)' = CbwField(1) /\ CbwField(3)' = CbwField(3) /\ CbwField(4)' = CbwField(4)
        /\ CbwField(5)' = CbwField(5)
    BY <1>19
  <2>2. scsi_state' = "DISPATCH" => scsi_lba' = cbw'[5] BY <1>1, <1>3, <1>9, <1>11
  <2>3. scsi_state' \in {"RECEIVE_CBW", "DISPATCH"} BY <1>15
  <2> QED BY <1>4, <1>5, <1>7, <1>17, <2>1, <2>2, <2>3 DEF CommandCarried
<1> QED BY <1>7, <1>17, <1>18, <1>20, <1>21, <1>22, <1>23 DEF TransportInv

\* Tokens move from the host to the endpoint in their order.
LEMMA TokensMoved ==
  ASSUME NEW r \in Seq(Nat), NEW d \in Seq(Nat), NEW n \in Nat, n <= Len(d),
         NEW s, s = r \o SubSeq(d, 1, n), NEW t, t = SubSeq(d, n + 1, Len(d))
  PROVE  /\ s \in Seq(Nat) /\ t \in Seq(Nat)
         /\ Len(s) = Len(r) + n /\ Len(t) = Len(d) - n /\ Len(r) \in Nat /\ Len(d) \in Nat
<1> DEFINE p == SubSeq(d, 1, n)
<1>1. Len(r) \in Nat /\ Len(d) \in Nat OBVIOUS
<1>2. p \in Seq(Nat) /\ Len(p) = n
  <2>1. \A i \in 1 .. n : d[i] \in Nat BY <1>1
  <2>2. p \in Seq(Nat) /\ Len(p) = IF 1 <= n THEN n - 1 + 1 ELSE 0 BY <2>1, SubSeqProperties
  <2> HIDE DEF p
  <2> QED BY <2>2
<1>3. t \in Seq(Nat) /\ Len(t) = Len(d) - n
  <2>1. \A i \in n + 1 .. Len(d) : d[i] \in Nat BY <1>1
  <2>2. /\ t \in Seq(Nat) /\ Len(t) = IF n + 1 <= Len(d) THEN Len(d) - (n + 1) + 1 ELSE 0
    BY <1>1, <2>1, SubSeqProperties
  <2> QED BY <1>1, <2>2
<1> HIDE DEF p
<1>4. s \in Seq(Nat) /\ Len(s) = Len(r) + n
  BY <1>2, ConcatProperties DEF p
<1> QED BY <1>1, <1>3, <1>4

LEMMA TokensPut ==
  ASSUME NEW r \in Seq(Nat), NEW d \in Seq(Nat), NEW n \in Nat, n <= Len(d),
         NEW s, s = r \o SubSeq(d, 1, n), NEW j \in 1 .. Len(r) + n
  PROVE  s[j] = IF j <= Len(r) THEN r[j] ELSE d[j - Len(r)]
<1> DEFINE p == SubSeq(d, 1, n)
<1>1. Len(r) \in Nat /\ Len(d) \in Nat OBVIOUS
<1>2. /\ p \in Seq(Nat) /\ Len(p) = n /\ \A i \in 1 .. n : p[i] = d[i]
  <2>1. \A i \in 1 .. n : d[i] \in Nat BY <1>1
  <2>2. /\ p \in Seq(Nat) /\ Len(p) = IF 1 <= n THEN n - 1 + 1 ELSE 0
        /\ \A i \in 1 .. n - 1 + 1 : p[i] = d[1 + i - 1]
    BY <2>1, SubSeqProperties
  <2> HIDE DEF p
  <2>3. Len(p) = n BY <2>2
  <2>4. ASSUME NEW i \in 1 .. n PROVE p[i] = d[i]
    <3>1. i \in 1 .. n - 1 + 1 /\ 1 + i - 1 = i OBVIOUS
    <3> QED BY <2>2, <3>1
  <2> QED BY <2>2, <2>3, <2>4
<1> HIDE DEF p
<1>3. s[j] = IF j <= Len(r) THEN r[j] ELSE p[j - Len(r)]
  <2>1. s = r \o p BY DEF p
  <2>2. \A i \in 1 .. Len(r) + Len(p) : (r \o p)[i] = IF i <= Len(r) THEN r[i] ELSE p[i - Len(r)]
    BY <1>2, ConcatProperties
  <2> QED BY <1>2, <2>1, <2>2
<1>4. ~(j <= Len(r)) => p[j - Len(r)] = d[j - Len(r)]
  <2> SUFFICES ASSUME ~(j <= Len(r)) PROVE p[j - Len(r)] = d[j - Len(r)] OBVIOUS
  <2>1. j - Len(r) \in 1 .. n BY <1>1
  <2> QED BY <1>2, <2>1
<1> QED BY <1>3, <1>4

LEMMA TokensLeft ==
  ASSUME NEW d \in Seq(Nat), NEW n \in Nat, n <= Len(d),
         NEW t, t = SubSeq(d, n + 1, Len(d)), NEW i \in 1 .. Len(d) - n
  PROVE  t[i] = d[n + i]
<1>1. Len(d) \in Nat /\ \A k \in n + 1 .. Len(d) : d[k] \in Nat OBVIOUS
<1>2. /\ t \in Seq(Nat) /\ Len(t) = IF n + 1 <= Len(d) THEN Len(d) - (n + 1) + 1 ELSE 0
      /\ \A k \in 1 .. Len(d) - (n + 1) + 1 : t[k] = d[n + 1 + k - 1]
  BY <1>1, SubSeqProperties
<1>3. i \in 1 .. Len(d) - (n + 1) + 1 /\ n + 1 + i - 1 = n + i BY <1>1
<1> QED BY <1>2, <1>3

LEMMA SendStep ==
  ASSUME TransportInv, SendPacket
  PROVE  /\ TransportInv' /\ Left' = Left /\ Preparing' = Preparing /\ Forwarding' = Forwarding
         /\ EndSector' = EndSector
         /\ \A j \in 1 .. Left : Coming(j)' = Coming(j)
<1> DEFINE n == IF Len(data) < MaxPacket THEN Len(data) ELSE MaxPacket
<1>1. /\ rx' = rx \o SubSeq(data, 1, n) /\ data' = SubSeq(data, n + 1, Len(data))
      /\ host = "data_out"
  BY DEF SendPacket
<1>2. IF data' = <<>> THEN host' = "status" /\ written' = written + chunk
                      ELSE host' = host /\ written' = written
  BY DEF SendPacket
<1>3. UNCHANGED <<scsi_state, cbw, cbw_count, data_sent, csw_status, scsi_lba, packets, chunk>>
  BY DEF SendPacket, scsi_regs, in_ep
<1>4. TransportTypes /\ StagesMatch /\ CommandCarried BY DEF TransportInv
<1>5. rx \in Seq(Nat) /\ data \in Seq(Nat) /\ data # <<>> BY <1>1, <1>4 DEF TransportTypes, StagesMatch
<1>6. n \in Nat /\ n <= Len(data) /\ n > 0
  <2>1. Len(data) \in Nat /\ Len(data) > 0 BY <1>5
  <2> QED BY <2>1, Sizes
<1> HIDE DEF n
<1>7. /\ rx' \in Seq(Nat) /\ data' \in Seq(Nat)
      /\ Len(rx') = Len(rx) + n /\ Len(data') = Len(data) - n
      /\ Len(rx) \in Nat /\ Len(data) \in Nat
  BY <1>1, <1>5, <1>6, TokensMoved
<1>8. \A j \in 1 .. Len(rx) + n :
        rx'[j] = IF j <= Len(rx) THEN rx[j] ELSE data[j - Len(rx)]
  BY <1>1, <1>5, <1>6, TokensPut
<1>9. \A j \in 1 .. Len(rx) : rx'[j] = rx[j]
  <2> SUFFICES ASSUME NEW j \in 1 .. Len(rx) PROVE rx'[j] = rx[j] OBVIOUS
  <2>1. j \in 1 .. Len(rx) + n /\ j <= Len(rx) BY <1>6, <1>7
  <2> QED BY <1>8, <2>1
<1>10. \A i \in 1 .. Len(data) - n : data'[i] = data[n + i] BY <1>1, <1>5, <1>6, TokensLeft
<1>11. ASSUME NEW j \in 1 .. Len(rx) + Len(data) PROVE Token(j)' = Token(j)
  <2>1. CASE j <= Len(rx)
    <3>1. j <= Len(rx') /\ j \in 1 .. Len(rx) BY <1>6, <1>7, <2>1
    <3>2. rx'[j] = rx[j] BY <1>9, <3>1
    <3> QED BY <2>1, <3>1, <3>2 DEF Token
  <2>2. CASE j > Len(rx) /\ j <= Len(rx) + n
    <3>1. j \in 1 .. Len(rx) + n /\ ~(j <= Len(rx)) /\ j <= Len(rx') BY <1>7, <2>2
    <3>2. rx'[j] = data[j - Len(rx)] BY <1>8, <3>1
    <3> QED BY <3>1, <3>2 DEF Token
  <2>3. CASE j > Len(rx) + n
    <3> DEFINE lr == Len(rx)
               ld == Len(data)
               ls == Len(rx')
    <3>1. lr \in Nat /\ ld \in Nat /\ ls = lr + n /\ j \in Nat /\ j > lr + n /\ j <= lr + ld
      BY <1>7, <2>3
    <3> HIDE DEF lr, ld, ls
    <3>2. ~(j <= ls) /\ ~(j <= lr) /\ j - ls \in 1 .. ld - n /\ n + (j - ls) = j - lr
      BY <1>6, <3>1
    <3>3. /\ ~(j <= Len(rx')) /\ ~(j <= Len(rx)) /\ j - Len(rx') \in 1 .. Len(data) - n
          /\ n + (j - Len(rx')) = j - Len(rx)
      BY <3>2 DEF lr, ld, ls
    <3>4. data'[j - Len(rx')] = data[j - Len(rx)] BY <1>10, <3>3
    <3> QED BY <3>3, <3>4 DEF Token
  <2> QED BY <1>6, <1>7, <2>1, <2>2, <2>3
<1>12. /\ scsi_state = "RECEIVE_CBW" => rx # <<>>
       /\ CbwLeft <= Len(rx) /\ CbwLeft \in Nat /\ cbw_count \in 0 .. 4
       /\ scsi_state = "RECEIVE_CBW" => CbwLeft = 5 - cbw_count
  <2>1. cbw_count \in 0 .. 4 BY <1>4 DEF TransportTypes, CbwLen
  <2>2. scsi_state = "RECEIVE_CBW" => rx # <<>> BY <1>4, <1>5 DEF StagesMatch
  <2>3. CbwLeft <= Len(rx) BY <1>4 DEF StagesMatch
  <2>4. CbwLeft = IF scsi_state = "RECEIVE_CBW" THEN 5 - cbw_count ELSE 0
    BY <2>2 DEF CbwLeft, CbwLen
  <2> QED BY <2>1, <2>2, <2>3, <2>4
<1>13. rx' # <<>>
  <2>1. Len(rx') > 0 BY <1>6, <1>7
  <2> QED BY <1>7, <2>1
<1>14. CbwLeft' = CbwLeft BY <1>3, <1>12, <1>13 DEF CbwLeft
<1>15. Left' = Left
  <2>1. \A a, b, c \in Nat : b - n \in Nat => (a + n) + (b - n) - c = a + b - c BY <1>6
  <2>2. CbwLeft \in Nat /\ Len(rx) \in Nat /\ Len(data) \in Nat /\ Len(data) - n \in Nat
    BY <1>6, <1>7, <1>12
  <2>3. Left' = (Len(rx) + n) + (Len(data) - n) - CbwLeft BY <1>7, <1>14 DEF Left
  <2> QED BY <2>1, <2>2, <2>3 DEF Left
<1>16. Preparing' = Preparing /\ Forwarding' = Forwarding
  BY <1>3, <1>12, <1>13 DEF Preparing, Forwarding
<1>17. ASSUME NEW j \in 1 .. Left PROVE Coming(j)' = Coming(j)
  <2>1. Left = Len(rx) + Len(data) - CbwLeft /\ Left \in Nat BY <1>7, <1>12 DEF Left
  <2>2. PICK i \in 1 .. Len(rx) + Len(data) : i = CbwLeft + j BY <1>7, <1>12, <2>1
  <2>3. Token(i)' = Token(i) BY <1>11
  <2>4. Coming(j) = Token(i) BY <2>2 DEF Coming
  <2>5. Coming(j)' = Token(i)' BY <1>14, <2>2 DEF Coming, Token
  <2> QED BY <2>3, <2>4, <2>5
<1>18. \A k \in 1 .. 5 : CbwField(k)' = CbwField(k)
  <2> SUFFICES ASSUME NEW k \in 1 .. 5 PROVE CbwField(k)' = CbwField(k) OBVIOUS
  <2>1. CASE scsi_state = "RECEIVE_CBW" /\ k > cbw_count
    <3>1. k - cbw_count \in 1 .. Len(rx) BY <1>7, <1>12, <2>1
    <3>2. rx'[k - cbw_count] = rx[k - cbw_count] BY <1>9, <3>1
    <3> QED BY <1>3, <2>1, <3>2 DEF CbwField
  <2>2. CASE ~(scsi_state = "RECEIVE_CBW" /\ k > cbw_count)
    BY <1>3, <2>2 DEF CbwField
  <2> QED BY <2>1, <2>2
<1>19. TransportTypes'
  BY <1>1, <1>2, <1>3, <1>4, <1>7 DEF TransportTypes
<1>20. StagesMatch'
  <2>1. (data' # <<>>) <=> (host' = "data_out") BY <1>1, <1>2
  <2>2. CbwLeft' <= Len(rx') BY <1>6, <1>7, <1>12, <1>14
  <2>3. host' \in {"status", "data_out"} /\ packets = <<>>
    BY <1>1, <1>2, <1>4 DEF StagesMatch
  <2> QED BY <1>3, <1>4, <1>12, <1>13, <2>1, <2>2, <2>3 DEF StagesMatch
<1>21. CommandCarried'
  <2>1. CbwField(1)' = CbwField(1) /\ CbwField(3)' = CbwField(3) /\ CbwField(4)' = CbwField(4)
        /\ CbwField(5)' = CbwField(5)
    BY <1>18
  <2>2. transfer_length' = transfer_length BY <1>3 DEF transfer_length
  <2> QED BY <1>3, <1>4, <1>15, <1>16, <2>1, <2>2 DEF CommandCarried
<1>22. EndSector' = EndSector BY <1>1, <1>2, <1>3 DEF EndSector
<1> QED BY <1>15, <1>16, <1>17, <1>19, <1>20, <1>21, <1>22 DEF TransportInv

\* Between commands there is nothing left of the last one.
LEMMA NothingLeft ==
  ASSUME TransportInv, host \in {"idle", "failed"} \/ packets # <<>>
  PROVE  scsi_state = "RECEIVE_CBW" /\ rx = <<>> /\ data = <<>> /\ CbwLeft = 0 /\ Left = 0
<1>1. scsi_state = "RECEIVE_CBW" /\ rx = <<>> /\ data = <<>> BY DEF TransportInv, StagesMatch
<1>2. CbwLeft = 0 BY <1>1 DEF CbwLeft
<1>3. Len(rx) = 0 /\ Len(data) = 0 BY <1>1
<1> QED BY <1>1, <1>2, <1>3 DEF Left

\* A command with its data phase, as the host sends it.
LEMMA IssueStep ==
  ASSUME TransportInv, NEW op \in Nat, NEW length \in Nat, NEW lba \in Nat, Issue(op, length, lba),
         data' \in Seq(Nat), Len(data') = length,
         op = IF length > 0 THEN OP_WRITE_10 ELSE OP_TEST_UNIT_READY,
         host' = IF length > 0 THEN "data_out" ELSE "status",
         chunk' # 0 /\ length > 0 => lba = 0
  PROVE  /\ TransportInv' /\ Left = 0 /\ Left' = length /\ Preparing' /\ ~Preparing
         /\ ~Forwarding /\ ~Forwarding'
         /\ \A j \in 1 .. length : Coming(j)' = data'[j]
<1>1. host = "idle" /\ rx = <<>> /\ rx' = <<90, 0, length, op, lba>>
  BY DEF Issue, CBW_SIGNATURE
<1>2. UNCHANGED <<scsi_state, cbw, cbw_count, data_sent, csw_status, scsi_lba, packets>>
  BY DEF Issue, scsi_regs, in_ep
<1>3. scsi_state = "RECEIVE_CBW" /\ data = <<>> /\ Left = 0 BY <1>1, NothingLeft
<1>4. TransportTypes /\ StagesMatch /\ CommandCarried BY DEF TransportInv
<1>5. cbw_count = 0 /\ packets = <<>>
  BY <1>1, <1>3, <1>4 DEF StagesMatch
<1>6. /\ rx' \in Seq(Nat) /\ Len(rx') = 5 /\ rx' # <<>>
      /\ rx'[1] = 90 /\ rx'[3] = length /\ rx'[4] = op /\ rx'[5] = lba
  BY <1>1
<1>7. CbwLeft' = 5 BY <1>2, <1>3, <1>5, <1>6 DEF CbwLeft, CbwLen
<1>8. Left' = length
  <2>1. Left' = 5 + length - 5 BY <1>6, <1>7 DEF Left
  <2> QED BY <2>1
<1>9. ASSUME NEW j \in 1 .. length PROVE Coming(j)' = data'[j]
  <2>1. ~(5 + j <= Len(rx')) /\ 5 + j - Len(rx') = j BY <1>6
  <2>2. Coming(j)' = IF 5 + j <= Len(rx') THEN rx'[5 + j] ELSE data'[5 + j - Len(rx')]
    BY <1>7 DEF Coming, Token
  <2> QED BY <2>1, <2>2
<1>10. TransportTypes'
  <2>1. host' \in {"data_out", "status"} BY <1>1
  <2> QED BY <1>2, <1>4, <1>6, <2>1 DEF TransportTypes
<1>11. StagesMatch'
  <2>1. data' # <<>> <=> length > 0
    <3>1. data' = <<>> => Len(data') = 0 OBVIOUS
    <3>2. Len(data') = 0 => data' = <<>> OBVIOUS
    <3> QED BY <3>1, <3>2
  <2>2. CbwLeft' <= Len(rx') BY <1>6, <1>7
  <2>3. host' \in {"data_out", "status"} /\ (host' = "data_out" <=> length > 0) OBVIOUS
  <2> QED BY <1>2, <1>3, <1>5, <1>6, <2>1, <2>2, <2>3 DEF StagesMatch
<1>12. CommandCarried'
  <2>1. \A k \in 1 .. 5 : CbwField(k)' = rx'[k]
    <3> SUFFICES ASSUME NEW k \in 1 .. 5 PROVE CbwField(k)' = rx'[k] OBVIOUS
    <3>1. k > 0 /\ k - 0 = k OBVIOUS
    <3> QED BY <1>2, <1>3, <1>5, <3>1 DEF CbwField
  <2>2. CbwField(1)' = 90 /\ CbwField(3)' = length /\ CbwField(4)' = op /\ CbwField(5)' = lba
    BY <1>6, <2>1
  <2>3. scsi_state' = "RECEIVE_CBW" BY <1>2, <1>3
  <2> QED BY <1>8, <2>2, <2>3 DEF CommandCarried, CBW_SIGNATURE
<1>13. Preparing' /\ ~Preparing /\ ~Forwarding /\ ~Forwarding'
  BY <1>1, <1>2, <1>3, <1>6 DEF Preparing, Forwarding
<1> QED BY <1>3, <1>8, <1>9, <1>10, <1>11, <1>12, <1>13 DEF TransportInv

LEMMA TakeStatusStep ==
  ASSUME TransportInv, TakeStatus
  PROVE  /\ TransportInv' /\ Left = 0 /\ Left' = 0 /\ ~Preparing /\ ~Preparing'
         /\ ~Forwarding /\ ~Forwarding' /\ EndSector' = EndSector
<1>1. host = "status" /\ packets # <<>> /\ packets' = Tail(packets) /\ host' \in {"failed", "idle"}
  BY DEF TakeStatus
<1>2. UNCHANGED <<scsi_state, cbw, cbw_count, data_sent, csw_status, scsi_lba, rx, written, data, chunk>>
  BY DEF TakeStatus, scsi_regs
<1>3. scsi_state = "RECEIVE_CBW" /\ rx = <<>> /\ data = <<>> /\ CbwLeft = 0 /\ Left = 0
  BY <1>1, NothingLeft
<1>4. TransportTypes /\ StagesMatch /\ CommandCarried BY DEF TransportInv
<1>5. PICK p : packets = <<p>> BY <1>1, <1>4 DEF StagesMatch
<1>6. packets' = <<>>
  <2>1. Tail(<<p>>) = <<>> OBVIOUS
  <2> QED BY <1>1, <1>5, <2>1
<1>7. CbwLeft' = 0 /\ Left' = 0 BY <1>2, <1>3 DEF CbwLeft, Left
<1>8. TransportTypes' BY <1>1, <1>2, <1>4 DEF TransportTypes
<1>9. StagesMatch' BY <1>1, <1>2, <1>3, <1>4, <1>6, <1>7 DEF StagesMatch
<1>10. ~Preparing /\ ~Preparing' /\ ~Forwarding /\ ~Forwarding'
  BY <1>2, <1>3 DEF Preparing, Forwarding
<1>11. CommandCarried' BY <1>2, <1>3, <1>10 DEF CommandCarried
<1>12. EndSector' = EndSector BY <1>1, <1>2 DEF EndSector
<1> QED BY <1>3, <1>7, <1>8, <1>9, <1>10, <1>11, <1>12 DEF TransportInv

\* The handler goes on, without a token of the data.
LEMMA DispatchStep ==
  ASSUME BlockCount > 0, TransportInv, Dispatch, UNCHANGED <<host, data, chunk>>
  PROVE  /\ TransportInv' /\ Left' = Left /\ Preparing /\ ~Preparing' /\ ~Forwarding
         /\ Forwarding' => Left > 0
         /\ chunk # 0 /\ Left > 0 => Forwarding'
         /\ \A j : Coming(j)' = Coming(j)
<1>1. /\ scsi_state = "DISPATCH" /\ data_sent' = 0
      /\ csw_status' = CASE opcode \in {OP_READ_10, OP_WRITE_10} -> scsi_lba >= BlockCount
                         [] OTHER -> opcode \notin RomOps \cup {OP_TEST_UNIT_READY}
      /\ UNCHANGED <<cbw_count, cbw, scsi_lba, rx, packets>>
  BY DEF Dispatch, in_ep
<1>2. scsi_state' = CASE opcode \in RomOps -> "SEND_RESPONSE"
                      [] opcode = OP_READ_10 /\ scsi_lba >= BlockCount -> "SEND_SHORT_DATA"
                      [] opcode = OP_READ_10 /\ scsi_lba < BlockCount -> "SEND_SECTOR"
                      [] opcode = OP_WRITE_10 -> "RECEIVE_WRITE_DATA"
                      [] OTHER -> "SEND_CSW_PREP"
  BY DEF Dispatch
<1>3. TransportTypes /\ StagesMatch /\ CommandCarried BY DEF TransportInv
<1>4. Preparing BY <1>1 DEF Preparing
<1>5. \A k : CbwField(k) = cbw[k] BY <1>1 DEF CbwField
<1>6. /\ cbw[3] = Left /\ cbw[4] = IF Left > 0 THEN OP_WRITE_10 ELSE OP_TEST_UNIT_READY
      /\ scsi_lba = cbw[5] /\ (chunk # 0 /\ Left > 0 => cbw[5] = 0)
  BY <1>1, <1>3, <1>4, <1>5 DEF CommandCarried
<1>7. OP_WRITE_10 \notin RomOps /\ OP_TEST_UNIT_READY \notin RomOps /\ BlockCount \in Nat \ {0}
  BY ScsiAssumption
<1>8. scsi_state' = IF Left > 0 THEN "RECEIVE_WRITE_DATA" ELSE "SEND_CSW_PREP"
  BY <1>2, <1>6, <1>7 DEF opcode, OP_READ_10, OP_WRITE_10, OP_TEST_UNIT_READY
<1>9. csw_status' \in BOOLEAN /\ (chunk # 0 /\ Left > 0 => ~csw_status')
  <2>1. CASE Left > 0
    <3>1. opcode = OP_WRITE_10 BY <1>6, <2>1 DEF opcode
    <3>2. csw_status' = (scsi_lba >= BlockCount) BY <1>1, <3>1
    <3>3. chunk # 0 => scsi_lba = 0 BY <1>6, <2>1
    <3>4. chunk # 0 => ~(scsi_lba >= BlockCount) BY <1>7, <3>3
    <3>5. csw_status' = TRUE \/ csw_status' = FALSE BY <3>2
    <3> QED BY <3>2, <3>4, <3>5
  <2>2. CASE ~(Left > 0)
    <3>1. opcode = OP_TEST_UNIT_READY BY <1>6, <2>2 DEF opcode
    <3>2. csw_status' = (opcode \notin RomOps \cup {OP_TEST_UNIT_READY})
      BY <1>1, <3>1 DEF OP_READ_10, OP_WRITE_10, OP_TEST_UNIT_READY
    <3> QED BY <2>2, <3>2
  <2> QED BY <2>1, <2>2
<1>10. CbwLeft = 0 /\ CbwLeft' = 0 BY <1>1, <1>8 DEF CbwLeft
<1>11. Left' = Left BY <1>1, <1>10 DEF Left
<1>12. \A j : Coming(j)' = Coming(j) BY <1>1, <1>10 DEF Coming, Token
<1>13. Left \in Nat
  <2>1. Len(rx) \in Nat /\ Len(data) \in Nat BY <1>3 DEF TransportTypes
  <2> QED BY <1>10, <2>1 DEF Left
<1>14. TransportTypes' BY <1>1, <1>3, <1>8, <1>9 DEF TransportTypes
<1>15. StagesMatch'
  <2>1. host \notin {"idle", "failed"} /\ packets = <<>> /\ cbw_count = 0
    BY <1>1, <1>3 DEF StagesMatch
  <2>2. CbwLeft' <= Len(rx') BY <1>1, <1>3, <1>10 DEF StagesMatch
  <2> QED BY <1>1, <1>3, <1>8, <2>1, <2>2 DEF StagesMatch
<1>16. CommandCarried'
  <2>1. ~Preparing' BY <1>8 DEF Preparing
  <2>2. transfer_length' = Left BY <1>1, <1>6 DEF transfer_length
  <2> QED BY <1>1, <1>8, <1>9, <1>11, <1>13, <2>1, <2>2 DEF CommandCarried
<1>17. ~Preparing' /\ ~Forwarding BY <1>1, <1>8 DEF Preparing, Forwarding
<1>18. Forwarding' => Left > 0 BY <1>8 DEF Forwarding
<1>19. chunk # 0 /\ Left > 0 => Forwarding' BY <1>8, <1>9 DEF Forwarding
<1> QED BY <1>4, <1>11, <1>12, <1>14, <1>15, <1>16, <1>17, <1>18, <1>19 DEF TransportInv

\* A token of the data phase.
LEMMA WriteDataStep ==
  ASSUME TransportInv, ReceiveWriteData, UNCHANGED <<host, data, chunk>>
  PROVE  /\ TransportInv' /\ Left \in Nat \ {0} /\ Left' = Left - 1
         /\ Head(rx) = Coming(1) /\ Head(rx) \in Nat
         /\ Forwarding = ~csw_status /\ Forwarding' = (~csw_status /\ Left > 1)
         /\ chunk # 0 => ~csw_status
         /\ ~Preparing /\ ~Preparing'
         /\ \A j \in 1 .. Left - 1 : Coming(j)' = Coming(j + 1)
<1>1. /\ scsi_state = "RECEIVE_WRITE_DATA" /\ rx # <<>> /\ rx' = Tail(rx) /\ data_sent' = data_sent + 1
      /\ scsi_state' = IF LastByte THEN "SEND_CSW_PREP" ELSE scsi_state
      /\ UNCHANGED <<cbw_count, cbw, csw_status, scsi_lba, packets>>
  BY DEF ReceiveWriteData, in_ep
<1>2. TransportTypes /\ StagesMatch /\ CommandCarried BY DEF TransportInv
<1>3. rx \in Seq(Nat) /\ data \in Seq(Nat) /\ data_sent \in Nat BY <1>2 DEF TransportTypes
<1>4. /\ rx' \in Seq(Nat) /\ Len(rx) \in Nat \ {0} /\ Len(rx') = Len(rx) - 1
      /\ Head(rx) = Token(1) /\ Head(rx) \in Nat /\ Len(data) \in Nat
  BY <1>1, <1>3, TokenTaken
<1>5. scsi_state' \in {"RECEIVE_WRITE_DATA", "SEND_CSW_PREP"} BY <1>1
<1>6. CbwLeft = 0 /\ CbwLeft' = 0 BY <1>1, <1>5 DEF CbwLeft
<1>7. Left = Len(rx) + Len(data) /\ Left' = Len(rx') + Len(data) BY <1>6, <1>4 DEF Left
<1>8. Left \in Nat \ {0} /\ Left' = Left - 1 BY <1>4, <1>7
<1>9. transfer_length = data_sent + Left /\ (chunk # 0 => ~csw_status)
  BY <1>1, <1>2 DEF CommandCarried
<1>10. LastByte <=> Left = 1 BY <1>3, <1>8, <1>9 DEF LastByte
<1>11. Coming(1) = Token(1) BY <1>6 DEF Coming
<1>12. ASSUME NEW j \in 1 .. Left - 1 PROVE Coming(j)' = Coming(j + 1)
  <2>1. j \in Nat /\ 0 < j /\ j < Len(rx) + Len(data) BY <1>4, <1>7, <1>8
  <2>2. Token(j)' = Token(j + 1) BY <1>1, <1>3, <2>1, TokenTaken
  <2>3. 0 + j = j /\ 0 + (j + 1) = j + 1 BY <2>1
  <2>4. Coming(j)' = Token(j)' BY <1>6, <2>3 DEF Coming, Token
  <2>5. Coming(j + 1) = Token(j + 1) BY <1>6, <2>3 DEF Coming
  <2> QED BY <2>2, <2>4, <2>5
<1>13. /\ Forwarding = ~csw_status /\ Forwarding' = (~csw_status /\ Left > 1)
       /\ ~Preparing /\ ~Preparing'
  <2>1. scsi_state' = "RECEIVE_WRITE_DATA" <=> Left > 1 BY <1>1, <1>8, <1>10
  <2>2. csw_status \in BOOLEAN BY <1>2 DEF TransportTypes
  <2> QED BY <1>1, <1>5, <2>1, <2>2 DEF Forwarding, Preparing
<1>14. TransportTypes' BY <1>1, <1>2, <1>3, <1>4, <1>5 DEF TransportTypes
<1>15. StagesMatch'
  <2>1. host \notin {"idle", "failed"} /\ packets = <<>> /\ cbw_count = 0
    BY <1>1, <1>2 DEF StagesMatch
  <2>2. CbwLeft' <= Len(rx') BY <1>4, <1>6
  <2> QED BY <1>1, <1>2, <1>5, <2>1, <2>2 DEF StagesMatch
<1>16. CommandCarried'
  <2>1. transfer_length' = transfer_length BY <1>1 DEF transfer_length
  <2>2. data_sent + Left = data_sent + 1 + (Left - 1) BY <1>3, <1>8
  <2>3. scsi_state' = "RECEIVE_WRITE_DATA" => Left' > 0 BY <1>1, <1>8, <1>10
  <2>4. scsi_state' = "SEND_CSW_PREP" => Left' = 0 BY <1>1, <1>8, <1>10
  <2> QED BY <1>1, <1>5, <1>8, <1>9, <1>13, <2>1, <2>2, <2>3, <2>4 DEF CommandCarried
<1> QED BY <1>4, <1>8, <1>9, <1>11, <1>12, <1>13, <1>14, <1>15, <1>16 DEF TransportInv

\* The status goes back.
LEMMA StatusStep ==
  ASSUME TransportInv, SendCswPrep(error) \/ SendCsw, UNCHANGED <<host, data, chunk>>
  PROVE  /\ TransportInv' /\ Left = 0 /\ Left' = 0
         /\ ~Preparing /\ ~Preparing' /\ ~Forwarding /\ ~Forwarding'
<1>1. /\ scsi_state \in {"SEND_CSW_PREP", "SEND_CSW"} /\ scsi_state' \in {"SEND_CSW", "RECEIVE_CBW"}
      /\ UNCHANGED <<cbw_count, cbw, data_sent, csw_status, scsi_lba, rx>>
  BY DEF SendCswPrep, SendCsw, scsi_regs
<1>2. TransportTypes /\ StagesMatch /\ CommandCarried BY DEF TransportInv
<1>3. CbwLeft = 0 /\ Left = 0 BY <1>1, <1>2 DEF CbwLeft, CommandCarried
<1>4. rx = <<>> /\ data = <<>>
  <2>1. rx \in Seq(Nat) /\ data \in Seq(Nat) /\ Len(rx) + Len(data) - 0 = 0
    BY <1>2, <1>3 DEF TransportTypes, Left
  <2>2. Len(rx) \in Nat /\ Len(data) \in Nat BY <2>1
  <2>3. Len(rx) = 0 /\ Len(data) = 0 BY <2>1, <2>2
  <2> QED BY <2>1, <2>3
<1>5. host = "status" /\ packets = <<>> /\ cbw_count = 0
  BY <1>1, <1>2, <1>4 DEF StagesMatch, TransportTypes
<1>6. /\ scsi_state' = "SEND_CSW" => packets' = <<>>
      /\ packets' # <<>> => packets' = <<packets'[1]>>
  <2>1. CASE SendCswPrep(error) BY <1>5, <2>1 DEF SendCswPrep, in_ep
  <2>2. CASE SendCsw
    <3>1. PICK p : packets' = Append(<<>>, p) BY <1>5, <2>2 DEF SendCsw, Tx
    <3>2. packets' = <<p>> BY <3>1
    <3> QED BY <2>2, <3>2 DEF SendCsw
  <2> QED BY <2>1, <2>2
<1>7. CbwLeft' = 0 /\ Left' = 0 BY <1>1, <1>3, <1>4 DEF CbwLeft, Left
<1>8. ~Preparing /\ ~Preparing' /\ ~Forwarding /\ ~Forwarding'
  BY <1>1, <1>4 DEF Preparing, Forwarding
<1>9. TransportTypes' BY <1>1, <1>2 DEF TransportTypes
<1>10. StagesMatch' BY <1>1, <1>2, <1>4, <1>5, <1>6, <1>7 DEF StagesMatch
<1>11. CommandCarried' BY <1>1, <1>7, <1>8 DEF CommandCarried
<1> QED BY <1>3, <1>7, <1>8, <1>9, <1>10, <1>11 DEF TransportInv

\* No other state of the handler is reached.
LEMMA HandlerAlone ==
  ASSUME TransportInv, ScsiAlone
  PROVE  ReceiveCbw \/ SendCsw
BY DEF TransportInv, TransportTypes, ScsiAlone, SendResponse, SendZerosCont, SendSector, SendShortData

-----------------------------------------------------------------------------
(* The stream. *)

LEMMA Stepped ==
  ASSUME NEW m \in Nat \ {0}, NEW p \in Nat
  PROVE  /\ p \div m \in Nat /\ p % m \in 0 .. m - 1
         /\ p % m < m - 1 => (p + 1) \div m = p \div m /\ (p + 1) % m = (p % m) + 1
         /\ p % m = m - 1 => (p + 1) \div m = p \div m + 1 /\ (p + 1) % m = 0
<1> DEFINE q == p \div m
           r == p % m
<1>1. q \in Nat /\ r \in 0 .. m - 1 /\ p = m * q + r BY SMT
<1> HIDE DEF q, r
<1>2. ASSUME r < m - 1 PROVE (p + 1) \div m = q /\ (p + 1) % m = r + 1
  <2> DEFINE P == p + 1
             R == r + 1
  <2>1. P \in Nat /\ R \in 0 .. m - 1 /\ P = m * q + R BY <1>1, <1>2
  <2> HIDE DEF P, R
  <2>2. P % m = R /\ P \div m = q BY <1>1, <2>1, Divided
  <2> QED BY <2>2 DEF P, R
<1>3. ASSUME r = m - 1 PROVE (p + 1) \div m = q + 1 /\ (p + 1) % m = 0
  <2>1. m * (q + 1) = m * q + m BY <1>1, SMT
  <2>2. m * q \in Nat /\ m * (q + 1) \in Nat BY <1>1, SMT
  <2>3. p + 1 = m * (q + 1) + 0 BY <1>1, <1>3, <2>1, <2>2
  <2>4. 0 \in 0 .. m - 1 /\ q + 1 \in Nat /\ p + 1 \in Nat BY <1>1
  <2> DEFINE P == p + 1
             Q == q + 1
  <2>5. P \in Nat /\ Q \in Nat /\ P = m * Q + 0 /\ 0 \in 0 .. m - 1 BY <2>3, <2>4
  <2> HIDE DEF P, Q
  <2>6. P % m = 0 /\ P \div m = Q BY <2>5, Divided
  <2> QED BY <2>6 DEF P, Q
<1> QED BY <1>1, <1>2, <1>3 DEF q, r

LEMMA Moved ==
  ASSUME NEW m \in Nat \ {0}, NEW q \in Nat, NEW x \in Nat
  PROVE  /\ (q * m + x) \div m = q + x \div m /\ (q * m + x) % m = x % m
         /\ q * m + x \in Nat
<1> DEFINE d == x \div m
           r == x % m
<1>1. d \in Nat /\ r \in 0 .. m - 1 /\ x = m * d + r BY SMT
<1> HIDE DEF d, r
<1>2. q * m + x = m * (q + d) + r /\ q * m \in Nat BY <1>1, SMT
<1>3. q + d \in Nat /\ q * m + x \in Nat BY <1>1, <1>2
<1>4. (q * m + x) % m = r /\ (q * m + x) \div m = q + d BY <1>1, <1>2, <1>3, Divided
<1> QED BY <1>3, <1>4 DEF d, r

LEMMA Started ==
  ASSUME NEW m \in Nat \ {0}, NEW q \in Nat
  PROVE  (q * m) \div m = q /\ (q * m) % m = 0 /\ q * m \in Nat
<1>1. q * m = m * q + 0 /\ q * m \in Nat BY SMT
<1>2. 0 \in 0 .. m - 1 OBVIOUS
<1> QED BY <1>1, <1>2, Divided

LEMMA LeftCounts ==
  ASSUME TransportInv
  PROVE  Left \in Nat
<1>1. rx \in Seq(Nat) /\ data \in Seq(Nat) /\ CbwLeft <= Len(rx) /\ CbwLeft \in Nat
  <2>1. rx \in Seq(Nat) /\ data \in Seq(Nat) /\ cbw_count \in 0 .. 4
    BY DEF TransportInv, TransportTypes, CbwLen
  <2>2. CbwLeft <= Len(rx) BY DEF TransportInv, StagesMatch
  <2> QED BY <2>1, <2>2 DEF CbwLeft, CbwLen
<1>2. Len(rx) \in Nat /\ Len(data) \in Nat BY <1>1
<1> QED BY <1>1, <1>2 DEF Left

\* A step that takes no token of the data.
LEMMA StreamKept ==
  ASSUME StreamInv, UNCHANGED <<uf2_state, byte_count, uf2_header, data_count, file, chunk>>,
         written' \in Nat, Left' = Left, EndSector' = EndSector,
         \A j \in 1 .. Left : Coming(j)' = Coming(j),
         Forwarding => Forwarding',
         (Preparing' /\ Left > 0) \/ Forwarding' => (Preparing /\ Left > 0) \/ Forwarding
  PROVE  StreamInv'
<1>1. StreamTypes /\ FileRead /\ StrayRead /\ (byte_count = 0 => uf2_state = "HEADER")
  BY DEF StreamInv
<1>2. Pos' = Pos /\ Whole' = Whole /\ Cur' = Cur BY DEF Pos, Whole, Cur
<1>3. \A p : FileToken(p)' = FileToken(p) BY DEF FileToken
<1>4. \A s : Decoded(s)' = Decoded(s)
  BY DEF Decoded, HeaderRead, BlockRead, uf2_header
<1>5. StreamTypes' BY <1>1, <1>2 DEF StreamTypes
<1>6. FileRead'
  <2> SUFFICES ASSUME chunk # 0
               PROVE  /\ byte_count = Pos % SectorLen
                      /\ byte_count > 0 => Decoded(Cur)
                      /\ \A j \in 1 .. Left : Coming(j)' = FileToken(Pos + j)
    BY <1>2, <1>3, <1>4 DEF FileRead
  <2> QED BY <1>1 DEF FileRead
<1>7. StrayRead'
  <2> SUFFICES ASSUME chunk = 0
               PROVE  /\ ~Forwarding' => byte_count = 0
                      /\ (Preparing' /\ Left > 0) \/ Forwarding' =>
                           /\ Left + byte_count = SectorLen
                           /\ \E s \in Strays :
                                Decoded(s) /\ \A j \in 1 .. Left : Coming(j)' = s[byte_count + j]
    BY <1>4 DEF StrayRead
  <2>1. ~Forwarding' => byte_count = 0 BY <1>1 DEF StrayRead
  <2>2. ASSUME (Preparing' /\ Left > 0) \/ Forwarding'
        PROVE  /\ Left + byte_count = SectorLen
               /\ \E s \in Strays :
                    Decoded(s) /\ \A j \in 1 .. Left : Coming(j)' = s[byte_count + j]
    <3>1. /\ Left + byte_count = SectorLen
          /\ \E s \in Strays :
               Decoded(s) /\ \A j \in 1 .. Left : Coming(j) = s[byte_count + j]
      BY <1>1, <2>2 DEF StrayRead
    <3> QED BY <3>1
  <2> QED BY <2>1, <2>2
<1> QED BY <1>1, <1>5, <1>6, <1>7 DEF StreamInv

\* Between commands the host is at the end of a sector.
LEMMA HostBetween ==
  ASSUME TransportInv, StreamTypes, host = "idle"
  PROVE  /\ written \in Nat /\ written <= Len(file) /\ Pos = written * SectorLen
         /\ Left = 0 /\ scsi_state = "RECEIVE_CBW"
<1>1. Left = 0 /\ scsi_state = "RECEIVE_CBW" BY NothingLeft
<1>2. EndSector = written BY DEF EndSector
<1>3. written \in Nat /\ written <= Len(file) BY <1>2 DEF StreamTypes
<1>4. written * SectorLen \in Nat BY <1>3, Sizes, SMT
<1> DEFINE x == written * SectorLen
<1>5. Pos = x - 0 BY <1>1, <1>2 DEF Pos
<1>6. x \in Nat BY <1>4
<1> HIDE DEF x
<1>7. Pos = x BY <1>5, <1>6
<1> QED BY <1>1, <1>3, <1>7 DEF x

\* Between commands the decoder is at the start of a sector.
LEMMA SectorStart ==
  ASSUME TransportInv, StreamInv, host = "idle"
  PROVE  byte_count = 0 /\ uf2_state = "HEADER" /\ written \in Nat /\ written <= Len(file)
         /\ Pos = written * SectorLen
<1>1. /\ written \in Nat /\ written <= Len(file) /\ Pos = written * SectorLen
      /\ Left = 0 /\ scsi_state = "RECEIVE_CBW"
  BY HostBetween DEF StreamInv
<1>2. byte_count = 0
  <2>1. CASE chunk = 0 BY <1>1, <2>1 DEF StreamInv, StrayRead, Forwarding
  <2>2. CASE chunk # 0
    <3>1. byte_count = Pos % SectorLen BY <2>2 DEF StreamInv, FileRead
    <3>2. (written * SectorLen) % SectorLen = 0 BY <1>1, Sizes, Started
    <3> QED BY <1>1, <3>1, <3>2
  <2> QED BY <2>1, <2>2
<1> QED BY <1>1, <1>2 DEF StreamInv

\* The sectors of a file.
LEMMA FileSectors ==
  ASSUME file \in Files, file # <<>>
  PROVE  /\ file \in Seq([1 .. SectorLen -> Nat]) /\ Len(file) \in Nat \ {0}
         /\ \A k \in 1 .. Len(file) : file[k] \in [1 .. SectorLen -> Nat]
<1>1. file \in Seq([1 .. SectorLen -> Word]) BY UploadAssumption
<1>2. \A k \in 1 .. Len(file) : file[k] \in [1 .. SectorLen -> Nat]
  <2>1. \A k \in 1 .. Len(file) : file[k] \in [1 .. SectorLen -> Word] BY <1>1
  <2> QED BY <2>1, Sizes
<1>3. file \in Seq([1 .. SectorLen -> Nat]) /\ Len(file) \in Nat
  <2>1. Len(file) \in Nat /\ file = [k \in 1 .. Len(file) |-> file[k]] BY <1>1
  <2>2. file \in [1 .. Len(file) -> [1 .. SectorLen -> Nat]] BY <1>2, <2>1
  <2> QED BY <2>1, <2>2
<1>4. Len(file) # 0 BY <1>1
<1> QED BY <1>2, <1>3, <1>4

\* A file of UF2 blocks, and its sectors.
LEMMA PlainSectors ==
  ASSUME PlainUploads, StreamTypes
  PROVE  /\ file \in Files /\ file \in Seq([1 .. SectorLen -> Nat]) /\ Len(file) \in Nat \ {0}
         /\ \A k \in 1 .. Len(file) : PlainBlock(file[k]) /\ file[k] \in [1 .. SectorLen -> Nat]
<1>1. file \in Files /\ PlainFile(file) BY DEF StreamTypes, PlainUploads
<1>2. file # <<>> /\ \A k \in 1 .. Len(file) : PlainBlock(file[k]) BY <1>1 DEF PlainFile
<1> QED BY <1>1, <1>2, FileSectors

\* The next sectors of the file, as the host sends them.
LEMMA FileIssued ==
  ASSUME TransportInv, StreamTypes, file # <<>>, NEW n \in {1, Len(file)}, WriteFile(n)
  PROVE  /\ TransportInv' /\ Pos' = Pos /\ Pos % SectorLen = 0 /\ Pos \in Nat
         /\ Len(data') = n * SectorLen /\ n \in Nat /\ chunk' # 0 /\ chunk' \in Nat
         /\ written \in Nat /\ EndSector' <= Len(file) /\ ~Forwarding'
         /\ \A j \in 1 .. Left' : Coming(j)' = FileToken(Pos + j)'
<1> DEFINE S == SectorLen
           wr == written
           L == n * S
<1>1. /\ written + n <= Len(file) /\ Issue(OP_WRITE_10, n * SectorLen, 0)
      /\ data' = Stream(n) /\ chunk' = n /\ host' = "data_out"
  BY DEF WriteFile
<1>2. UNCHANGED <<uf2_state, byte_count, uf2_header, data_count, file, written>> /\ host = "idle"
  BY <1>1 DEF Issue, uf2
<1>4. /\ file \in Files /\ file \in Seq([1 .. SectorLen -> Nat]) /\ Len(file) \in Nat \ {0}
      /\ \A k \in 1 .. Len(file) : file[k] \in [1 .. SectorLen -> Nat]
  BY FileSectors DEF StreamTypes
<1>5. n \in Nat \ {0} /\ S \in Nat \ {0} BY <1>4, Sizes
<1>6. wr \in Nat /\ Pos = wr * S /\ wr + n <= Len(file)
  BY <1>1, <1>2, HostBetween
<1>7. L \in Nat \ {0}
  <2>1. \A x, y \in Nat \ {0} : x * y \in Nat \ {0} BY SMT
  <2> QED BY <1>5, <2>1
<1>8. ASSUME NEW k \in 1 .. L
      PROVE  /\ wr + 1 + (k - 1) \div S \in 1 .. Len(file)
             /\ 1 + ((k - 1) % S) \in 1 .. S
             /\ data'[k] = file[wr + 1 + (k - 1) \div S][1 + ((k - 1) % S)]
  <2>1. k - 1 \in Nat /\ k - 1 < L BY <1>7
  <2> DEFINE q == (k - 1) \div S
             r == (k - 1) % S
  <2>2. q \in Nat /\ r \in 0 .. S - 1 /\ k - 1 = S * q + r BY <1>5, <2>1, SMT
  <2>3. q < n
    <3> SUFFICES ASSUME ~(q < n) PROVE FALSE OBVIOUS
    <3> HIDE DEF q, r, S
    <3>1. PICK x \in Nat : q = n + x BY <1>5, <2>2
    <3>2. S * q = n * S + S * x /\ S * x \in Nat BY <1>5, <3>1, SMT
    <3>3. n * S \in Nat /\ n * S = L BY <1>7
    <3>4. r \in Nat BY <1>5, <2>2
    <3> QED BY <2>1, <2>2, <3>2, <3>3, <3>4
  <2> HIDE DEF q, r
  <2>4. wr + 1 + q \in 1 .. Len(file) /\ 1 + r \in 1 .. S BY <1>4, <1>5, <1>6, <2>2, <2>3
  <2>5. data'[k] = file[wr + 1 + q][1 + r] BY <1>1 DEF Stream, q, r
  <2> QED BY <2>4, <2>5 DEF q, r
<1>9. data' \in Seq(Nat) /\ Len(data') = L
  <2>1. data' = [k \in 1 .. L |-> file[wr + 1 + (k - 1) \div S][1 + ((k - 1) % S)]]
    BY <1>1 DEF Stream
  <2>2. \A k \in 1 .. L : data'[k] \in Nat
    <3> SUFFICES ASSUME NEW k \in 1 .. L PROVE data'[k] \in Nat OBVIOUS
    <3> DEFINE a == wr + 1 + (k - 1) \div S
               b == 1 + ((k - 1) % S)
    <3>1. a \in 1 .. Len(file) /\ b \in 1 .. S /\ data'[k] = file[a][b] BY <1>8
    <3> HIDE DEF a, b
    <3>2. file[a] \in [1 .. S -> Nat] BY <1>4, <3>1
    <3> QED BY <3>1, <3>2
  <2> HIDE DEF L, S
  <2>3. data' \in [1 .. L -> Nat] BY <2>1, <2>2
  <2> QED BY <1>7, <2>3
<1>10. /\ TransportInv' /\ Left' = L
       /\ \A j \in 1 .. L : Coming(j)' = data'[j]
  <2>1. OP_WRITE_10 \in Nat /\ 0 \in Nat BY DEF OP_WRITE_10
  <2>2. L > 0 /\ L \in Nat BY <1>7
  <2> HIDE DEF L
  <2>3. Issue(OP_WRITE_10, L, 0) BY <1>1 DEF L
  <2> QED BY <1>1, <1>9, <2>1, <2>2, <2>3, IssueStep
<1>11. EndSector' = wr + n /\ chunk' # 0 BY <1>1, <1>2, <1>5 DEF EndSector
<1>12. Pos' = wr * S
  <2>1. (wr + n) * S = wr * S + n * S /\ wr * S \in Nat BY <1>5, <1>6, SMT
  <2>2. Pos' = (wr + n) * S - L BY <1>10, <1>11 DEF Pos
  <2> DEFINE x == wr * S
  <2>3. x \in Nat /\ Pos' = (x + L) - L BY <2>1, <2>2
  <2> HIDE DEF x, L
  <2>4. Pos' = x BY <1>7, <2>3
  <2> QED BY <2>4 DEF x
<1>13. ASSUME NEW j \in 1 .. L PROVE Coming(j)' = FileToken(wr * S + j)
  <2> DEFINE x == j - 1
             p == wr * S
  <2>1. x \in Nat /\ p \in Nat /\ (p + j) - 1 = p + x BY <1>5, <1>6, <1>7, Started
  <2>2. (p + x) \div S = wr + x \div S /\ (p + x) % S = x % S BY <1>5, <1>6, <2>1, Moved
  <2>3. FileToken(p + j) = file[1 + ((p + j) - 1) \div S][1 + (((p + j) - 1) % S)] BY DEF FileToken
  <2>4. x \div S \in Nat BY <1>5, <2>1
  <2>5. 1 + (wr + x \div S) = wr + 1 + x \div S BY <1>6, <2>4
  <2>6. data'[j] = file[wr + 1 + x \div S][1 + (x % S)] BY <1>8
  <2>7. FileToken(p + j) = data'[j] BY <2>1, <2>2, <2>3, <2>5, <2>6
  <2> QED BY <1>10, <2>7
<1>14. \A j \in 1 .. L : Coming(j)' = FileToken(Pos + j)'
  <2> SUFFICES ASSUME NEW j \in 1 .. L PROVE Coming(j)' = FileToken(Pos + j)' OBVIOUS
  <2>1. PICK i : i = wr * S + j OBVIOUS
  <2>2. Coming(j)' = FileToken(i) BY <1>13, <2>1
  <2>3. FileToken(Pos + j)' = FileToken(i)
    <3>1. Pos' + j = i BY <1>12, <2>1
    <3> QED BY <1>2, <3>1 DEF FileToken
  <2> QED BY <2>2, <2>3
<1>15. Pos % SectorLen = 0 /\ Pos \in Nat BY <1>5, <1>6, Started
<1>16. EndSector' <= Len(file) /\ chunk' \in Nat BY <1>1, <1>5, <1>6, <1>11
<1>17. ~Forwarding'
  <2>1. scsi_state = "RECEIVE_CBW" BY <1>2, HostBetween
  <2>2. scsi_state' = scsi_state BY <1>1 DEF Issue
  <2> QED BY <2>1, <2>2 DEF Forwarding
<1> QED BY <1>5, <1>6, <1>9, <1>10, <1>11, <1>12, <1>14, <1>15, <1>16, <1>17

LEMMA WriteFileStep ==
  ASSUME PlainUploads, TransportInv, StreamInv, NEW n \in {1, Len(file)}, WriteFile(n)
  PROVE  TransportInv' /\ StreamInv' /\ Pos' = Pos
<1>1. /\ UNCHANGED <<uf2_state, byte_count, uf2_header, data_count, file, written>>
      /\ host = "idle" /\ host' = "data_out"
  BY DEF WriteFile, Issue, uf2
<1>2. StreamTypes /\ file # <<>> BY PlainSectors DEF StreamInv
<1>3. /\ TransportInv' /\ Pos' = Pos /\ Pos % SectorLen = 0 /\ Pos \in Nat
      /\ chunk' # 0 /\ chunk' \in Nat /\ written \in Nat /\ EndSector' <= Len(file)
      /\ \A j \in 1 .. Left' : Coming(j)' = FileToken(Pos + j)'
  BY <1>2, FileIssued
<1>4. byte_count = 0 /\ uf2_state = "HEADER" BY <1>1, SectorStart
<1>5. FileRead'
  <2>1. byte_count' = 0 /\ Pos' % SectorLen = 0 BY <1>1, <1>3, <1>4
  <2> QED BY <1>3, <2>1 DEF FileRead
<1>6. StrayRead' BY <1>3 DEF StrayRead
<1>7. StreamTypes' BY <1>1, <1>2, <1>3 DEF StreamTypes
<1> QED BY <1>1, <1>3, <1>4, <1>5, <1>6, <1>7 DEF StreamInv

\* A sector that is not part of the file.
LEMMA StrayIssued ==
  ASSUME TransportInv, StreamTypes, NEW s \in [1 .. SectorLen -> Nat],
         NEW lba \in {0, BlockCount}, WriteStray(s, lba)
  PROVE  /\ TransportInv' /\ StreamTypes' /\ Pos' = Pos /\ ~Forwarding'
         /\ Left' = SectorLen /\ Len(data') = SectorLen /\ chunk' = 0
         /\ \A j \in 1 .. SectorLen : Coming(j)' = s[j]
<1>1. /\ Issue(OP_WRITE_10, SectorLen, lba) /\ data' = s /\ chunk' = 0 /\ host' = "data_out"
  BY DEF WriteStray
<1>2. UNCHANGED <<uf2_state, byte_count, uf2_header, data_count, file, written>> /\ host = "idle"
  BY <1>1 DEF Issue, uf2
<1>4. written \in Nat /\ written <= Len(file) /\ Pos = written * SectorLen
  BY <1>2, HostBetween
<1>5. SectorLen \in Nat \ {0} BY Sizes
<1>6. data' \in Seq(Nat) /\ Len(data') = SectorLen BY <1>1, <1>5
<1>7. OP_WRITE_10 \in Nat /\ lba \in Nat BY Sizes DEF OP_WRITE_10
<1>8. /\ TransportInv' /\ Left' = SectorLen /\ ~Forwarding'
      /\ \A j \in 1 .. SectorLen : Coming(j)' = data'[j]
  BY <1>1, <1>5, <1>6, <1>7, IssueStep
<1>9. EndSector' = written BY <1>1, <1>2, <1>4 DEF EndSector
<1>10. Pos' = Pos /\ Pos \in Nat
  <2>1. written * SectorLen \in Nat BY <1>4, <1>5, Started
  <2> DEFINE x == written * SectorLen
  <2>2. x \in Nat /\ Pos' = x - 0 BY <1>1, <1>9, <2>1 DEF Pos
  <2> HIDE DEF x
  <2>3. Pos' = x BY <2>2
  <2> QED BY <1>4, <2>2, <2>3 DEF x
<1>11. StreamTypes' BY <1>1, <1>2, <1>4, <1>9, <1>10 DEF StreamTypes
<1> QED BY <1>1, <1>6, <1>8, <1>10, <1>11

LEMMA WriteStrayStep ==
  ASSUME PlainUploads, TransportInv, StreamInv,
         NEW s \in Strays, NEW lba \in {0, BlockCount}, WriteStray(s, lba)
  PROVE  TransportInv' /\ StreamInv' /\ Pos' = Pos
<1>1. /\ UNCHANGED <<uf2_state, byte_count, uf2_header, data_count>> /\ host = "idle" /\ chunk' = 0
  BY DEF WriteStray, Issue, uf2
<1>2. byte_count = 0 /\ uf2_state = "HEADER" BY <1>1, SectorStart
<1>3. s \in [1 .. SectorLen -> Nat] /\ SectorLen \in Nat \ {0} BY Sizes DEF PlainUploads
<1>4. /\ TransportInv' /\ StreamTypes' /\ Pos' = Pos /\ ~Forwarding'
      /\ Left' = SectorLen /\ \A j \in 1 .. SectorLen : Coming(j)' = s[j]
  BY <1>3, StrayIssued DEF StreamInv
<1>5. FileRead' BY <1>1 DEF FileRead
<1>6. StrayRead'
  <2>1. Decoded(s)' BY <1>1, <1>2 DEF Decoded, HeaderRead, HeaderLen
  <2>2. \A j \in 1 .. Left' : Coming(j)' = s[0 + j] BY <1>3, <1>4
  <2>3. Left' + byte_count' = SectorLen /\ byte_count' = 0 BY <1>1, <1>2, <1>3, <1>4
  <2> QED BY <2>1, <2>2, <2>3 DEF StrayRead
<1>7. byte_count' = 0 => uf2_state' = "HEADER" BY <1>1, <1>2
<1> QED BY <1>4, <1>5, <1>6, <1>7 DEF StreamInv

LEMMA TestUnitReadyStep ==
  ASSUME TransportInv, StreamInv, TestUnitReady
  PROVE  TransportInv' /\ StreamInv' /\ Pos' = Pos
<1>1. /\ Issue(OP_TEST_UNIT_READY, 0, 0) /\ data' = data /\ chunk' = chunk /\ host' = "status"
  BY DEF TestUnitReady
<1>2. UNCHANGED <<uf2_state, byte_count, uf2_header, data_count, file, written>> /\ host = "idle"
  BY <1>1 DEF Issue, uf2
<1>3. data = <<>> /\ data' \in Seq(Nat) /\ Len(data') = 0 BY <1>1, <1>2, NothingLeft
<1>4. OP_TEST_UNIT_READY \in Nat /\ 0 \in Nat /\ ~(0 > 0) BY DEF OP_TEST_UNIT_READY
<1>5. TransportInv' /\ Left = 0 /\ Left' = 0 /\ ~Forwarding /\ ~Forwarding'
  BY <1>1, <1>3, <1>4, IssueStep
<1>6. EndSector' = EndSector BY <1>1, <1>2 DEF EndSector
<1>7. written' \in Nat BY <1>2 DEF StreamInv, StreamTypes
<1>8. StreamInv' BY <1>1, <1>2, <1>5, <1>6, <1>7, StreamKept
<1>9. Pos' = Pos BY <1>1, <1>5, <1>6 DEF Pos
<1> QED BY <1>5, <1>8, <1>9

\* The other steps that take no token of the data.
Untouched == UNCHANGED <<uf2_state, byte_count, uf2_header, data_count, file, chunk>>

LEMMA HostStreamStep ==
  ASSUME TransportInv, StreamInv, HostStep
  PROVE  TransportInv' /\ StreamInv' /\ Pos' = Pos
<1>1. Untouched BY DEF Untouched, HostStep, SendPacket, TakeStatus, uf2
<1>2. CASE SendPacket
  <2>1. /\ TransportInv' /\ Left' = Left /\ Preparing' = Preparing /\ Forwarding' = Forwarding
        /\ EndSector' = EndSector /\ \A j \in 1 .. Left : Coming(j)' = Coming(j)
    BY <1>2, SendStep
  <2>2. written' \in Nat BY <1>2 DEF SendPacket, StreamInv, StreamTypes
  <2>3. StreamInv' BY <1>1, <2>1, <2>2, StreamKept DEF Untouched
  <2>4. Pos' = Pos BY <1>1, <2>1 DEF Pos, Untouched
  <2> QED BY <2>1, <2>3, <2>4
<1>3. CASE TakeStatus
  <2>1. /\ TransportInv' /\ Left = 0 /\ Left' = 0 /\ ~Forwarding /\ ~Forwarding'
        /\ EndSector' = EndSector
    BY <1>3, TakeStatusStep
  <2>2. written' \in Nat BY <1>3 DEF TakeStatus, StreamInv, StreamTypes
  <2>3. StreamInv' BY <1>1, <2>1, <2>2, StreamKept DEF Untouched
  <2>4. Pos' = Pos BY <1>1, <2>1 DEF Pos, Untouched
  <2> QED BY <2>1, <2>3, <2>4
<1> QED BY <1>2, <1>3 DEF HostStep

LEMMA HandlerStreamStep ==
  ASSUME PlainUploads, TransportInv, StreamInv, Untouched, UNCHANGED <<host, data, written>>,
         ScsiAlone \/ SendCswPrep(error) \/ Dispatch
  PROVE  TransportInv' /\ StreamInv' /\ Pos' = Pos
<1>1. /\ written' \in Nat /\ chunk' = chunk /\ EndSector' = EndSector
  BY DEF StreamInv, StreamTypes, Untouched, EndSector
<1>2. CASE ReceiveCbw
  <2>1. /\ TransportInv' /\ Left' = Left /\ Preparing /\ Preparing'
        /\ \A j \in 1 .. Left : Coming(j)' = Coming(j)
    BY <1>1, <1>2, ReceiveCbwStep
  <2>2. ~Forwarding /\ ~Forwarding' BY <2>1 DEF Preparing, Forwarding
  <2>3. StreamInv' BY <1>1, <2>1, <2>2, StreamKept DEF Untouched
  <2> QED BY <1>1, <2>1, <2>3 DEF Pos
<1>3. CASE Dispatch
  <2>1. /\ TransportInv' /\ Left' = Left /\ Preparing /\ ~Preparing' /\ ~Forwarding
        /\ Forwarding' => Left > 0
        /\ \A j : Coming(j)' = Coming(j)
    BY <1>1, <1>3, DispatchStep DEF PlainUploads
  <2>2. StreamInv' BY <1>1, <2>1, StreamKept DEF Untouched
  <2> QED BY <1>1, <2>1, <2>2 DEF Pos
<1>4. CASE SendCswPrep(error) \/ SendCsw
  <2>1. /\ TransportInv' /\ Left = 0 /\ Left' = 0 /\ ~Preparing' /\ ~Forwarding /\ ~Forwarding'
    BY <1>1, <1>4, StatusStep
  <2>2. StreamInv' BY <1>1, <2>1, StreamKept DEF Untouched
  <2> QED BY <1>1, <2>1, <2>2 DEF Pos
<1> QED BY <1>2, <1>3, <1>4, HandlerAlone

\* A token of a sector, state by state.
LEMMA SmallRemainder == ASSUME NEW m \in Nat \ {0}, NEW r \in 0 .. m - 1 PROVE r % m = r
OBVIOUS

LEMMA PlainBlockFits ==
  ASSUME NEW s \in [1 .. SectorLen -> Nat], PlainBlock(s)
  PROVE  /\ s[4] \in Nat /\ s[5] \in Nat \ {0} /\ s[5] < Room /\ IsBlock(s)
         /\ FirstOf(s) \in Nat /\ EndOf(s) = FirstOf(s) + s[5] /\ EndOf(s) <= AddrSpace
         /\ EndOf(s) \in Nat
         /\ Target(s[4]) = FirstOf(s)
<1>1. 4 \in 1 .. SectorLen /\ 5 \in 1 .. SectorLen /\ Room \in Nat /\ base_addr \in Nat
      /\ AddrSpace \in Nat \ {0}
  BY Sizes
<1>2. s[4] \in Nat /\ s[5] \in Nat /\ s[5] \in 1 .. Room - 1 BY <1>1 DEF PlainBlock
<1>3. s[5] \in Nat \ {0} /\ s[5] < Room BY <1>1, <1>2
<1>4. IsBlock(s) /\ EndOf(s) <= AddrSpace BY DEF PlainBlock
<1>5. FirstOf(s) \in Nat /\ EndOf(s) = FirstOf(s) + s[5] /\ EndOf(s) \in Nat
  BY <1>1, <1>2 DEF FirstOf, EndOf
<1>6. Target(s[4]) = FirstOf(s)
  <2> DEFINE f == FirstOf(s)
  <2>1. f \in 0 .. AddrSpace - 1 BY <1>1, <1>3, <1>4, <1>5
  <2>2. Target(s[4]) = f % AddrSpace BY DEF Target, FirstOf
  <2> HIDE DEF f
  <2>3. f % AddrSpace = f BY <1>1, <2>1
  <2> QED BY <2>2, <2>3 DEF f
<1> QED BY <1>2, <1>3, <1>4, <1>5, <1>6

\* A word of the header, whatever sector it is a word of.
LEMMA HeaderReads ==
  ASSUME NEW s, byte_count \in 0 .. 7, HeaderRead(s), Header(s[byte_count + 1])
  PROVE  /\ byte_count' = byte_count + 1
         /\ \/ uf2_state' = "DISCARD" /\ ~IsBlock(s)
            \/ uf2_state' = "HEADER" /\ byte_count < 7 /\ HeaderRead(s)'
            \/ /\ uf2_state' = "DATA" /\ byte_count = 7 /\ IsBlock(s)
               /\ target_addr' = Target(s[4]) /\ payload_size' = s[5]
               /\ blockNo' = s[6] /\ numBlocks' = s[7] /\ data_count' = 0
<1> DEFINE t == s[byte_count + 1]
           b == byte_count
<1>1. /\ uf2_state = "HEADER" /\ b' = NextCount
      /\ flags' = Field(2, flags, t) /\ target_addr' = Field(3, target_addr, Target(t))
      /\ payload_size' = Field(4, payload_size, t) /\ blockNo' = Field(5, blockNo, t)
      /\ numBlocks' = Field(6, numBlocks, t)
      /\ data_count' = IF b = 7 /\ ~NotMainFlash(flags) THEN 0 ELSE data_count
      /\ uf2_state' = IF Foreign(t) THEN "DISCARD" ELSE IF b = 7 THEN "DATA" ELSE "HEADER"
  BY DEF Header
<1>2. b \in 0 .. 7 /\ HeaderRead(s) OBVIOUS
<1>3. b' = b + 1
  <2>1. b + 1 \in 0 .. SectorLen - 1 /\ SectorLen \in Nat \ {0} BY <1>2, Sizes
  <2>2. (b + 1) % SectorLen = b + 1 BY <2>1, SmallRemainder
  <2> QED BY <1>1, <2>2 DEF NextCount
<1>5. CASE Foreign(t)
  <2>1. uf2_state' = "DISCARD" BY <1>1, <1>5
  <2>2. ~IsBlock(s) BY <1>2, <1>5 DEF Foreign, HeaderRead, IsBlock
  <2> QED BY <1>3, <2>1, <2>2
<1>6. CASE ~Foreign(t) /\ b < 7
  <2>1. uf2_state' = "HEADER" BY <1>1, <1>6
  <2>2. s[1] = MAGIC_START0 /\ (b > 0 => s[2] = MAGIC_START1)
    <3>1. CASE b = 0 BY <1>6, <3>1 DEF Foreign
    <3>2. CASE b = 1 BY <1>2, <1>6, <3>2 DEF Foreign, HeaderRead
    <3>3. CASE b > 1 BY <1>2, <3>3 DEF HeaderRead
    <3> QED BY <1>2, <3>1, <3>2, <3>3
  <2>3. /\ b > 1 => flags' = s[3]
        /\ b > 2 => target_addr' = Target(s[4])
        /\ b > 3 => payload_size' = s[5]
        /\ b > 4 => blockNo' = s[6]
        /\ b > 5 => numBlocks' = s[7]
    <3> USE <1>1, <1>2 DEF Field, HeaderRead
    <3>1. b > 1 => flags' = s[3]
      <4>1. CASE b = 2 BY <4>1
      <4>2. CASE b > 2 BY <4>2
      <4> QED BY <4>1, <4>2
    <3>2. b > 2 => target_addr' = Target(s[4])
      <4>1. CASE b = 3 BY <4>1
      <4>2. CASE b > 3 BY <4>2
      <4> QED BY <4>1, <4>2
    <3>3. b > 3 => payload_size' = s[5]
      <4>1. CASE b = 4 BY <4>1
      <4>2. CASE b > 4 BY <4>2
      <4> QED BY <4>1, <4>2
    <3>4. b > 4 => blockNo' = s[6]
      <4>1. CASE b = 5 BY <4>1
      <4>2. CASE b > 5 BY <4>2
      <4> QED BY <4>1, <4>2
    <3>5. b > 5 => numBlocks' = s[7]
      <4>1. CASE b = 6 BY <4>1
      <4>2. CASE b > 6 BY <4>2
      <4> QED BY <4>1, <4>2
    <3> QED BY <3>1, <3>2, <3>3, <3>4, <3>5
  <2>4. HeaderRead(s)' BY <1>2, <1>3, <2>2, <2>3 DEF HeaderRead
  <2> QED BY <1>3, <1>6, <2>1, <2>4
<1>7. CASE ~Foreign(t) /\ b = 7
  <2>1. uf2_state' = "DATA" /\ ~NotMainFlash(flags) BY <1>1, <1>7 DEF Foreign
  <2>2. /\ s[1] = MAGIC_START0 /\ s[2] = MAGIC_START1 /\ flags = s[3]
        /\ target_addr = Target(s[4]) /\ payload_size = s[5] /\ blockNo = s[6] /\ numBlocks = s[7]
    BY <1>2, <1>7 DEF HeaderRead
  <2>3. /\ target_addr' = Target(s[4]) /\ payload_size' = s[5] /\ blockNo' = s[6]
        /\ numBlocks' = s[7] /\ data_count' = 0
    BY <1>1, <1>7, <2>1, <2>2 DEF Field
  <2>4. IsBlock(s) BY <2>1, <2>2 DEF IsBlock
  <2> QED BY <1>3, <1>7, <2>1, <2>3, <2>4
<1> QED BY <1>2, <1>5, <1>6, <1>7

LEMMA HeaderStep ==
  ASSUME NEW s \in [1 .. SectorLen -> Nat], IsBlock(s) => PlainBlock(s),
         byte_count \in 0 .. LastToken, byte_count > 0 => Decoded(s), Header(s[byte_count + 1])
  PROVE  byte_count < HeaderLen /\ byte_count' = byte_count + 1 /\ Decoded(s)'
<1>1. byte_count \in 0 .. 7 /\ HeaderRead(s)
  <2>1. CASE byte_count = 0 BY <2>1 DEF HeaderRead
  <2>2. CASE byte_count > 0
    <3>1. uf2_state = "HEADER" BY DEF Header
    <3>2. byte_count < 8 /\ HeaderRead(s) BY <2>2, <3>1 DEF Decoded, HeaderLen
    <3> QED BY <2>2, <3>2
  <2> QED BY <2>1, <2>2
<1>2. byte_count < HeaderLen /\ byte_count' = byte_count + 1
  <2>1. byte_count' = byte_count + 1 BY <1>1, HeaderReads
  <2> QED BY <1>1, <2>1 DEF HeaderLen
<1>3. CASE uf2_state' = "DISCARD" /\ ~IsBlock(s)
  <2>1. byte_count' > 0 BY <1>1, <1>2
  <2> QED BY <1>2, <1>3, <2>1 DEF Decoded
<1>4. CASE uf2_state' = "HEADER" /\ byte_count < 7 /\ HeaderRead(s)'
  <2>1. byte_count' < 8 BY <1>1, <1>2, <1>4
  <2> QED BY <1>2, <1>4, <2>1 DEF Decoded, HeaderLen
<1>5. CASE /\ uf2_state' = "DATA" /\ byte_count = 7 /\ IsBlock(s)
           /\ target_addr' = Target(s[4]) /\ payload_size' = s[5]
           /\ blockNo' = s[6] /\ numBlocks' = s[7] /\ data_count' = 0
  <2>1. s[5] \in Nat \ {0} /\ Target(s[4]) = FirstOf(s) /\ FirstOf(s) \in Nat
    BY <1>5, PlainBlockFits
  <2>2. byte_count' = 8 BY <1>2, <1>5
  <2>3. data_count' \in 0 .. payload_size' /\ byte_count' = HeaderLen + data_count'
        /\ target_addr' = FirstOf(s) + data_count'
    BY <1>5, <2>1, <2>2 DEF HeaderLen
  <2>4. BlockRead(s)' BY <1>5 DEF BlockRead
  <2> QED BY <1>2, <1>5, <2>3, <2>4 DEF Decoded
<1> QED BY <1>1, <1>3, <1>4, <1>5, HeaderReads

LEMMA PayloadStep ==
  ASSUME NEW s \in [1 .. SectorLen -> Nat], IsBlock(s) => PlainBlock(s),
         byte_count \in 0 .. LastToken, byte_count > 0 => Decoded(s),
         byte_count = 0 => uf2_state = "HEADER", NEW t, Data(t)
  PROVE  /\ byte_count < LastToken /\ byte_count' = byte_count + 1 /\ Decoded(s)'
         /\ BlockRead(s) /\ data_count < s[5] /\ data_count \in Nat
         /\ byte_count = HeaderLen + data_count /\ target_addr = FirstOf(s) + data_count
         /\ uf2_state' = "DATA" /\ data_count' = data_count + 1
<1>1. /\ uf2_state = "DATA" /\ data_count # payload_size
      /\ target_addr' = (target_addr + 1) % AddrSpace
      /\ data_count' = data_count + 1 /\ byte_count' = NextCount
      /\ UNCHANGED <<uf2_state, payload_size, blockNo, numBlocks>>
  BY DEF Data, Emitting
<1>2. byte_count > 0 BY <1>1
<1>3. /\ BlockRead(s) /\ data_count \in 0 .. payload_size /\ byte_count = HeaderLen + data_count
      /\ data_count < payload_size => target_addr = FirstOf(s) + data_count
  BY <1>1, <1>2 DEF Decoded
<1>4. IsBlock(s) /\ payload_size = s[5] BY <1>3 DEF BlockRead
<1>5. /\ s[5] \in Nat \ {0} /\ s[5] < Room /\ FirstOf(s) \in Nat /\ EndOf(s) = FirstOf(s) + s[5]
      /\ EndOf(s) <= AddrSpace
  BY <1>4, PlainBlockFits
<1>6. data_count \in Nat /\ data_count < s[5] /\ byte_count = 8 + data_count
      /\ target_addr = FirstOf(s) + data_count
  BY <1>1, <1>3, <1>4, <1>5 DEF HeaderLen
<1>7. byte_count < LastToken /\ byte_count' = byte_count + 1
  <2>1. byte_count + 1 \in 0 .. SectorLen - 1 /\ SectorLen \in Nat \ {0} /\ byte_count < LastToken
    BY <1>5, <1>6, Sizes
  <2>2. (byte_count + 1) % SectorLen = byte_count + 1 BY <2>1, SmallRemainder
  <2> QED BY <1>1, <2>1, <2>2 DEF NextCount
<1>8. data_count + 1 < s[5] => target_addr' = FirstOf(s) + (data_count + 1)
  <2> SUFFICES ASSUME data_count + 1 < s[5] PROVE target_addr' = FirstOf(s) + (data_count + 1)
    OBVIOUS
  <2> DEFINE a == target_addr + 1
  <2> DEFINE f == FirstOf(s)
             e == EndOf(s)
             n == s[5]
  <2>1. f \in Nat /\ e = f + n /\ e <= AddrSpace /\ AddrSpace \in Nat \ {0} /\ n \in Nat
        /\ data_count \in Nat /\ data_count + 1 < n /\ target_addr = f + data_count
    BY <1>5, <1>6, Sizes
  <2>2. a = target_addr + 1 OBVIOUS
  <2> HIDE DEF a, f, e, n
  <2>3. a \in 0 .. AddrSpace - 1 /\ a = f + (data_count + 1) BY <2>1, <2>2
  <2>4. a \in 0 .. AddrSpace - 1 /\ AddrSpace \in Nat \ {0} /\ a = FirstOf(s) + (data_count + 1)
    BY <2>1, <2>3 DEF f
  <2>5. target_addr' = a % AddrSpace BY <1>1 DEF a
  <2>6. a % AddrSpace = a BY <2>4, SmallRemainder
  <2> QED BY <2>4, <2>5, <2>6
<1>9. data_count' \in 0 .. payload_size' /\ byte_count' = HeaderLen + data_count'
  BY <1>1, <1>4, <1>5, <1>6, <1>7 DEF HeaderLen
<1>10. BlockRead(s)' BY <1>1, <1>3 DEF BlockRead
<1>11. Decoded(s)' BY <1>1, <1>4, <1>8, <1>9, <1>10 DEF Decoded
<1> QED BY <1>1, <1>3, <1>6, <1>7, <1>11

LEMMA RestStep ==
  ASSUME NEW s, byte_count \in 0 .. LastToken, byte_count > 0 => Decoded(s),
         byte_count = 0 => uf2_state = "HEADER", NEW t, Pad(t) \/ Final(t) \/ Discard(t)
  PROVE  /\ byte_count < LastToken => byte_count' = byte_count + 1 /\ Decoded(s)'
         /\ byte_count = LastToken => byte_count' = 0 /\ uf2_state' = "HEADER"
<1>1. byte_count > 0 /\ uf2_state \in {"PAD", "FINAL", "DISCARD"} BY DEF Pad, Final, Discard
<1>2. Decoded(s) BY <1>1
<1>3. byte_count < LastToken => NextCount = byte_count + 1
  <2> SUFFICES ASSUME byte_count < LastToken PROVE NextCount = byte_count + 1 OBVIOUS
  <2>1. byte_count + 1 \in 0 .. SectorLen - 1 /\ SectorLen \in Nat \ {0} BY Sizes
  <2>2. (byte_count + 1) % SectorLen = byte_count + 1 BY <2>1, SmallRemainder
  <2> QED BY <2>2 DEF NextCount
<1>4. CASE Pad(t)
  <2>1. /\ uf2_state = "PAD" /\ byte_count' = NextCount
        /\ uf2_state' = IF byte_count = LastPad THEN "FINAL" ELSE "PAD"
        /\ UNCHANGED <<payload_size, blockNo, numBlocks>>
    BY <1>4 DEF Pad, uf2_header
  <2>2. BlockRead(s) /\ byte_count \in HeaderLen + 1 .. LastPad BY <1>2, <2>1 DEF Decoded
  <2>3. byte_count < LastToken /\ byte_count # LastToken BY <2>2, Sizes
  <2>4. byte_count' = byte_count + 1 BY <1>3, <2>1, <2>3
  <2>5. BlockRead(s)' BY <2>1, <2>2 DEF BlockRead
  <2>6. CASE byte_count = LastPad
    <3>1. byte_count' = LastToken BY <2>4, <2>6, Sizes
    <3>2. Decoded(s)' BY <2>1, <2>5, <2>6, <3>1 DEF Decoded
    <3> QED BY <2>3, <2>4, <3>2
  <2>7. CASE byte_count # LastPad
    <3>1. byte_count' \in HeaderLen + 1 .. LastPad BY <2>2, <2>4, <2>7, Sizes
    <3>2. LastPad' = LastPad BY DEF LastPad, HeaderLen
    <3>3. Decoded(s)' BY <2>1, <2>5, <2>7, <3>1, <3>2 DEF Decoded
    <3> QED BY <2>3, <2>4, <3>3
  <2> QED BY <2>6, <2>7
<1>5. CASE Final(t)
  <2>1. uf2_state = "FINAL" BY <1>5 DEF Final
  <2>2. byte_count = LastToken BY <1>2, <2>1 DEF Decoded
  <2>3. byte_count' = 0 /\ uf2_state' = "HEADER" BY <1>5, <2>2 DEF Final
  <2> QED BY <2>2, <2>3, Sizes
<1>6. CASE Discard(t)
  <2>1. /\ uf2_state = "DISCARD" /\ byte_count' = (IF byte_count = LastToken THEN 0 ELSE NextCount)
        /\ uf2_state' = (IF byte_count = LastToken THEN "HEADER" ELSE "DISCARD")
    BY <1>6 DEF Discard
  <2>2. ~IsBlock(s) BY <1>2, <2>1 DEF Decoded
  <2>3. CASE byte_count = LastToken BY <2>1, <2>3, Sizes
  <2>4. CASE byte_count # LastToken
    <3>1. byte_count < LastToken BY <2>4, Sizes
    <3>2. byte_count' = byte_count + 1 /\ byte_count' > 0 BY <1>1, <1>3, <2>1, <2>4, <3>1
    <3>3. Decoded(s)' BY <2>1, <2>2, <2>4, <3>2 DEF Decoded
    <3> QED BY <2>4, <3>2, <3>3
  <2> QED BY <2>3, <2>4
<1> QED BY <1>4, <1>5, <1>6

LEMMA ConsumeStep ==
  ASSUME NEW s \in [1 .. SectorLen -> Nat], IsBlock(s) => PlainBlock(s),
         byte_count \in 0 .. LastToken, byte_count > 0 => Decoded(s),
         byte_count = 0 => uf2_state = "HEADER", Consume(s[byte_count + 1])
  PROVE  /\ byte_count < LastToken => byte_count' = byte_count + 1 /\ Decoded(s)'
         /\ byte_count = LastToken => byte_count' = 0 /\ uf2_state' = "HEADER"
<1>1. CASE Header(s[byte_count + 1])
  <2>1. byte_count < HeaderLen /\ byte_count' = byte_count + 1 /\ Decoded(s)' BY <1>1, HeaderStep
  <2>2. byte_count < LastToken /\ byte_count # LastToken BY <2>1, Sizes
  <2> QED BY <2>1, <2>2
<1>2. CASE Data(s[byte_count + 1])
  <2>1. byte_count < LastToken /\ byte_count' = byte_count + 1 /\ Decoded(s)' BY <1>2, PayloadStep
  <2>2. byte_count # LastToken BY <2>1, Sizes
  <2> QED BY <2>1, <2>2
<1>3. CASE Pad(s[byte_count + 1]) \/ Final(s[byte_count + 1]) \/ Discard(s[byte_count + 1])
  BY <1>3, RestStep
<1> QED BY <1>1, <1>2, <1>3 DEF Consume

\* Inside a sector of the file there is a block, and the rest of it is to come.
LEMMA AtSector ==
  ASSUME PlainUploads, TransportInv, StreamInv, chunk # 0, Left > 0 \/ byte_count > 0
  PROVE  /\ Whole \in Nat /\ Whole < EndSector /\ Whole + 1 \in 1 .. Len(file) /\ Left \in Nat \ {0}
         /\ PlainBlock(Cur) /\ Cur \in [1 .. SectorLen -> Nat]
         /\ Pos \in Nat /\ Pos % SectorLen = byte_count
<1> DEFINE S == SectorLen
           p == Pos
           L == Left
           E == EndSector
           q == Whole
<1>1. StreamTypes /\ FileRead BY DEF StreamInv
<1>2. /\ S \in Nat \ {0} /\ L \in Nat /\ p \in Nat /\ E <= Len(file) /\ p % S = byte_count
      /\ q = p \div S
  BY <1>1, Sizes, LeftCounts DEF StreamTypes, FileRead, Whole
<1>3. E \in Nat BY <1>1 DEF StreamTypes, EndSector
<1>4. E * S \in Nat /\ (E * S) % S = 0 BY <1>2, <1>3, Started
<1>5. p = E * S - L BY DEF Pos
<1>6. q \in Nat /\ byte_count \in 0 .. S - 1 /\ p = S * q + byte_count
  <2> HIDE DEF S, p, L, E, q
  <2> QED BY <1>2, SMT
<1>7. L # 0
  <2> SUFFICES ASSUME L = 0 PROVE FALSE OBVIOUS
  <2>1. p = E * S
    <3> DEFINE x == E * S
    <3>1. x \in Nat /\ p = x - L BY <1>4, <1>5
    <3> HIDE DEF x, p, L
    <3>2. p = x BY <3>1
    <3> QED BY <3>2 DEF x
  <2>2. byte_count = 0 BY <1>2, <1>4, <2>1
  <2> QED BY <2>2
<1>8. q < E
  <2> SUFFICES ASSUME ~(q < E) PROVE FALSE OBVIOUS
  <2> HIDE DEF S, p, L, E, q
  <2>1. PICK x \in Nat : q = E + x BY <1>3, <1>6
  <2>2. S * q = E * S + S * x /\ S * x \in Nat BY <1>2, <1>3, <2>1, SMT
  <2> DEFINE u == E * S
             v == S * x
             z == S * q
  <2>3. z = u + v /\ u \in Nat /\ v \in Nat /\ p = u - L /\ p = z + byte_count
    BY <1>4, <1>5, <1>6, <2>2
  <2> HIDE DEF u, v, z
  <2> QED BY <1>2, <1>6, <1>7, <2>3
<1>9. q + 1 \in 1 .. Len(file)
  <2>1. Len(file) \in Nat BY <1>1, PlainSectors
  <2> HIDE DEF q, E
  <2> QED BY <1>2, <1>3, <1>6, <1>8, <2>1
<1>10. PlainBlock(Cur) /\ Cur \in [1 .. SectorLen -> Nat]
  <2>1. \A k \in 1 .. Len(file) : PlainBlock(file[k]) /\ file[k] \in [1 .. SectorLen -> Nat]
    BY <1>1, PlainSectors
  <2>2. Cur = file[q + 1] BY DEF Cur
  <2> HIDE DEF q
  <2> QED BY <1>9, <2>1, <2>2
<1> QED BY <1>2, <1>6, <1>7, <1>8, <1>9, <1>10

\* A sector of the file system is no UF2 block.
LEMMA StraySkipped ==
  ASSUME PlainUploads, StreamInv, chunk = 0
  PROVE  uf2_state \in {"HEADER", "DISCARD"}
<1>1. CASE ~Forwarding BY <1>1 DEF StreamInv, StrayRead
<1>2. CASE Forwarding
  <2>1. PICK s \in Strays : Decoded(s) BY <1>2 DEF StreamInv, StrayRead
  <2>2. ~IsBlock(s) BY DEF PlainUploads
  <2> QED BY <2>1, <2>2 DEF Decoded, BlockRead
<1> QED BY <1>1, <1>2

\* A token of the file.
LEMMA FileTokenStep ==
  ASSUME PlainUploads, TransportInv, StreamInv, ReceiveWriteData, Consume(Head(rx)), chunk # 0,
         UNCHANGED <<host, data, chunk, file, written>>
  PROVE  /\ TransportInv' /\ StreamInv'
         /\ Whole \in Nat /\ Whole + 1 \in 1 .. Len(file) /\ Whole < EndSector
         /\ PlainBlock(Cur) /\ Cur \in [1 .. SectorLen -> Nat]
         /\ byte_count > 0 => Decoded(Cur)
         /\ Head(rx) = Cur[byte_count + 1] /\ byte_count \in 0 .. LastToken
         /\ byte_count < LastToken => Whole' = Whole /\ byte_count' = byte_count + 1
         /\ byte_count = LastToken => Whole' = Whole + 1 /\ byte_count' = 0
<1> DEFINE p == Pos
<1>1. /\ TransportInv' /\ Left \in Nat \ {0} /\ Left' = Left - 1
      /\ Head(rx) = Coming(1)
      /\ \A j \in 1 .. Left - 1 : Coming(j)' = Coming(j + 1)
  BY WriteDataStep
<1>2. /\ Whole \in Nat /\ Whole < EndSector /\ Whole + 1 \in 1 .. Len(file)
      /\ PlainBlock(Cur) /\ Cur \in [1 .. SectorLen -> Nat]
      /\ p \in Nat /\ p % SectorLen = byte_count
  BY <1>1, AtSector
<1>3. StreamTypes /\ FileRead /\ (byte_count = 0 => uf2_state = "HEADER") BY DEF StreamInv
<1>4. /\ byte_count > 0 => Decoded(Cur)
      /\ byte_count \in 0 .. LastToken
      /\ \A j \in 1 .. Left : Coming(j) = FileToken(p + j)
  BY <1>3 DEF StreamTypes, FileRead
<1>5. Head(rx) = Cur[byte_count + 1]
  <2>1. Coming(1) = FileToken(p + 1)
    <3> HIDE DEF p
    <3>1. 1 \in 1 .. Left BY <1>1
    <3> QED BY <1>4, <3>1
  <2>2. (p + 1) - 1 = p BY <1>2
  <2>3. FileToken(p + 1) = file[1 + p \div SectorLen][1 + (p % SectorLen)] BY <2>2 DEF FileToken
  <2>4. Cur = file[p \div SectorLen + 1] BY DEF Cur, Whole
  <2>5. p \div SectorLen \in Nat /\ byte_count \in Nat BY <1>2, <1>4 DEF Whole
  <2>6. 1 + p \div SectorLen = p \div SectorLen + 1 /\ 1 + byte_count = byte_count + 1 BY <2>5
  <2> QED BY <1>1, <1>2, <2>1, <2>3, <2>4, <2>6
<1>6. PICK s : s = Cur OBVIOUS
<1>7. /\ byte_count < LastToken => byte_count' = byte_count + 1 /\ Decoded(s)'
      /\ byte_count = LastToken => byte_count' = 0 /\ uf2_state' = "HEADER"
  <2>1. Consume(s[byte_count + 1]) BY <1>5, <1>6
  <2>2. /\ s \in [1 .. SectorLen -> Nat] /\ PlainBlock(s)
        /\ byte_count > 0 => Decoded(s)
    BY <1>2, <1>4, <1>6
  <2> QED BY <1>3, <1>4, <2>1, <2>2, ConsumeStep
<1>8. EndSector' = EndSector BY DEF EndSector
<1>9. Pos' = p + 1
  <2> DEFINE L == Left
             x == EndSector * SectorLen
  <2>1. x \in Nat
    <3>1. EndSector \in Nat BY <1>3 DEF StreamTypes, EndSector
    <3> QED BY <3>1, Sizes, Started
  <2>2. p = x - L /\ L \in Nat \ {0} BY <1>1 DEF Pos
  <2>3. Pos' = x - (L - 1) BY <1>1, <1>8 DEF Pos
  <2> HIDE DEF p, L, x
  <2>4. Pos' = p + 1 BY <2>1, <2>2, <2>3
  <2> QED BY <2>4
<1>10. /\ byte_count < LastToken =>
            Whole' = Whole /\ byte_count' = Pos' % SectorLen /\ byte_count' = byte_count + 1
       /\ byte_count = LastToken =>
            Whole' = Whole + 1 /\ byte_count' = Pos' % SectorLen /\ byte_count' = 0
  <2>1. SectorLen \in Nat \ {0} /\ LastToken = SectorLen - 1 /\ Whole = p \div SectorLen
    BY Sizes DEF Whole
  <2>2. Whole' = (p + 1) \div SectorLen /\ Pos' % SectorLen = (p + 1) % SectorLen
    BY <1>9 DEF Whole
  <2> DEFINE S == SectorLen
             b == byte_count
  <2>3. /\ b < S - 1 => (p + 1) \div S = p \div S /\ (p + 1) % S = b + 1
        /\ b = S - 1 => (p + 1) \div S = p \div S + 1 /\ (p + 1) % S = 0
    BY <1>2, <2>1, Stepped
  <2> QED BY <1>7, <2>1, <2>2, <2>3
<1>11. byte_count' > 0 => byte_count < LastToken /\ Cur' = s /\ Decoded(s)'
  <2> SUFFICES ASSUME byte_count' > 0 PROVE byte_count < LastToken /\ Cur' = s /\ Decoded(s)'
    OBVIOUS
  <2>1. byte_count < LastToken
    <3>1. byte_count # LastToken BY <1>7
    <3> QED BY <1>4, <3>1, Sizes
  <2>2. Whole' = Whole BY <1>10, <2>1
  <2>3. Cur' = Cur BY <2>2 DEF Cur
  <2> QED BY <1>6, <1>7, <2>1, <2>3
<1>12. FileRead'
  <2>1. byte_count' = Pos' % SectorLen
    <3>1. byte_count < LastToken \/ byte_count = LastToken BY <1>4, Sizes
    <3> QED BY <1>10, <3>1
  <2>2. byte_count' > 0 => Decoded(Cur)'
    BY <1>11 DEF Decoded, HeaderRead, BlockRead, IsBlock, FirstOf
  <2>3. ASSUME NEW j \in 1 .. Left - 1 PROVE Coming(j)' = FileToken(Pos + j)'
    <3>1. Coming(j)' = Coming(j + 1) BY <1>1
    <3>2. j + 1 \in 1 .. Left BY <1>1
    <3>3. Coming(j + 1) = FileToken(p + (j + 1)) BY <1>4, <3>2
    <3>4. PICK i : i = p + (j + 1) OBVIOUS
    <3>5. Pos' + j = i BY <1>1, <1>2, <1>9, <3>4
    <3>6. FileToken(Pos + j)' = FileToken(i) BY <3>5 DEF FileToken
    <3> QED BY <3>1, <3>3, <3>4, <3>6
  <2> QED BY <1>1, <2>1, <2>2, <2>3 DEF FileRead
<1>13. StrayRead' BY DEF StrayRead
<1>14. StreamTypes'
  <2>1. Pos' \in Nat BY <1>2, <1>9
  <2>2. byte_count' \in 0 .. LastToken
    <3>1. byte_count < LastToken \/ byte_count = LastToken BY <1>4, Sizes
    <3>2. byte_count < LastToken => byte_count + 1 \in 0 .. LastToken BY <1>4, Sizes
    <3>3. 0 \in 0 .. LastToken BY Sizes
    <3> QED BY <1>7, <3>1, <3>2, <3>3
  <2>3. LastToken' = LastToken BY DEF LastToken, HeaderLen
  <2> QED BY <1>3, <1>8, <2>1, <2>2, <2>3 DEF StreamTypes
<1>15. byte_count' = 0 => uf2_state' = "HEADER"
  <2>1. byte_count < LastToken => byte_count' # 0 BY <1>4, <1>7
  <2>2. byte_count < LastToken \/ byte_count = LastToken BY <1>4, Sizes
  <2> QED BY <1>7, <2>1, <2>2
<1> QED BY <1>1, <1>2, <1>4, <1>5, <1>10, <1>12, <1>13, <1>14, <1>15 DEF StreamInv

\* A token that is not of the file, and one that the handler drops.
LEMMA StrayTokenStep ==
  ASSUME PlainUploads, TransportInv, StreamInv, ReceiveWriteData, chunk = 0,
         UNCHANGED <<host, data, chunk, file, written>>,
         IF csw_status THEN Untouched ELSE Consume(Head(rx))
  PROVE  TransportInv' /\ StreamInv' /\ Pos' = Pos
<1>1. /\ TransportInv' /\ Left \in Nat \ {0} /\ Left' = Left - 1
      /\ Head(rx) = Coming(1) /\ ~Preparing'
      /\ Forwarding = ~csw_status /\ Forwarding' = (~csw_status /\ Left > 1)
      /\ \A j \in 1 .. Left - 1 : Coming(j)' = Coming(j + 1)
  BY WriteDataStep
<1>2. StreamTypes /\ StrayRead /\ (byte_count = 0 => uf2_state = "HEADER") BY DEF StreamInv
<1>3. EndSector' = EndSector BY DEF EndSector
<1>4. Pos' = Pos BY <1>3 DEF Pos
<1>5. FileRead' BY DEF FileRead
<1>6. CASE csw_status
  <2>1. byte_count = 0 /\ byte_count' = byte_count /\ uf2_state' = uf2_state
    BY <1>1, <1>2, <1>6 DEF StrayRead, Untouched
  <2>2. StreamTypes'
    <3>1. LastToken' = LastToken BY DEF LastToken, HeaderLen
    <3> QED BY <1>2, <1>3, <1>4, <2>1, <3>1 DEF StreamTypes
  <2>3. StrayRead' BY <1>1, <1>6, <2>1 DEF StrayRead
  <2> QED BY <1>1, <1>2, <1>4, <1>5, <2>1, <2>2, <2>3 DEF StreamInv
<1>7. CASE ~csw_status
  <2>1. Forwarding BY <1>1, <1>7
  <2>2. PICK s \in Strays : Decoded(s) /\ \A j \in 1 .. Left : Coming(j) = s[byte_count + j]
    BY <1>2, <2>1 DEF StrayRead
  <2>3. Left + byte_count = SectorLen /\ byte_count \in 0 .. LastToken
    BY <1>2, <2>1 DEF StrayRead, StreamTypes
  <2>4. s \in [1 .. SectorLen -> Nat] /\ ~IsBlock(s) BY DEF PlainUploads
  <2>5. Coming(1) = s[byte_count + 1]
    <3>1. 1 \in 1 .. Left BY <1>1
    <3> QED BY <2>2, <3>1
  <2>6. Consume(s[byte_count + 1]) BY <1>1, <1>7, <2>5
  <2>7. /\ byte_count < LastToken => byte_count' = byte_count + 1 /\ Decoded(s)'
        /\ byte_count = LastToken => byte_count' = 0 /\ uf2_state' = "HEADER"
    BY <1>2, <2>2, <2>3, <2>4, <2>6, ConsumeStep
  <2>8. byte_count < LastToken <=> Left > 1 BY <1>1, <2>3, Sizes
  <2>9. byte_count < LastToken \/ (byte_count = LastToken /\ Left = 1) BY <1>1, <2>3, Sizes
  <2>10. StrayRead'
    <3>1. ~Forwarding' => byte_count' = 0 BY <1>1, <1>7, <2>7, <2>8, <2>9
    <3>2. ASSUME Forwarding'
          PROVE  Left' + byte_count' = SectorLen /\ Decoded(s)'
                 /\ \A j \in 1 .. Left' : Coming(j)' = s[byte_count' + j]
      <4>1. byte_count < LastToken /\ byte_count' = byte_count + 1 /\ Decoded(s)'
        BY <1>1, <2>7, <2>8, <3>2
      <4>2. Left' + byte_count' = SectorLen BY <1>1, <2>3, <4>1, Sizes
      <4>3. ASSUME NEW j \in 1 .. Left - 1 PROVE Coming(j)' = s[byte_count' + j]
        <5>1. j + 1 \in 1 .. Left /\ byte_count + (j + 1) = byte_count' + j BY <1>1, <2>3, <4>1
        <5> QED BY <1>1, <2>2, <5>1
      <4> QED BY <1>1, <4>1, <4>2, <4>3
    <3> QED BY <1>1, <3>1, <3>2 DEF StrayRead
  <2>11. StreamTypes'
    <3>1. LastToken' = LastToken BY DEF LastToken, HeaderLen
    <3>2. byte_count < LastToken => byte_count + 1 \in 0 .. LastToken BY <2>3, Sizes
    <3>3. 0 \in 0 .. LastToken BY Sizes
    <3>4. byte_count' \in 0 .. LastToken BY <2>7, <2>9, <3>2, <3>3
    <3> QED BY <1>2, <1>3, <1>4, <3>1, <3>4 DEF StreamTypes
  <2>12. byte_count' = 0 => uf2_state' = "HEADER"
    <3>1. byte_count < LastToken => byte_count' # 0 BY <2>3, <2>7
    <3> QED BY <2>7, <2>9, <3>1
  <2> QED BY <1>1, <1>4, <1>5, <2>10, <2>11, <2>12 DEF StreamInv
<1> QED BY <1>6, <1>7

\* The payload has ended.
LEMMA DataEndStep ==
  ASSUME PlainUploads, TransportInv, StreamInv, DataEnd, UNCHANGED <<scsi, host, data, chunk, file, written>>
  PROVE  TransportInv' /\ StreamInv' /\ Pos' = Pos /\ chunk # 0 /\ byte_count > 0 /\ Decoded(Cur)
<1>1. TransportInv' /\ Left' = Left /\ \A j : Coming(j)' = Coming(j) BY TransportStutter
<1>2. StreamTypes /\ FileRead /\ StrayRead /\ (byte_count = 0 => uf2_state = "HEADER")
  BY DEF StreamInv
<1>3. /\ uf2_state = "DATA" /\ data_count = payload_size /\ uf2_state' = "PAD"
      /\ UNCHANGED <<byte_count, uf2_header, data_count>>
  BY DEF DataEnd
<1>4. EndSector' = EndSector /\ Pos' = Pos BY <1>1 DEF EndSector, Pos
<1>5. chunk # 0 BY <1>3, StraySkipped
<1>6. byte_count \in 0 .. LastToken /\ byte_count > 0 BY <1>2, <1>3, Sizes DEF StreamTypes
<1>7. Decoded(Cur) BY <1>2, <1>5, <1>6 DEF FileRead
<1>8. PlainBlock(Cur) /\ Cur \in [1 .. SectorLen -> Nat] BY <1>5, <1>6, AtSector
<1>9. BlockRead(Cur) /\ byte_count = HeaderLen + data_count /\ payload_size = Cur[5]
  BY <1>3, <1>7 DEF Decoded, BlockRead
<1>10. Cur[5] \in Nat \ {0} /\ Cur[5] < Room BY <1>8, PlainBlockFits
<1>11. byte_count \in HeaderLen + 1 .. LastPad BY <1>3, <1>9, <1>10, Sizes
<1>12. PICK s : s = Cur OBVIOUS
<1>13. Cur' = s BY <1>4, <1>12 DEF Cur, Whole
<1>14. BlockRead(s) /\ byte_count \in HeaderLen + 1 .. LastPad BY <1>9, <1>11, <1>12
<1>15. Decoded(Cur)'
  <2>1. BlockRead(Cur)' BY <1>3, <1>13, <1>14 DEF BlockRead, uf2_header
  <2>2. (HeaderLen + 1 .. LastPad)' = HeaderLen + 1 .. LastPad BY DEF HeaderLen, LastPad
  <2>3. byte_count' \in HeaderLen + 1 .. LastPad BY <1>3, <1>14
  <2> QED BY <1>3, <2>1, <2>2, <2>3 DEF Decoded
<1>16. FileRead'
  <2>1. \A p : FileToken(p)' = FileToken(p) BY DEF FileToken
  <2>2. ASSUME NEW j \in 1 .. Left PROVE Coming(j)' = FileToken(Pos + j)'
    <3>1. PICK i : i = Pos + j OBVIOUS
    <3>2. FileToken(Pos + j)' = FileToken(i) BY <1>4, <3>1 DEF FileToken
    <3> QED BY <1>1, <1>2, <1>5, <3>1, <3>2 DEF FileRead
  <2>3. byte_count' = Pos' % SectorLen BY <1>2, <1>3, <1>4, <1>5 DEF FileRead
  <2> QED BY <1>1, <1>15, <2>2, <2>3 DEF FileRead
<1>17. StrayRead' BY <1>5 DEF StrayRead
<1>18. StreamTypes'
  <2>1. LastToken' = LastToken BY DEF LastToken, HeaderLen
  <2> QED BY <1>2, <1>3, <1>4, <2>1 DEF StreamTypes
<1>19. byte_count' # 0 BY <1>3, <1>6
<1> QED BY <1>1, <1>4, <1>5, <1>6, <1>7, <1>16, <1>17, <1>18, <1>19 DEF StreamInv

-----------------------------------------------------------------------------
(* The addresses of a file's bytes. *)

\* Block k of the file: its bytes are its own, and in the flash.
LEMMA BlockPlaced ==
  ASSUME PlainUploads, StreamTypes, NEW k \in 1 .. Len(file)
  PROVE  /\ file[k] \in [1 .. SectorLen -> Nat] /\ PlainBlock(file[k])
         /\ FirstOf(file[k]) \in Nat /\ EndOf(file[k]) \in Nat
         /\ FirstOf(file[k]) < EndOf(file[k]) /\ EndOf(file[k]) <= AddrSpace
         /\ EndOf(file[k]) = FirstOf(file[k]) + file[k][5] /\ file[k][5] \in Nat \ {0}
<1>1. PlainBlock(file[k]) /\ file[k] \in [1 .. SectorLen -> Nat] BY PlainSectors
<1> DEFINE s == file[k]
           f == FirstOf(s)
           e == EndOf(s)
           n == s[5]
<1>2. n \in Nat \ {0} /\ f \in Nat /\ e = f + n /\ e <= AddrSpace /\ e \in Nat
  <2> HIDE DEF s
  <2>1. PlainBlock(s) /\ s \in [1 .. SectorLen -> Nat] BY <1>1 DEF s
  <2> QED BY <2>1, PlainBlockFits
<1>3. f < e
  <2> HIDE DEF f, e, n
  <2> QED BY <1>2
<1> QED BY <1>1, <1>2, <1>3

LEMMA BlocksApart ==
  ASSUME PlainUploads, StreamTypes, NEW j \in 1 .. Len(file), NEW k \in 1 .. Len(file), j < k
  PROVE  EndOf(file[j]) <= FirstOf(file[k])
BY PlainSectors DEF PlainUploads, PlainFile, InOrder

\* The ends of earlier blocks come earlier.
LEMMA EndsAscend ==
  ASSUME PlainUploads, StreamTypes, NEW j \in 1 .. Len(file), NEW k \in 1 .. Len(file), j <= k
  PROVE  EndOf(file[j]) <= EndOf(file[k])
<1> DEFINE ej == EndOf(file[j])
           fk == FirstOf(file[k])
           ek == EndOf(file[k])
<1>1. ej \in Nat /\ fk \in Nat /\ ek \in Nat /\ fk < ek BY BlockPlaced
<1>2. CASE j = k BY <1>1, <1>2
<1>3. CASE j # k
  <2>1. j < k BY <1>3
  <2>2. ej <= fk BY <2>1, BlocksApart
  <2> HIDE DEF ej, fk, ek
  <2>3. ej <= ek BY <1>1, <2>2
  <2> QED BY <2>3 DEF ej, ek
<1> QED BY <1>2, <1>3

\* A number belongs to one block.
LEMMA OneBlock ==
  ASSUME PlainUploads, StreamTypes, NEW j \in 1 .. Len(file), NEW k \in 1 .. Len(file),
         NEW n, Covers(j, n), Covers(k, n)
  PROVE  j = k
<1> DEFINE ej == EndOf(file[j])
           fj == FirstOf(file[j])
           fk == FirstOf(file[k])
           ek == EndOf(file[k])
<1>1. ej \in Nat /\ fj \in Nat /\ fk \in Nat /\ ek \in Nat BY BlockPlaced
<1>2. n \in fj .. ej - 1 /\ n \in fk .. ek - 1 BY DEF Covers
<1>3. j < k => ej <= fk BY BlocksApart
<1>4. k < j => ek <= fj BY BlocksApart
<1> HIDE DEF ej, fj, fk, ek
<1>5. ~(ej <= fk) /\ ~(ek <= fj) BY <1>1, <1>2
<1>6. ~(j < k) /\ ~(k < j) BY <1>3, <1>4, <1>5
<1> QED BY <1>6, PlainSectors

LEMMA ByteOfBlock ==
  ASSUME PlainUploads, StreamTypes, NEW k \in 1 .. Len(file), NEW n, Covers(k, n)
  PROVE  ByteAt(n) = file[k][HeaderLen + 1 + n - FirstOf(file[k])]
<1> DEFINE c == CHOOSE c \in 1 .. Len(file) : Covers(c, n)
<1>1. c \in 1 .. Len(file) /\ Covers(c, n) OBVIOUS
<1> HIDE DEF c
<1>2. c = k BY <1>1, OneBlock
<1>3. ByteAt(n) = file[c][HeaderLen + 1 + n - FirstOf(file[c])] BY DEF ByteAt, c
<1> QED BY <1>2, <1>3

LEMMA ByteCovered ==
  ASSUME PlainUploads, StreamTypes, NEW k \in 1 .. Len(file), NEW n, Covers(k, n)
  PROVE  ByteAt(n) \in Byte /\ n \in 0 .. AddrSpace - 1 /\ Covered(n)
<1> DEFINE f == FirstOf(file[k])
           e == EndOf(file[k])
           p == file[k][5]
           i == 1 + n - f
<1>1. f \in Nat /\ e \in Nat /\ e <= AddrSpace /\ e = f + p /\ p \in Nat \ {0} /\ AddrSpace \in Nat
  BY BlockPlaced, Sizes
<1>2. n \in f .. e - 1 BY DEF Covers
<1>3. \A m \in 1 .. p : file[k][HeaderLen + m] \in Byte BY BlockPlaced DEF PlainBlock
<1>4. ByteAt(n) = file[k][HeaderLen + 1 + n - f] BY ByteOfBlock
<1> HIDE DEF f, e, p
<1>5. i \in 1 .. p /\ HeaderLen + 1 + n - f = HeaderLen + i /\ n \in 0 .. AddrSpace - 1
  BY <1>1, <1>2, Sizes
<1> HIDE DEF i
<1>6. ByteAt(n) \in Byte BY <1>3, <1>4, <1>5
<1> QED BY <1>5, <1>6 DEF Covered

\* The end of what has been shown before block k, and its beginning.
LEMMA FrontOfBlock ==
  ASSUME PlainUploads, StreamTypes, NEW k \in 1 .. Len(file)
  PROVE  /\ FrontAt(k, 0) \in Nat /\ FrontAt(k, 0) <= FirstOf(file[k])
         /\ FrontAt(k, 0) > 0 => k > 1 /\ FrontAt(k, 0) = EndOf(file[k - 1])
<1>1. FirstOf(file[k]) \in Nat BY BlockPlaced
<1>2. CASE k > 1
  <2>1. FrontAt(k, 0) = EndOf(file[k - 1]) BY <1>2 DEF FrontAt
  <2>2. k - 1 \in 1 .. Len(file) /\ k - 1 < k BY <1>2, PlainSectors
  <2>3. EndOf(file[k - 1]) \in Nat BY <2>2, BlockPlaced
  <2>4. EndOf(file[k - 1]) <= FirstOf(file[k]) BY <2>2, BlocksApart
  <2> QED BY <1>1, <1>2, <2>1, <2>3, <2>4
<1>3. CASE ~(k > 1) BY <1>1, <1>3 DEF FrontAt
<1> QED BY <1>2, <1>3

\* No byte of the file lies in the gap before a block.
LEMMA GapEmpty ==
  ASSUME PlainUploads, StreamTypes, NEW k \in 1 .. Len(file), NEW n, Covered(n)
  PROVE  n < FirstOf(file[k]) <=> n < FrontAt(k, 0)
<1> DEFINE f == FirstOf(file[k])
           r == FrontAt(k, 0)
<1>1. f \in Nat /\ r \in Nat /\ r <= f /\ (k > 1 => r = EndOf(file[k - 1]))
  BY BlockPlaced, FrontOfBlock DEF FrontAt
<1>2. PICK j \in 1 .. Len(file) : Covers(j, n) BY DEF Covered
<1>3. n \in Nat /\ FirstOf(file[j]) <= n /\ n < EndOf(file[j]) /\ FirstOf(file[j]) \in Nat
      /\ EndOf(file[j]) \in Nat
  <2> DEFINE fj == FirstOf(file[j])
             ej == EndOf(file[j])
  <2>1. fj \in Nat /\ ej \in Nat BY BlockPlaced
  <2>2. n \in fj .. ej - 1 BY <1>2 DEF Covers
  <2> HIDE DEF fj, ej
  <2>3. n \in Nat /\ fj <= n /\ n < ej BY <2>1, <2>2
  <2> QED BY <2>1, <2>3 DEF fj, ej
<1> HIDE DEF f, r
<1>4. CASE j < k
  <2>1. k > 1 /\ k - 1 \in 1 .. Len(file) /\ j <= k - 1 BY <1>4, PlainSectors
  <2>2. EndOf(file[j]) <= r BY <1>1, <2>1, EndsAscend
  <2>3. n < r /\ n < f BY <1>1, <1>3, <2>2
  <2> QED BY <2>3 DEF f, r
<1>5. CASE k <= j
  <2>1. f <= n
    <3>1. CASE k = j BY <1>3, <3>1 DEF f
    <3>2. CASE k < j
      <4>1. EndOf(file[k]) <= FirstOf(file[j]) BY <3>2, BlocksApart
      <4>2. f < EndOf(file[k]) /\ EndOf(file[k]) \in Nat BY BlockPlaced DEF f
      <4> QED BY <1>1, <1>3, <4>1, <4>2
    <3> QED BY <1>5, <3>1, <3>2
  <2>2. ~(n < f) /\ ~(n < r) BY <1>1, <1>3, <2>1
  <2> QED BY <2>2 DEF f, r
<1> QED BY <1>4, <1>5, PlainSectors

\* A gap ends in another page than it starts in.
LEMMA GapTurnsPage ==
  ASSUME PlainUploads, StreamTypes, NEW k \in 1 .. Len(file), FrontAt(k, 0) > 0
  PROVE  \/ FrontAt(k, 0) = FirstOf(file[k])
         \/ (FrontAt(k, 0) - 1) \div PageSize # FirstOf(file[k]) \div PageSize
<1>1. k > 1 /\ FrontAt(k, 0) = EndOf(file[k - 1]) BY FrontOfBlock
<1>2. InOrder(file) BY PlainSectors DEF PlainUploads, PlainFile
<1> DEFINE i == k - 1
<1>3. i \in 1 .. Len(file) - 1 /\ i + 1 = k BY <1>1, PlainSectors
<1> HIDE DEF i
<1>4. \/ EndOf(file[i]) = FirstOf(file[i + 1])
      \/ (EndOf(file[i]) - 1) \div PageSize # FirstOf(file[i + 1]) \div PageSize
  BY <1>2, <1>3 DEF InOrder
<1> QED BY <1>1, <1>3, <1>4 DEF i

\* The page of a number.
LEMMA PageNumbered ==
  ASSUME NEW a \in Flash!Addr
  PROVE  Upload!Row(a) = Number(a) \div PageSize
<1>1. a \in Upload!Addr BY DEF Flash!Addr, Upload!Addr
<1>2. /\ a.off \in 0 .. PageSize - 1 /\ Upload!Row(a) \in Nat /\ Upload!Number(a) \in Nat
      /\ Upload!Number(a) = PageSize * Upload!Row(a) + a.off
  BY <1>1, Given, Upload!Places
<1>3. Upload!Number(a) = Number(a) BY DEF Upload!Number, Number
<1> DEFINE q == Upload!Row(a)
           r == a.off
           n == Number(a)
<1>4. q \in Nat /\ r \in 0 .. PageSize - 1 /\ n \in Nat /\ n = PageSize * q + r /\ PageSize \in Nat \ {0}
  BY <1>2, <1>3, Given
<1> HIDE DEF q, r, n
<1>5. n \div PageSize = q BY <1>4, Divided
<1> QED BY <1>5 DEF q, n

LEMMA TurnedFollows ==
  ASSUME NEW last \in Flash!Addr, NEW a \in Flash!Addr, Number(last) < Number(a),
         Number(last) \div PageSize # Number(a) \div PageSize,
         \A s \in UpSent : Number(s) <= Number(last)
  PROVE  Upload!MayFollow(last, a)
<1>1. last \in Upload!Addr /\ a \in Upload!Addr /\ \A s \in UpSent : s \in Upload!Addr
  BY DEF Flash!Addr, Upload!Addr, UpSent
<1>2. \A s : Upload!Number(s) = Number(s) BY DEF Upload!Number, Number
<1>3. Upload!Row(last) # Upload!Row(a) BY PageNumbered
<1> QED BY <1>1, <1>2, <1>3, Given, Upload!AscendingFollows

-----------------------------------------------------------------------------
(* The port, and a byte that comes to it. *)

\* The next token of the file.
LEMMA NextToken ==
  ASSUME PlainUploads, TransportInv, StreamInv, chunk # 0, Forwarded
  PROVE  Head(rx) = Cur[byte_count + 1]
<1> DEFINE p == Pos
<1>1. scsi_state = "RECEIVE_WRITE_DATA" /\ rx # <<>> BY DEF Forwarded
<1>2. Left > 0 /\ CbwLeft = 0 /\ rx \in Seq(Nat)
  BY <1>1 DEF TransportInv, TransportTypes, CommandCarried, CbwLeft
<1>3. p \in Nat /\ p % SectorLen = byte_count BY <1>2, AtSector
<1>4. Head(rx) = Coming(1)
  <2>1. Len(rx) \in Nat \ {0} /\ Head(rx) = rx[1] BY <1>1, <1>2
  <2>2. CbwLeft + 1 = 1 BY <1>2
  <2>3. Coming(1) = Token(1) BY <2>2 DEF Coming
  <2> QED BY <2>1, <2>3 DEF Token
<1>5. Coming(1) = FileToken(p + 1)
  <2>1. Left \in Nat BY LeftCounts
  <2>2. 1 \in 1 .. Left BY <1>2, <2>1
  <2> HIDE DEF p
  <2>3. \A j \in 1 .. Left : Coming(j) = FileToken(p + j) BY DEF StreamInv, FileRead, p
  <2> QED BY <2>2, <2>3
<1>6. (p + 1) - 1 = p BY <1>3
<1>7. FileToken(p + 1) = file[1 + p \div SectorLen][1 + (p % SectorLen)] BY <1>6 DEF FileToken
<1>8. Cur = file[p \div SectorLen + 1] BY DEF Cur, Whole
<1>9. p \div SectorLen \in Nat /\ byte_count \in Nat
  BY <1>3, Sizes DEF StreamInv, StreamTypes
<1>10. 1 + p \div SectorLen = p \div SectorLen + 1 /\ 1 + byte_count = byte_count + 1 BY <1>9
<1> QED BY <1>3, <1>4, <1>5, <1>7, <1>8, <1>10

\* A decoder that passes bytes on is in a block of the file, at its own place.
LEMMA EmitsFile ==
  ASSUME PlainUploads, TransportInv, StreamInv, Emitting
  PROVE  /\ chunk # 0 /\ Whole \in Nat /\ Whole + 1 \in 1 .. Len(file) /\ Cur = file[Whole + 1]
         /\ uf2_state = "DATA" /\ data_count \in Nat /\ data_count < Cur[5]
         /\ payload_size = Cur[5] /\ target_addr = FirstOf(Cur) + data_count
         /\ byte_count = HeaderLen + data_count
<1>1. uf2_state = "DATA" /\ data_count # payload_size BY DEF Emitting
<1>2. chunk # 0 BY <1>1, StraySkipped
<1>3. byte_count \in 0 .. LastToken /\ byte_count # 0 BY <1>1 DEF StreamInv, StreamTypes
<1>4. byte_count > 0 BY <1>3, Sizes
<1>5. /\ Whole \in Nat /\ Whole + 1 \in 1 .. Len(file)
      /\ PlainBlock(Cur) /\ Cur \in [1 .. SectorLen -> Nat]
  BY <1>2, <1>4, AtSector
<1>6. Decoded(Cur) BY <1>2, <1>4 DEF StreamInv, FileRead
<1>7. /\ payload_size = Cur[5] /\ data_count \in 0 .. payload_size
      /\ byte_count = HeaderLen + data_count
      /\ data_count < payload_size => target_addr = FirstOf(Cur) + data_count
  BY <1>1, <1>6 DEF Decoded, BlockRead
<1>8. Cur[5] \in Nat BY <1>5, PlainBlockFits
<1>9. data_count \in Nat /\ data_count < Cur[5] BY <1>1, <1>7, <1>8
<1> QED BY <1>1, <1>2, <1>5, <1>7, <1>9 DEF Cur

\* What is on the port is the view's byte.
LEMMA PortShown ==
  ASSUME PlainUploads, TransportInv, StreamInv, PortW.valid
  PROVE  /\ Emitting /\ Forwarded /\ Shown = data_count + 1
         /\ Front = FirstOf(Cur) + data_count + 1 /\ Front \in Nat \ {0}
         /\ Covers(Whole + 1, Front - 1) /\ PortW = UpW
<1>1. Emitting /\ Forwarded BY DEF PortW
<1>2. /\ chunk # 0 /\ Whole \in Nat /\ Whole + 1 \in 1 .. Len(file) /\ Cur = file[Whole + 1]
      /\ uf2_state = "DATA" /\ data_count \in Nat /\ data_count < Cur[5]
      /\ target_addr = FirstOf(Cur) + data_count /\ byte_count = HeaderLen + data_count
  BY <1>1, EmitsFile
<1>3. Shown = data_count + 1 BY <1>2 DEF Shown
<1>4. Head(rx) = Cur[byte_count + 1] BY <1>1, <1>2, NextToken
<1>5. StreamTypes BY DEF StreamInv
<1> DEFINE k == Whole + 1
           s == file[k]
           f == FirstOf(s)
           e == EndOf(s)
           n == s[5]
           d == data_count
<1>6. f \in Nat /\ e = f + n /\ n \in Nat /\ d \in Nat /\ d < n /\ e \in Nat
  BY <1>2, <1>5, BlockPlaced
<1>7. Front = f + d + 1
  <2>1. Shown > 0 BY <1>2, <1>3
  <2>2. Front = FirstOf(s) + Shown BY <2>1 DEF Front, FrontAt
  <2> HIDE DEF s, f
  <2>3. FirstOf(s) = f BY DEF f
  <2> QED BY <1>3, <1>6, <2>2, <2>3
<1> DEFINE m == Front - 1
<1>8. m = f + d /\ Front \in Nat \ {0} /\ m \in f .. e - 1
  <2> HIDE DEF f, e, n
  <2> QED BY <1>6, <1>7
<1>9. Covers(k, m) BY <1>8 DEF Covers
<1>10. ByteAt(m) = s[HeaderLen + 1 + m - f] BY <1>2, <1>5, <1>9, ByteOfBlock
<1>11. HeaderLen + 1 + m - f = byte_count + 1
  <2>1. byte_count = 8 + d /\ HeaderLen = 8 BY <1>2, Sizes
  <2> HIDE DEF f, m
  <2> QED BY <1>6, <1>8, <2>1
<1>12. ByteAt(m) = Head(rx) BY <1>2, <1>4, <1>10, <1>11
<1>13. target_addr = m BY <1>2, <1>8
<1>14. UpW = [valid |-> PortW.valid, addr |-> FlashAddr(m), data |-> ByteAt(m)]
  BY <1>8 DEF UpW
<1>15. PortW = [valid |-> TRUE, addr |-> FlashAddr(m), data |-> ByteAt(m)]
  <2>1. (Emitting /\ Forwarded) = TRUE /\ rx # <<>> BY <1>1 DEF Forwarded
  <2> HIDE DEF m
  <2> QED BY <1>12, <1>13, <2>1 DEF PortW
<1>16. PortW.valid = TRUE BY <1>15
<1>17. PortW = UpW BY <1>14, <1>15, <1>16
<1>18. f + d + 1 = FirstOf(Cur) + data_count + 1 BY <1>2
<1> QED BY <1>1, <1>3, <1>7, <1>8, <1>9, <1>17, <1>18

\* A byte of block k comes to the port, behind everything that has been there.
LEMMA Advance ==
  ASSUME PlainUploads, StreamTypes, NEW k \in 1 .. Len(file), NEW d \in Nat, d < file[k][5],
         NEW last \in Flash!Addr, Front > 0 => last = FlashAddr(Front - 1),
         Front = FrontAt(k, d), Front' = FirstOf(file[k]) + d + 1,
         UNCHANGED file, PortW'.valid
  PROVE  \E a \in Upload!Addr : \E b \in Bytes(a) : Upload!Put(last, a, b)
<1> DEFINE r == Front
           f == FirstOf(file[k])
           m == f + d
           a == FlashAddr(m)
           b == ByteAt(m)
<1>1. Covers(k, m) /\ m \in Nat /\ f \in Nat
  <2> DEFINE e == EndOf(file[k])
             n == file[k][5]
  <2>1. f \in Nat /\ e = f + n /\ n \in Nat /\ d < n BY BlockPlaced
  <2> HIDE DEF e, n, f
  <2>2. m \in f .. e - 1 BY <2>1
  <2> QED BY <2>1, <2>2 DEF Covers, e, f
<1>2. b \in Byte /\ m \in 0 .. AddrSpace - 1 /\ Covered(m) BY <1>1, ByteCovered
<1>3. a \in Flash!Addr /\ Number(a) = m BY <1>2, NumberAddressed
<1>4. Front' = m + 1 /\ Front' # 0 /\ Front' - 1 = m
  <2> HIDE DEF f
  <2>1. Front' = f + d + 1 BY DEF f
  <2> QED BY <1>1, <2>1
<1>5. r \in Nat /\ r <= m /\ \A n : Covered(n) => (n < m <=> n < r)
  <2>1. CASE d > 0
    <3>1. r = m BY <2>1 DEF FrontAt
    <3> QED BY <1>1, <3>1
  <2>2. CASE d = 0
    <3>1. r = FrontAt(k, 0) /\ m = f BY <1>1, <2>2
    <3>2. r \in Nat /\ r <= f BY <3>1, FrontOfBlock
    <3>3. \A n : Covered(n) => (n < f <=> n < r) BY <3>1, GapEmpty
    <3> QED BY <3>1, <3>2, <3>3
  <2> QED BY <2>1, <2>2
<1>6. r > 0 => r = m \/ (r - 1) \div PageSize # m \div PageSize
  <2>1. CASE d > 0 BY <2>1 DEF FrontAt
  <2>2. CASE d = 0
    <3>1. r = FrontAt(k, 0) /\ m = f BY <1>1, <2>2
    <3> QED BY <3>1, GapTurnsPage
  <2> QED BY <2>1, <2>2
<1>7. \A n : Covered(n)' <=> Covered(n) BY DEF Covered, Covers
<1>8. \A n : ByteAt(n)' = ByteAt(n) BY DEF ByteAt, Covers
<1>9. UpW' = [valid |-> TRUE, addr |-> a, data |-> b]
  <2>1. PortW'.valid = TRUE BY DEF PortW
  <2>2. UpW' = [valid |-> PortW'.valid, addr |-> FlashAddr(Front'  - 1), data |-> ByteAt(Front - 1)']
    BY <1>4 DEF UpW
  <2>3. ByteAt(Front - 1)' = b
    <3>1. PICK i : i = m OBVIOUS
    <3>2. ByteAt(Front - 1)' = ByteAt(i)' BY <1>4, <3>1 DEF ByteAt, Covers
    <3> QED BY <1>8, <3>1, <3>2
  <2> QED BY <1>4, <2>1, <2>2, <2>3
<1> HIDE DEF r, f, m, a, b
<1>10. \A x \in Flash!Addr : Number(x) \in Nat BY AddressNumbered
<1>11. \A x \in Flash!Addr : Number(x) = m => x = a
  <2> SUFFICES ASSUME NEW x \in Flash!Addr, Number(x) = m PROVE x = a OBVIOUS
  <2>1. FlashAddr(Number(x)) = x BY AddressNumbered
  <2> QED BY <2>1 DEF a
<1>12. UpSent' = UpSent \cup {a}
  <2>1. UpSent' = {x \in Flash!Addr : Covered(Number(x)) /\ Number(x) < m + 1}
    BY <1>4, <1>7 DEF UpSent, Number
  <2>2. UpSent = {x \in Flash!Addr : Covered(Number(x)) /\ Number(x) < r} BY DEF UpSent, r
  <2>3. ASSUME NEW x \in Flash!Addr
        PROVE  Covered(Number(x)) /\ Number(x) < m + 1 <=> (Covered(Number(x)) /\ Number(x) < r) \/ x = a
    <3> DEFINE n == Number(x)
    <3>1. n \in Nat /\ (n = m => x = a) /\ (x = a => n = m) BY <1>3, <1>10, <1>11
    <3>2. Covered(n) => (n < m <=> n < r) BY <1>5
    <3>3. n = m => Covered(n) BY <1>2
    <3> HIDE DEF n
    <3>4. n < m + 1 <=> n < m \/ n = m BY <1>1, <3>1
    <3>5. Covered(n) /\ n < m + 1 <=> (Covered(n) /\ n < r) \/ x = a
      BY <3>1, <3>2, <3>3, <3>4, Zenon
    <3> QED BY <3>5 DEF n
  <2> QED BY <1>3, <2>1, <2>2, <2>3
<1>13. a \notin UpSent BY <1>1, <1>3, <1>5 DEF UpSent, r
<1>14. UpImage' = [UpImage EXCEPT ![a] = b]
  <2>1. UpImage' = [x \in Flash!Addr |-> IF x \in UpSent' THEN ByteAt(Number(x)) ELSE Flash!Erased]
    BY <1>8 DEF UpImage, Number
  <2>2. ByteAt(Number(a)) = b BY <1>3 DEF b
  <2> QED BY <1>3, <1>12, <2>1, <2>2 DEF UpImage
<1>15. Upload!MayFollow(last, a)
  <2>1. CASE r = 0
    <3>1. UpSent = {} BY <1>10, <2>1 DEF UpSent, r
    <3> QED BY <3>1 DEF Upload!MayFollow
  <2>2. CASE r > 0
    <3>1. last = FlashAddr(r - 1) BY <2>2 DEF r
    <3>2. r - 1 \in 0 .. AddrSpace - 1 BY <1>1, <1>2, <1>5, <2>2, Sizes
    <3>3. Number(last) = r - 1 BY <3>1, <3>2, NumberAddressed
    <3>4. \A s \in UpSent : Number(s) <= Number(last)
      <4>1. \A s \in UpSent : Number(s) \in Nat /\ Number(s) < r BY <1>10 DEF UpSent, r
      <4> QED BY <1>5, <3>3, <4>1
    <3>5. CASE r = m
      <4>1. Number(a) = Number(last) + 1 BY <1>1, <1>3, <3>3, <3>5
      <4> QED BY <1>3, <3>4, <4>1, CountedFollows
    <3>6. CASE r # m
      <4>1. Number(last) < Number(a) BY <1>1, <1>3, <1>5, <3>3
      <4>2. Number(last) \div PageSize # Number(a) \div PageSize
        BY <1>3, <1>6, <2>2, <3>3, <3>6
      <4> QED BY <1>3, <3>4, <4>1, <4>2, TurnedFollows
    <3> QED BY <3>5, <3>6
  <2> QED BY <1>5, <2>1, <2>2
<1>16. Upload!Put(last, a, b) BY <1>9, <1>12, <1>13, <1>14, <1>15 DEF Upload!Put
<1> QED BY <1>2, <1>3, <1>16 DEF Bytes, Upload!Addr, Flash!Addr

-----------------------------------------------------------------------------
(* Every step is a step of the writer's view, or none. *)

Seen ==
  \/ UNCHANGED Upload!core /\ Front' = Front
  \/ Upload!RaiseFlush /\ Front' = Front
  \/ \E a \in Upload!Addr : \E b \in Bytes(a) : Upload!Offer(a, b)
  \/ Upload!TakeByte /\ (~UpW'.valid => Front' = Front)
  \/ Upload!WorksAlone /\ UNCHANGED Upload!port /\ Front' = Front
  \/ Upload!DeviceStep /\ Front' = Front

LEMMA SeenNext == Seen => [Upload!Next]_(Upload!core)
BY DEF Seen, Upload!Next, Upload!FsmStep, Upload!WriterStep

LEMMA PortSame ==
  ASSUME PortW'.valid = PortW.valid, Front' = Front, file' = file
  PROVE  UpW' = UpW /\ UpSent' = UpSent /\ UpImage' = UpImage
<1>1. \A n : Covered(n)' <=> Covered(n) BY DEF Covered, Covers
<1>2. \A n : ByteAt(n)' = ByteAt(n) BY DEF ByteAt, Covers
<1>3. UpSent' = UpSent BY <1>1 DEF UpSent, Number
<1>4. UpImage' = UpImage BY <1>2, <1>3 DEF UpImage, Number
<1>5. UpW' = UpW
  <2>1. ByteAt(Front - 1)' = ByteAt(Front - 1)
    <3>1. PICK i : i = Front - 1 OBVIOUS
    <3>2. ByteAt(Front - 1)' = ByteAt(i)' BY <3>1 DEF ByteAt, Covers
    <3> QED BY <1>2, <3>1, <3>2
  <2> QED BY <2>1 DEF UpW
<1> QED BY <1>3, <1>4, <1>5

LEMMA SameView ==
  ASSUME LastLatched, PortW'.valid = PortW.valid, Front' = Front, UNCHANGED <<flash, file>>,
         UpFlush' = UpFlush \/ (~UpFlush /\ UpFlush' = TRUE)
  PROVE  Seen /\ LastLatched'
<1>1. UpW' = UpW /\ UpSent' = UpSent /\ UpImage' = UpImage BY PortSame
<1>2. UNCHANGED <<Upload!device, Upload!fsm>> /\ addr_latch' = addr_latch
  BY DEF flash, flash_fsm, Upload!device, Upload!fsm, Upload!regs
<1>3. LastLatched' BY <1>2 DEF LastLatched
<1>4. CASE UpFlush' = UpFlush
  BY <1>1, <1>2, <1>3, <1>4 DEF Seen, Upload!core, Upload!port
<1>5. CASE ~UpFlush /\ UpFlush' = TRUE
  BY <1>1, <1>2, <1>3, <1>5 DEF Seen, Upload!RaiseFlush
<1> QED BY <1>4, <1>5

\* The flush is up after the last block only.
LEMMA NoFlushYet ==
  ASSUME PlainUploads, StreamInv, FlushMeant, Whole \in Nat, Whole + 1 \in 1 .. Len(file)
  PROVE  done = FALSE /\ pending = FALSE /\ ~UpFlush /\ UpFlush = FALSE
<1>1. Len(file) \in Nat BY PlainSectors DEF StreamInv
<1>2. ~(Whole = Len(file)) BY <1>1
<1>3. done = FALSE /\ pending = FALSE BY <1>2 DEF FlushMeant
<1> QED BY <1>3 DEF UpFlush

LEMMA OfferView ==
  ASSUME PlainUploads, StreamInv, Upload!ProtocolInv, LastLatched, FlushMeant,
         Whole \in Nat, Whole + 1 \in 1 .. Len(file), NEW d \in Nat, d < Cur[5],
         Front = FrontAt(Whole + 1, d), Front' = FirstOf(Cur) + d + 1,
         UNCHANGED <<flash, file>>, UpFlush' = UpFlush, ~PortW.valid, PortW'.valid
  PROVE  Seen /\ LastLatched'
<1>1. ~UpFlush /\ StreamTypes BY NoFlushYet DEF StreamInv
<1>2. addr_latch \in Flash!Addr
  BY DEF Upload!ProtocolInv, Upload!TypeOK, Upload!FsmTypeOK, Upload!Addr, Flash!Addr
<1>3. Front > 0 => addr_latch = FlashAddr(Front - 1) BY DEF LastLatched
<1>4. \E a \in Upload!Addr : \E b \in Bytes(a) : Upload!Put(addr_latch, a, b)
  BY <1>1, <1>2, <1>3, Advance DEF Cur
<1>5. UNCHANGED <<Upload!device, Upload!fsm>>
  BY DEF flash, flash_fsm, Upload!device, Upload!fsm, Upload!regs
<1>6. ~UpW.valid BY DEF UpW
<1>7. \E a \in Upload!Addr : \E b \in Bytes(a) : Upload!Offer(a, b)
  BY <1>1, <1>4, <1>5, <1>6 DEF Upload!Offer
<1>8. LastLatched' BY DEF LastLatched
<1> QED BY <1>7, <1>8 DEF Seen

\* A step that takes no token and leaves the flash alone.
LEMMA QuietView ==
  ASSUME PlainUploads, TransportInv, StreamInv, Upload!ProtocolInv, LastLatched, FlushMeant,
         Untouched, Pos' = Pos, UNCHANGED flash, UpFlush' = UpFlush, PortW.valid => Forwarded'
  PROVE  Seen /\ LastLatched'
<1>1. UNCHANGED <<uf2_state, data_count, payload_size, file>> /\ Whole' = Whole
  BY DEF Untouched, uf2_header, Whole
<1>2. Emitting' <=> Emitting BY <1>1 DEF Emitting
<1>3. CASE PortW'.valid = PortW.valid
  <2>1. Shown' = Shown BY <1>1, <1>3 DEF Shown
  <2>2. Front' = Front BY <1>1, <2>1 DEF Front, FrontAt
  <2> QED BY <1>1, <1>3, <2>2, SameView
<1>4. CASE ~PortW.valid /\ PortW'.valid
  <2>1. Emitting BY <1>2, <1>4 DEF PortW
  <2>2. /\ Whole \in Nat /\ Whole + 1 \in 1 .. Len(file) /\ Cur = file[Whole + 1]
        /\ uf2_state = "DATA" /\ data_count \in Nat /\ data_count < Cur[5]
    BY <2>1, EmitsFile
  <2>3. Shown = data_count BY <1>4, <2>2 DEF Shown
  <2>4. Shown' = data_count + 1 BY <1>1, <1>4, <2>2 DEF Shown
  <2>5. Front = FrontAt(Whole + 1, data_count) BY <2>3 DEF Front
  <2>6. Front' = FirstOf(Cur) + data_count + 1
    <3>1. Shown' > 0 BY <2>2, <2>4
    <3>2. Front' = FirstOf(file[Whole + 1]) + Shown' BY <1>1, <3>1 DEF Front, FrontAt, FirstOf
    <3>3. FirstOf(Cur) \in Nat BY <2>2, BlockPlaced DEF StreamInv
    <3> QED BY <2>2, <2>4, <3>2, <3>3
  <2> QED BY <1>1, <1>4, <2>2, <2>5, <2>6, OfferView
<1>5. CASE PortW.valid /\ ~PortW'.valid
  <2>1. Emitting' /\ Forwarded' BY <1>2, <1>5 DEF PortW
  <2> QED BY <1>5, <2>1 DEF PortW
<1> QED BY <1>3, <1>4, <1>5 DEF PortW

\* A header token: at the last of them the first payload byte may come to the port.
LEMMA HeaderView ==
  ASSUME PlainUploads, TransportInv, StreamInv, Upload!ProtocolInv, LastLatched, FlushMeant,
         chunk # 0, ReceiveWriteData, Header(Head(rx)), Tick, UNCHANGED <<flash, host_vars>>
  PROVE  Seen /\ LastLatched'
<1>1. /\ uf2_state = "HEADER" /\ done' = (done /\ byte_count # 0)
      /\ data_count' = IF byte_count = 7 /\ ~NotMainFlash(flags) THEN 0 ELSE data_count
      /\ uf2_state' = IF Foreign(Head(rx)) THEN "DISCARD" ELSE IF byte_count = 7 THEN "DATA" ELSE "HEADER"
  BY DEF Header
<1>2. UNCHANGED <<host, data, chunk, file, written>> BY DEF host_vars
<1>3. /\ Whole \in Nat /\ Whole + 1 \in 1 .. Len(file)
      /\ PlainBlock(Cur) /\ Cur \in [1 .. SectorLen -> Nat]
      /\ byte_count > 0 => Decoded(Cur)
      /\ Head(rx) = Cur[byte_count + 1] /\ byte_count \in 0 .. LastToken
      /\ byte_count < LastToken => Whole' = Whole
  <2>1. Consume(Head(rx)) BY DEF Consume
  <2> QED BY <1>2, <2>1, FileTokenStep
<1>4. PICK s : s = Cur OBVIOUS
<1>5. byte_count < HeaderLen
  <2>1. s \in [1 .. SectorLen -> Nat] /\ PlainBlock(s) /\ Header(s[byte_count + 1]) BY <1>3, <1>4
  <2>2. byte_count > 0 => Decoded(s) BY <1>3, <1>4
  <2> QED BY <1>3, <2>1, <2>2, HeaderStep
<1>6. Whole' = Whole
  <2>1. byte_count < LastToken BY <1>3, <1>5, Sizes
  <2> QED BY <1>3, <2>1
<1>7. ~PortW.valid /\ Shown = 0 BY <1>1 DEF PortW, Emitting, Shown
<1>8. Front = FrontAt(Whole + 1, 0) BY <1>7 DEF Front
<1>9. UpFlush' = UpFlush
  <2>1. done = FALSE /\ pending = FALSE BY <1>3, NoFlushYet
  <2>2. done' = FALSE /\ pending' = FALSE BY <1>1, <2>1 DEF Tick
  <2> QED BY <2>1, <2>2 DEF UpFlush
<1>10. uf2_state' = "DATA" => data_count' = 0 BY <1>1 DEF Foreign
<1>11. CASE ~PortW'.valid
  <2>1. Shown' = 0 BY <1>1, <1>10, <1>11 DEF Shown
  <2>2. Front' = Front BY <1>2, <1>6, <1>8, <2>1 DEF Front, FrontAt, EndOf
  <2>3. PortW'.valid = PortW.valid BY <1>7, <1>11 DEF PortW
  <2> QED BY <1>2, <1>9, <2>2, <2>3, SameView
<1>12. CASE PortW'.valid
  <2>1. uf2_state' = "DATA" /\ data_count' = 0 BY <1>10, <1>12 DEF PortW, Emitting
  <2>2. Shown' = 1 BY <1>12, <2>1 DEF Shown
  <2>3. FirstOf(Cur) \in Nat /\ Cur[5] \in Nat \ {0} /\ Cur = file[Whole + 1]
    BY <1>3, <1>4, PlainBlockFits DEF Cur
  <2>4. Front' = FirstOf(Cur) + 0 + 1
    <3>1. Front' = FirstOf(file[Whole + 1]) + 1 BY <1>2, <1>6, <2>2 DEF Front, FrontAt, FirstOf
    <3> QED BY <2>3, <3>1
  <2>5. 0 \in Nat /\ 0 < Cur[5] BY <2>3
  <2> QED BY <1>2, <1>3, <1>7, <1>8, <1>9, <1>12, <2>4, <2>5, OfferView
<1> QED BY <1>11, <1>12

\* Padding, and the end of the block.
LEMMA RestView ==
  ASSUME PlainUploads, TransportInv, StreamInv, Upload!ProtocolInv, LastLatched, FlushMeant,
         chunk # 0, ReceiveWriteData, Pad(Head(rx)) \/ Final(Head(rx)) \/ Discard(Head(rx)),
         Tick, UNCHANGED <<flash, host_vars>>
  PROVE  Seen /\ LastLatched'
<1> DEFINE t == Head(rx)
<1>1. uf2_state \in {"PAD", "FINAL", "DISCARD"} /\ payload_size' = payload_size
  BY DEF Pad, Final, Discard, uf2_header
<1>2. UNCHANGED <<host, data, chunk, file, written>> BY DEF host_vars
<1>3. /\ Whole \in Nat /\ Whole + 1 \in 1 .. Len(file)
      /\ PlainBlock(Cur) /\ Cur \in [1 .. SectorLen -> Nat]
      /\ byte_count > 0 => Decoded(Cur)
      /\ byte_count \in 0 .. LastToken
      /\ byte_count < LastToken => Whole' = Whole
      /\ byte_count = LastToken => Whole' = Whole + 1
  <2>1. Consume(Head(rx)) BY DEF Consume
  <2> QED BY <1>2, <2>1, FileTokenStep
<1>4. Decoded(Cur)
  <2>1. byte_count # 0 BY <1>1 DEF StreamInv
  <2> QED BY <1>3, <2>1
<1>5. /\ payload_size = Cur[5] /\ uf2_state \in {"PAD", "FINAL"}
      /\ uf2_state = "PAD" => byte_count \in HeaderLen + 1 .. LastPad
      /\ uf2_state = "FINAL" => byte_count = LastToken
  BY <1>1, <1>3, <1>4 DEF Decoded, BlockRead, PlainBlock
<1>6. /\ FirstOf(Cur) \in Nat /\ Cur[5] \in Nat \ {0} /\ Cur = file[Whole + 1]
      /\ EndOf(Cur) = FirstOf(Cur) + Cur[5]
  BY <1>3, PlainBlockFits DEF Cur
<1>7. ~PortW.valid /\ Shown = Cur[5] BY <1>5 DEF PortW, Emitting, Shown
<1>8. Front = EndOf(Cur)
  <2>1. Shown > 0 BY <1>6, <1>7
  <2> QED BY <1>6, <1>7, <2>1 DEF Front, FrontAt
<1>9. done = FALSE /\ pending = FALSE /\ UpFlush = FALSE BY <1>3, NoFlushYet
<1>10. CASE uf2_state = "PAD"
  <2>1. Pad(t) BY <1>10 DEF Final, Discard
  <2>2. uf2_state' \in {"PAD", "FINAL"} /\ done' = done BY <2>1 DEF Pad
  <2>3. Whole' = Whole
    <3>1. byte_count < LastToken BY <1>5, <1>10, Sizes
    <3> QED BY <1>3, <3>1
  <2>4. Shown' = Shown /\ PortW'.valid = PortW.valid
    BY <1>1, <1>5, <2>2 DEF Shown, PortW, Emitting
  <2>5. Front' = Front BY <1>2, <2>3, <2>4 DEF Front, FrontAt, FirstOf, EndOf
  <2>6. UpFlush' = UpFlush BY <1>9, <2>2 DEF UpFlush, Tick
  <2> QED BY <1>2, <2>4, <2>5, <2>6, SameView
<1>11. CASE uf2_state = "FINAL"
  <2>1. Final(t) /\ byte_count = LastToken BY <1>5, <1>11 DEF Pad, Discard
  <2>2. uf2_state' = "HEADER" /\ done' = (done \/ (t = MAGIC_END /\ blockNo = numBlocks - 1))
    BY <2>1 DEF Final
  <2>3. Whole' = Whole + 1 BY <1>3, <2>1
  <2>4. Shown' = 0 /\ PortW'.valid = PortW.valid BY <1>7, <1>11, <2>2 DEF Shown, PortW, Emitting
  <2>5. Front' = Front
    <3>1. Front' = FrontAt(Whole + 2, 0)
      <4>1. Whole' + 1 = Whole + 2 BY <1>3, <2>3
      <4> QED BY <1>2, <2>4, <4>1 DEF Front, FrontAt, FirstOf, EndOf
    <3>2. Whole + 2 > 1 /\ (Whole + 2) - 1 = Whole + 1 BY <1>3
    <3> QED BY <1>6, <1>8, <3>1, <3>2 DEF FrontAt
  <2>6. UpFlush' = UpFlush \/ (~UpFlush /\ UpFlush' = TRUE)
    <3>1. UpFlush' \in BOOLEAN BY <2>2 DEF UpFlush
    <3> QED BY <1>9, <3>1
  <2> QED BY <1>2, <2>4, <2>5, <2>6, SameView
<1> QED BY <1>5, <1>10, <1>11

\* A sector that is not of the file shows nothing.
LEMMA StraySkippedNext ==
  ASSUME PlainUploads, StreamInv', chunk' = 0
  PROVE  uf2_state' \in {"HEADER", "DISCARD"}
<1>1. CASE ~Forwarding' BY <1>1 DEF StreamInv, StrayRead
<1>2. CASE Forwarding'
  <2>1. PICK s \in Strays : Decoded(s)' BY <1>2 DEF StreamInv, StrayRead
  <2>2. ~IsBlock(s) BY DEF PlainUploads
  <2> QED BY <2>1, <2>2 DEF Decoded, BlockRead, IsBlock
<1> QED BY <1>1, <1>2

LEMMA HiddenView ==
  ASSUME LastLatched, uf2_state \in {"HEADER", "DISCARD"}, uf2_state' \in {"HEADER", "DISCARD"},
         Pos' = Pos, UNCHANGED <<flash, file>>, UpFlush' = UpFlush
  PROVE  Seen /\ LastLatched'
<1>1. PortW'.valid = PortW.valid /\ Shown = 0 /\ Shown' = 0 BY DEF PortW, Emitting, Shown
<1>2. Front' = Front BY <1>1 DEF Front, FrontAt, EndOf, Whole
<1> QED BY <1>1, <1>2, SameView

LEMMA StrayView ==
  ASSUME PlainUploads, TransportInv, StreamInv, LastLatched, FlushMeant,
         chunk = 0, ReceiveWriteData, IF csw_status THEN UNCHANGED uf2 ELSE Consume(Head(rx)),
         Tick, UNCHANGED <<flash, host_vars>>
  PROVE  Seen /\ LastLatched'
<1>1. uf2_state \in {"HEADER", "DISCARD"} BY StraySkipped
<1>2. UNCHANGED <<host, data, chunk, file, written>> BY DEF host_vars
<1>3. StreamInv' /\ Pos' = Pos
  <2>1. IF csw_status THEN Untouched ELSE Consume(Head(rx)) BY <1>2 DEF Untouched, uf2
  <2> QED BY <1>2, <2>1, StrayTokenStep
<1>4. uf2_state' \in {"HEADER", "DISCARD"} BY <1>2, <1>3, StraySkippedNext
<1>5. UpFlush' = UpFlush
  <2>1. done = FALSE /\ pending \in BOOLEAN BY DEF FlushMeant, ReceiveWriteData
  <2>2. done' = FALSE
    BY <1>1, <2>1 DEF uf2, Consume, Header, Data, Emitting, Pad, Final, Discard
  <2> QED BY <2>1, <2>2 DEF Tick, UpFlush
<1> QED BY <1>1, <1>2, <1>3, <1>4, <1>5, HiddenView

\* The byte on the port is taken; the next one may follow at once.
LEMMA LoweredRecord ==
  ASSUME NEW A, NEW B, NEW u \in [valid : BOOLEAN, addr : A, data : B],
         NEW v \in [valid : BOOLEAN, addr : A, data : B],
         ~v.valid, v.addr = u.addr, v.data = u.data
  PROVE  v = [u EXCEPT !.valid = FALSE]
OBVIOUS

LEMMA Lowered ==
  ASSUME PortW.valid, ~PortW'.valid, Front' = Front, file' = file
  PROVE  UpW' = [UpW EXCEPT !.valid = FALSE] /\ UpSent' = UpSent /\ UpImage' = UpImage
<1>1. \A n : Covered(n)' <=> Covered(n) BY DEF Covered, Covers
<1>2. \A n : ByteAt(n)' = ByteAt(n) BY DEF ByteAt, Covers
<1>3. UpSent' = UpSent BY <1>1 DEF UpSent, Number
<1>4. UpImage' = UpImage BY <1>2, <1>3 DEF UpImage, Number
<1>5. PortW'.valid = FALSE BY DEF PortW
<1>6. ByteAt(Front - 1)' = ByteAt(Front - 1)
  <2>1. PICK i : i = Front - 1 OBVIOUS
  <2>2. ByteAt(Front - 1)' = ByteAt(i)' BY <2>1 DEF ByteAt, Covers
  <2> QED BY <1>2, <2>1, <2>2
<1>7. UpW' = [UpW EXCEPT !.valid = FALSE]
  <2> DEFINE a == IF Front = 0 THEN FlashAddr(0) ELSE FlashAddr(Front - 1)
             b == IF Front = 0 THEN Flash!Erased ELSE ByteAt(Front - 1)
  <2>1. UpW = [valid |-> PortW.valid, addr |-> a, data |-> b] BY DEF UpW
  <2>2. UpW' = [valid |-> FALSE, addr |-> a, data |-> b] BY <1>5, <1>6 DEF UpW
  <2> HIDE DEF a, b
  <2>3. /\ UpW \in [valid : BOOLEAN, addr : {a}, data : {b}]
        /\ UpW' \in [valid : BOOLEAN, addr : {a}, data : {b}]
        /\ ~UpW'.valid /\ UpW'.addr = UpW.addr /\ UpW'.data = UpW.data
    <3>1. PortW.valid \in BOOLEAN BY DEF PortW
    <3> QED BY <2>1, <2>2, <3>1
  <2> QED BY <2>3, LoweredRecord, Zenon
<1> QED BY <1>3, <1>4, <1>7

LEMMA StoreView ==
  ASSUME PlainUploads, TransportInv, StreamInv, Upload!ProtocolInv, LastLatched, FlushMeant,
         Forwarded, Data(Head(rx)), ReceiveWriteData, Flash!TakesByte, Tick, UNCHANGED host_vars
  PROVE  Seen /\ LastLatched'
<1>1. Emitting /\ done' = done BY DEF Data
<1>2. PortW.valid BY <1>1 DEF PortW
<1>3. /\ Shown = data_count + 1 /\ Front \in Nat \ {0} /\ PortW = UpW
      /\ Front = FirstOf(Cur) + data_count + 1
  BY <1>2, PortShown
<1>4. /\ chunk # 0 /\ Whole \in Nat /\ Whole + 1 \in 1 .. Len(file) /\ Cur = file[Whole + 1]
      /\ data_count \in Nat /\ payload_size = Cur[5]
  BY <1>1, EmitsFile
<1>5. UNCHANGED <<host, data, chunk, file, written>> BY DEF host_vars
<1>6. /\ PlainBlock(Cur) /\ Cur \in [1 .. SectorLen -> Nat]
      /\ byte_count > 0 => Decoded(Cur)
      /\ byte_count \in 0 .. LastToken
      /\ byte_count < LastToken => Whole' = Whole
  <2>1. Consume(Head(rx)) BY DEF Consume
  <2> QED BY <1>4, <1>5, <2>1, FileTokenStep
<1>7. /\ byte_count < LastToken /\ uf2_state' = "DATA" /\ data_count' = data_count + 1
      /\ data_count < Cur[5] /\ payload_size' = payload_size
  <2>1. PICK s : s = Cur OBVIOUS
  <2>2. s \in [1 .. SectorLen -> Nat] /\ PlainBlock(s) /\ (byte_count > 0 => Decoded(s))
    BY <1>6, <2>1
  <2>3. byte_count = 0 => uf2_state = "HEADER" BY DEF StreamInv
  <2>4. byte_count < LastToken /\ uf2_state' = "DATA" /\ data_count' = data_count + 1
        /\ data_count < s[5]
    BY <1>6, <2>2, <2>3, PayloadStep
  <2> QED BY <2>1, <2>4 DEF Data
<1>8. Whole' = Whole BY <1>6, <1>7
<1>9. Upload!TakesByte /\ addr_latch' = UpW.addr BY <1>3, UploadTakes
<1>10. UpFlush' = UpFlush /\ StreamTypes
  <2>1. done = FALSE /\ pending = FALSE BY <1>4, NoFlushYet
  <2> QED BY <1>1, <2>1 DEF UpFlush, Tick, StreamInv
<1>11. UpW.addr = FlashAddr(Front - 1) BY <1>3 DEF UpW
<1>12. FirstOf(Cur) \in Nat /\ Cur[5] \in Nat BY <1>4, <1>10, BlockPlaced
<1>13. CASE PortW'.valid
  <2> DEFINE d == data_count + 1
             k == Whole + 1
             f == FirstOf(Cur)
  <2>1. d \in Nat /\ d < Cur[5] /\ d > 0
    <3>1. data_count' # payload_size' BY <1>13 DEF PortW, Emitting
    <3> QED BY <1>4, <1>7, <1>12, <3>1
  <2>2. Shown' = d + 1 BY <1>7, <1>13 DEF Shown
  <2>3. Front' = f + d + 1
    <3>1. Shown' > 0 BY <2>1, <2>2
    <3>2. Front' = FirstOf(file[Whole + 1]) + Shown' BY <1>5, <1>8, <3>1 DEF Front, FrontAt, FirstOf
    <3> HIDE DEF d, f
    <3>3. Front' = f + (d + 1) BY <1>4, <2>2, <3>2 DEF f
    <3> QED BY <1>12, <2>1, <3>3 DEF f
  <2>4. Front = FrontAt(k, d) BY <1>3 DEF Front
  <2>5. UpW.addr \in Flash!Addr
    <3>1. Covers(k, Front - 1) BY <1>2, PortShown
    <3>2. Front - 1 \in 0 .. AddrSpace - 1 BY <1>4, <1>10, <3>1, ByteCovered
    <3> QED BY <1>11, <3>2, NumberAddressed
  <2>6. \E a \in Upload!Addr : \E b \in Bytes(a) : Upload!Put(UpW.addr, a, b)
    <3>1. k \in 1 .. Len(file) /\ d < file[k][5] BY <1>4, <2>1
    <3>2. Front' = FirstOf(file[k]) + d + 1 BY <1>4, <2>3
    <3> HIDE DEF d, k
    <3> QED BY <1>5, <1>10, <1>11, <1>13, <2>1, <2>4, <2>5, <3>1, <3>2, Advance
  <2>7. Upload!TakeByte BY <1>9, <1>10, <2>6 DEF Upload!TakeByte
  <2>8. UpW'.valid BY <1>13 DEF UpW
  <2>9. LastLatched' BY <1>13 DEF LastLatched
  <2> QED BY <2>7, <2>8, <2>9 DEF Seen
<1>14. CASE ~PortW'.valid
  <2>1. Shown' = Shown BY <1>3, <1>4, <1>7, <1>14 DEF Shown
  <2>2. Front' = Front BY <1>5, <1>8, <2>1 DEF Front, FrontAt, FirstOf, EndOf
  <2>3. UpW' = [UpW EXCEPT !.valid = FALSE] /\ UpSent' = UpSent /\ UpImage' = UpImage
    BY <1>2, <1>5, <1>14, <2>2, Lowered
  <2>4. Upload!TakeByte BY <1>9, <1>10, <2>3 DEF Upload!TakeByte
  <2>5. LastLatched'
    <3>1. addr_latch' = FlashAddr(Front - 1) BY <1>9, <1>11
    <3> QED BY <2>2, <3>1 DEF LastLatched, FlashAddr
  <2> QED BY <2>2, <2>4, <2>5 DEF Seen
<1> QED BY <1>13, <1>14

\* The end of the payload.
LEMMA DataEndView ==
  ASSUME PlainUploads, TransportInv, StreamInv, LastLatched, FlushMeant,
         DataEnd, UNCHANGED <<scsi, flash, host_vars>>, Tick
  PROVE  Seen /\ LastLatched'
<1>1. /\ uf2_state = "DATA" /\ data_count = payload_size /\ uf2_state' = "PAD"
      /\ UNCHANGED <<payload_size, done>>
  BY DEF DataEnd, uf2_header
<1>2. UNCHANGED <<host, data, chunk, file, written>> BY DEF host_vars
<1>3. Pos' = Pos /\ chunk # 0 /\ byte_count > 0 BY <1>2, DataEndStep
<1>4. PortW'.valid = PortW.valid /\ ~PortW.valid BY <1>1 DEF PortW, Emitting
<1>5. Shown' = Shown
  <2>1. payload_size \in Nat
    <3>1. Decoded(Cur) /\ PlainBlock(Cur) /\ Cur \in [1 .. SectorLen -> Nat]
      BY <1>2, <1>3, DataEndStep, AtSector
    <3>2. payload_size = Cur[5] /\ IsBlock(Cur) BY <1>1, <3>1 DEF Decoded, BlockRead
    <3> QED BY <3>1, <3>2, PlainBlockFits
  <2> QED BY <1>1, <1>4, <2>1 DEF Shown
<1>6. Front' = Front BY <1>2, <1>3, <1>5 DEF Front, FrontAt, FirstOf, EndOf, Whole
<1>7. UpFlush' = UpFlush BY <1>1 DEF UpFlush, Tick, FlushMeant
<1> QED BY <1>2, <1>4, <1>6, <1>7, SameView

\* The flash on its own.
LEMMA AloneView ==
  ASSUME LastLatched, FlushMeant, UNCHANGED <<scsi, uf2, host_vars>>,
         \/ Flash!WorksAlone /\ Tick
         \/ Flash!WriteEnds /\ UNCHANGED <<flash_fsm, pending>>
  PROVE  Seen /\ LastLatched' /\ UpFlush' = UpFlush
<1>1. /\ UNCHANGED <<uf2_state, data_count, payload_size, done, file>> /\ Pos' = Pos
      /\ PortW'.valid = PortW.valid
  BY DEF uf2, uf2_header, host_vars, scsi, scsi_regs, Pos, EndSector, Left, CbwLeft, PortW,
         Emitting, Forwarded
<1>2. Shown' = Shown
  <2>1. (IF PortW'.valid THEN 1 ELSE 0) = IF PortW.valid THEN 1 ELSE 0 BY <1>1
  <2> QED BY <1>1, <2>1, Zenon DEF Shown
<1>3. Front' = Front BY <1>1, <1>2 DEF Front, FrontAt, FirstOf, EndOf, Whole
<1>4. UpFlush' = UpFlush BY <1>1 DEF UpFlush, Tick, FlushMeant
<1>5. UpW' = UpW /\ UpSent' = UpSent /\ UpImage' = UpImage BY <1>1, <1>3, PortSame
<1>6. UNCHANGED Upload!port BY <1>4, <1>5 DEF Upload!port
<1>7. CASE Flash!WorksAlone
  <2>1. Upload!WorksAlone /\ addr_latch' = addr_latch BY <1>7, UploadWorks
  <2>2. LastLatched' BY <1>1, <1>3, <2>1 DEF LastLatched, FlashAddr
  <2> QED BY <1>3, <1>4, <1>6, <2>1, <2>2 DEF Seen
<1>8. CASE Flash!WriteEnds /\ UNCHANGED flash_fsm
  <2>1. Upload!WriteEnds BY <1>8 DEF Flash!WriteEnds, Upload!WriteEnds
  <2>2. UNCHANGED Upload!fsm /\ addr_latch' = addr_latch
    BY <1>8 DEF flash_fsm, Upload!fsm, Upload!regs
  <2>3. Upload!DeviceStep BY <1>6, <2>1, <2>2 DEF Upload!DeviceStep
  <2>4. LastLatched' BY <1>1, <1>3, <2>2 DEF LastLatched, FlashAddr
  <2> QED BY <1>3, <1>4, <2>3, <2>4 DEF Seen
<1> QED BY <1>7, <1>8

-----------------------------------------------------------------------------
(* The steps of the specification, but for the bus reset. *)

Working == [Gateware \/ DeviceStep \/ Boot \/ HostStep \/ Start]_vars

\* What a step keeps: the stream, and the writer's view.
Follows == TransportInv' /\ StreamInv' /\ Seen /\ LastLatched'

LEMMA StillStream ==
  ASSUME TransportInv, StreamInv, UNCHANGED <<scsi, uf2, host_vars>>
  PROVE  TransportInv' /\ StreamInv' /\ Pos' = Pos /\ Untouched
<1>1. UNCHANGED <<host, data, chunk, file, written>> BY DEF host_vars
<1>2. TransportInv' /\ Left' = Left /\ \A j : Coming(j)' = Coming(j) BY <1>1, TransportStutter
<1>3. Untouched BY <1>1 DEF Untouched, uf2
<1>4. EndSector' = EndSector BY <1>1 DEF EndSector
<1>5. Pos' = Pos BY <1>1, <1>2, <1>4 DEF Pos
<1>6. Forwarding' = Forwarding /\ Preparing' = Preparing
  BY DEF scsi, scsi_regs, Forwarding, Preparing
<1>7. written' \in Nat BY <1>1 DEF StreamInv, StreamTypes
<1>8. StreamInv' BY <1>2, <1>3, <1>4, <1>6, <1>7, StreamKept DEF Untouched
<1> QED BY <1>2, <1>3, <1>5, <1>8

\* The handler's steps that take no data.
LEMMA HandlerFollows ==
  ASSUME PlainUploads, Inv, Tick, UNCHANGED <<flash, host_vars>>,
         \/ (ScsiAlone \/ SendCswPrep(error)) /\ UNCHANGED uf2
         \/ Dispatch /\ Clear
  PROVE  Follows /\ Pos' = Pos
<1>1. /\ TransportInv /\ StreamInv /\ Upload!ProtocolInv /\ LastLatched /\ FlushMeant
  BY DEF Inv, StoredInv
<1>2. UNCHANGED <<host, data, chunk, file, written>> /\ Untouched
  BY DEF host_vars, uf2, Clear, Untouched
<1>3. TransportInv' /\ StreamInv' /\ Pos' = Pos BY <1>1, <1>2, HandlerStreamStep
<1>4. ~PortW.valid
  <2>1. scsi_state # "RECEIVE_WRITE_DATA"
    BY <1>1, HandlerAlone DEF SendCswPrep, Dispatch, ReceiveCbw, SendCsw
  <2> QED BY <2>1 DEF PortW, Forwarded
<1>5. UpFlush' = UpFlush
  <2>1. pending' = (pending \/ done) /\ done \in BOOLEAN /\ pending \in BOOLEAN
        /\ (done' = done \/ done' = FALSE)
    BY <1>1 DEF FlushMeant, Tick, uf2, Clear
  <2> QED BY <2>1 DEF UpFlush
<1>6. Seen /\ LastLatched' BY <1>1, <1>2, <1>3, <1>4, <1>5, QuietView
<1> QED BY <1>3, <1>6 DEF Follows

LEMMA DecodeFollows ==
  ASSUME PlainUploads, Inv, DecodeByte, Tick, UNCHANGED host_vars
  PROVE  Follows /\ (chunk = 0 => Pos' = Pos)
<1>1. /\ TransportInv /\ StreamInv /\ Upload!ProtocolInv /\ LastLatched /\ FlushMeant
  BY DEF Inv, StoredInv
<1>2. UNCHANGED <<host, data, chunk, file, written>> BY DEF host_vars
<1> DEFINE t == Head(rx)
<1>3. /\ Header(t) \/ Pad(t) \/ Final(t) \/ Discard(t)
      /\ ReceiveWriteData /\ UNCHANGED flash /\ ~csw_status
  BY DEF DecodeByte, Forwarded
<1>4. Consume(t) BY <1>3 DEF Consume
<1>5. CASE chunk # 0
  <2>1. TransportInv' /\ StreamInv' BY <1>1, <1>2, <1>3, <1>4, <1>5, FileTokenStep
  <2>2. Seen /\ LastLatched' BY <1>1, <1>3, <1>5, HeaderView, RestView
  <2> QED BY <1>5, <2>1, <2>2 DEF Follows
<1>6. CASE chunk = 0
  <2>1. TransportInv' /\ StreamInv' /\ Pos' = Pos
    BY <1>1, <1>2, <1>3, <1>4, <1>6, StrayTokenStep
  <2>2. Seen /\ LastLatched' BY <1>1, <1>3, <1>4, <1>6, StrayView
  <2> QED BY <2>1, <2>2 DEF Follows
<1> QED BY <1>5, <1>6

LEMMA StoreFollows ==
  ASSUME PlainUploads, Inv, StoreByte, Tick, UNCHANGED host_vars
  PROVE  Follows /\ chunk # 0
<1>1. /\ TransportInv /\ StreamInv /\ Upload!ProtocolInv /\ LastLatched /\ FlushMeant
  BY DEF Inv, StoredInv
<1>2. UNCHANGED <<host, data, chunk, file, written>> BY DEF host_vars
<1>3. /\ Forwarded /\ Data(Head(rx)) /\ ReceiveWriteData /\ Flash!TakesByte /\ Consume(Head(rx))
  BY DEF StoreByte, Consume
<1>4. chunk # 0 BY <1>1, <1>3, EmitsFile DEF Data
<1>5. TransportInv' /\ StreamInv' BY <1>1, <1>2, <1>3, <1>4, FileTokenStep
<1>6. Seen /\ LastLatched' BY <1>1, <1>3, StoreView
<1> QED BY <1>4, <1>5, <1>6 DEF Follows

LEMMA DropFollows ==
  ASSUME PlainUploads, Inv, DropByte, Tick, UNCHANGED host_vars
  PROVE  Follows /\ chunk = 0 /\ Pos' = Pos
<1>1. /\ TransportInv /\ StreamInv /\ Upload!ProtocolInv /\ LastLatched /\ FlushMeant
  BY DEF Inv, StoredInv
<1>2. UNCHANGED <<host, data, chunk, file, written>> BY DEF host_vars
<1>3. ReceiveWriteData /\ csw_status /\ UNCHANGED <<uf2, flash>>
  BY DEF DropByte, Forwarded, ReceiveWriteData
<1>4. chunk = 0 BY <1>1, <1>2, <1>3, WriteDataStep
<1>5. Untouched BY <1>2, <1>3 DEF Untouched, uf2
<1>6. TransportInv' /\ StreamInv' /\ Pos' = Pos
  BY <1>1, <1>2, <1>3, <1>4, <1>5, StrayTokenStep
<1>7. Seen /\ LastLatched' BY <1>1, <1>3, <1>4, StrayView
<1> QED BY <1>4, <1>6, <1>7 DEF Follows

LEMMA EndFollows ==
  ASSUME PlainUploads, Inv, DataEnd, Tick, UNCHANGED <<scsi, flash, host_vars>>
  PROVE  Follows /\ Pos' = Pos
<1>1. TransportInv /\ StreamInv /\ LastLatched /\ FlushMeant BY DEF Inv, StoredInv
<1>2. UNCHANGED <<host, data, chunk, file, written>> BY DEF host_vars
<1>3. TransportInv' /\ StreamInv' /\ Pos' = Pos BY <1>1, <1>2, DataEndStep
<1>4. Seen /\ LastLatched' BY <1>1, DataEndView
<1> QED BY <1>3, <1>4 DEF Follows

LEMMA AloneFollows ==
  ASSUME Inv, UNCHANGED <<scsi, uf2, host_vars>>,
         \/ Flash!WorksAlone /\ Tick
         \/ Flash!WriteEnds /\ UNCHANGED <<flash_fsm, pending>>
  PROVE  Follows /\ Pos' = Pos
<1>1. TransportInv /\ StreamInv /\ LastLatched /\ FlushMeant BY DEF Inv, StoredInv
<1> QED BY <1>1, StillStream, AloneView DEF Follows

\* The host's steps, the reboot, and a step of something else.
LEMMA OutsideFollows ==
  ASSUME PlainUploads, Inv, HostStep \/ Boot \/ UNCHANGED vars
  PROVE  Follows /\ Pos' = Pos
<1>1. /\ TransportInv /\ StreamInv /\ Upload!ProtocolInv /\ LastLatched /\ FlushMeant
  BY DEF Inv, StoredInv
<1>2. UNCHANGED <<uf2, flash, pending, file>>
  BY DEF HostStep, SendPacket, TakeStatus, Boot, vars, host_vars
<1>3. TransportInv' /\ StreamInv' /\ Pos' = Pos /\ Untouched
  <2>1. CASE HostStep
    <3>1. Untouched BY <2>1 DEF Untouched, HostStep, SendPacket, TakeStatus, uf2
    <3> QED BY <1>1, <2>1, <3>1, HostStreamStep
  <2>2. CASE Boot \/ UNCHANGED vars BY <1>1, <2>2, StillStream DEF Boot, vars
  <2> QED BY <2>1, <2>2
<1>4. UpFlush' = UpFlush BY <1>2 DEF UpFlush, uf2
<1>5. PortW.valid => Forwarded'
  <2> SUFFICES ASSUME Forwarded PROVE Forwarded' BY DEF PortW
  <2>1. CASE SendPacket
    <3>1. Len(rx') # 0
      <4>1. rx \in Seq(Nat) /\ data \in Seq(Nat) /\ Len(rx) \in Nat \ {0}
        BY <1>1 DEF TransportInv, TransportTypes, Forwarded
      <4>2. PICK n : /\ n = IF Len(data) < MaxPacket THEN Len(data) ELSE MaxPacket
                     /\ rx' = rx \o SubSeq(data, 1, n)
        BY <2>1 DEF SendPacket
      <4>3. n \in Nat /\ n <= Len(data) BY <4>1, <4>2, Sizes
      <4>4. SubSeq(data, n + 1, Len(data)) = SubSeq(data, n + 1, Len(data)) OBVIOUS
      <4>5. Len(rx') = Len(rx) + n BY <4>1, <4>2, <4>3, TokensMoved
      <4> QED BY <4>1, <4>3, <4>5
    <3>2. rx' # <<>> BY <3>1
    <3> QED BY <2>1, <3>2 DEF SendPacket, Forwarded, scsi_regs
  <2>2. CASE TakeStatus BY <2>2 DEF TakeStatus, Forwarded, scsi_regs
  <2>3. CASE Boot \/ UNCHANGED vars BY <2>3 DEF Boot, vars, scsi, scsi_regs, Forwarded
  <2> QED BY <2>1, <2>2, <2>3 DEF HostStep
<1>6. Seen /\ LastLatched' BY <1>1, <1>2, <1>3, <1>4, <1>5, QuietView
<1> QED BY <1>3, <1>6 DEF Follows

LEMMA StartFollows ==
  ASSUME PlainUploads, Inv, Start
  PROVE  Follows /\ Pos' = Pos /\ UNCHANGED <<done, pending, scsi_state, written, file>>
<1>1. TransportInv /\ StreamInv /\ LastLatched BY DEF Inv, StoredInv
<1>2. \E op, length, lba : Issue(op, length, lba) BY DEF Start, WriteFile, WriteStray, TestUnitReady
<1>3. /\ host = "idle" /\ UNCHANGED <<uf2, flash, pending, scsi_state, file, written>>
      /\ UNCHANGED <<uf2_state, done>>
  BY <1>2 DEF Issue, uf2
<1>4. TransportInv' /\ StreamInv' /\ Pos' = Pos
  BY <1>1, WriteFileStep, WriteStrayStep, TestUnitReadyStep DEF Start
<1>5. uf2_state = "HEADER" BY <1>1, <1>3, SectorStart
<1>6. UpFlush' = UpFlush BY <1>3 DEF UpFlush
<1>7. Seen /\ LastLatched' BY <1>1, <1>3, <1>4, <1>5, <1>6, HiddenView
<1> QED BY <1>3, <1>4, <1>7 DEF Follows

LEMMA FollowStep == ASSUME PlainUploads, Inv, Working PROVE Follows
<1>1. CASE Gateware
  <2>1. Tick /\ UNCHANGED host_vars BY <1>1 DEF Gateware
  <2>2. CASE (ScsiAlone \/ SendCswPrep(error)) /\ UNCHANGED <<uf2, flash>>
    BY <2>1, <2>2, HandlerFollows
  <2>3. CASE DispatchAndClear BY <2>1, <2>3, HandlerFollows DEF DispatchAndClear
  <2>4. CASE DecodeByte BY <2>1, <2>4, DecodeFollows
  <2>5. CASE StoreByte BY <2>1, <2>5, StoreFollows
  <2>6. CASE DropByte BY <2>1, <2>6, DropFollows
  <2>7. CASE DataEnd /\ UNCHANGED <<scsi, flash>> BY <2>1, <2>7, EndFollows
  <2>8. CASE Flash!WorksAlone /\ UNCHANGED <<scsi, uf2>> BY <2>1, <2>8, AloneFollows
  <2> QED BY <1>1, <2>2, <2>3, <2>4, <2>5, <2>6, <2>7, <2>8 DEF Gateware
<1>2. CASE DeviceStep BY <1>2, AloneFollows DEF DeviceStep
<1>3. CASE HostStep \/ Boot \/ UNCHANGED vars BY <1>3, OutsideFollows
<1>4. CASE Start BY <1>4, StartFollows
<1> QED BY <1>1, <1>2, <1>3, <1>4 DEF Working

-----------------------------------------------------------------------------
(* The flush, and what it means. *)

LEMMA MeantKept ==
  ASSUME FlushMeant, done' \in BOOLEAN, pending' \in BOOLEAN, done' => done,
         pending' => pending \/ done, done' => scsi_state' # "RECEIVE_WRITE_DATA", file' = file,
         done \/ pending => Pos' = Pos /\ written' = written
  PROVE  FlushMeant'
<1>1. done \/ pending => Whole' = Whole BY DEF Whole
<1>2. SectorLen' = SectorLen /\ MAGIC_END' = MAGIC_END BY DEF SectorLen, HeaderLen
<1>3. done' \/ pending' => Whole' = Len(file') /\ written' = Len(file') /\ file'[Len(file')][SectorLen] = MAGIC_END
  BY <1>1 DEF FlushMeant
<1> QED BY <1>2, <1>3 DEF FlushMeant

\* The last sector's last token is the last of the command's data: the host has
\* sent all of the file.
LEMMA LastSector ==
  ASSUME PlainUploads, TransportInv, StreamInv, chunk # 0, Left > 0,
         byte_count = LastToken, Whole + 1 = Len(file)
  PROVE  Left = 1 /\ EndSector = Len(file)
<1> DEFINE S == SectorLen
           p == Pos
           L == Left
           E == EndSector
<1>1. /\ Whole \in Nat /\ Whole < E /\ L \in Nat \ {0} /\ p \in Nat /\ p % S = byte_count
  BY AtSector
<1>2. E \in Nat /\ E <= Len(file) BY DEF StreamInv, StreamTypes, EndSector
<1>3. E = Whole + 1 BY <1>1, <1>2
<1>4. p = E * S - L /\ Whole = p \div S BY DEF Pos, Whole
<1>5. S \in Nat \ {0} /\ byte_count = S - 1 BY Sizes
<1>6. p = S * Whole + (S - 1)
  <2> DEFINE q == Whole
             r == byte_count
  <2>1. q \in Nat /\ p \in Nat /\ q = p \div S /\ r = p % S /\ r = S - 1 BY <1>1, <1>4, <1>5
  <2> HIDE DEF S, p, L, E, q, r
  <2>2. p = S * q + r BY <1>5, <2>1, SMT
  <2>3. p = S * q + (S - 1) BY <2>1, <2>2
  <2> QED BY <2>3 DEF q
<1>7. E * S = S * Whole + S /\ S * Whole \in Nat
  <2> DEFINE q == Whole
  <2> HIDE DEF S, p, L, E, q
  <2>1. q \in Nat /\ E = q + 1 BY <1>1, <1>3 DEF q
  <2>2. E * S = S * q + S /\ S * q \in Nat BY <1>5, <2>1, SMT
  <2> QED BY <2>2 DEF q
<1>8. L = 1
  <2> DEFINE x == S * Whole
             y == E * S
  <2>1. x \in Nat /\ y = x + S /\ p = x + (S - 1) /\ p = y - L BY <1>4, <1>6, <1>7
  <2> HIDE DEF S, p, L, E, x, y
  <2> QED BY <1>1, <1>5, <2>1
<1> QED BY <1>3, <1>8

LEMMA AllSentNext ==
  ASSUME TransportInv', Left' = 0
  PROVE  host' # "data_out"
<1>1. rx' \in Seq(Nat) /\ data' \in Seq(Nat) /\ CbwLeft' <= Len(rx') /\ CbwLeft' \in Nat
  <2>1. rx' \in Seq(Nat) /\ data' \in Seq(Nat) /\ cbw_count' \in 0 .. 4
    BY DEF TransportInv, TransportTypes, CbwLen
  <2>2. CbwLeft' <= Len(rx') BY DEF TransportInv, StagesMatch
  <2>3. CbwLeft' \in Nat
    <3>1. CbwLeft' = 5 - cbw_count' \/ CbwLeft' = 0 BY DEF CbwLeft, CbwLen
    <3>2. ASSUME NEW c \in 0 .. 4 PROVE 5 - c \in Nat OBVIOUS
    <3> QED BY <2>1, <3>1, <3>2
  <2> QED BY <2>1, <2>2, <2>3
<1>2. Len(data') = 0
  <2> DEFINE x == Len(rx')
             y == Len(data')
             z == CbwLeft'
  <2>1. x \in Nat /\ y \in Nat /\ z \in Nat /\ z <= x /\ x + y - z = 0 BY <1>1 DEF Left
  <2> HIDE DEF x, y, z
  <2>2. y = 0 BY <2>1
  <2> QED BY <2>2 DEF y
<1>3. data' = <<>> BY <1>1, <1>2
<1> QED BY <1>3 DEF TransportInv, StagesMatch

\* The end of a block asks for the flush if it is the end of the file.
LEMMA FinalMeant ==
  ASSUME PlainUploads, TransportInv, StreamInv, FlushMeant, chunk # 0,
         ReceiveWriteData, Final(Head(rx)), Tick, UNCHANGED host_vars
  PROVE  FlushMeant'
<1> DEFINE t == Head(rx)
           k == Whole + 1
<1>1. UNCHANGED <<host, data, chunk, file, written>> BY DEF host_vars
<1>2. /\ TransportInv' /\ Left \in Nat \ {0} /\ Left' = Left - 1
      /\ Forwarding' = (~csw_status /\ Left > 1) /\ ~csw_status
  BY <1>1, WriteDataStep
<1>3. /\ Whole \in Nat /\ k \in 1 .. Len(file)
      /\ byte_count > 0 => Decoded(Cur)
      /\ Head(rx) = Cur[byte_count + 1] /\ byte_count \in 0 .. LastToken
      /\ byte_count = LastToken => Whole' = Whole + 1
  <2>1. Consume(Head(rx)) BY DEF Consume
  <2> QED BY <1>1, <2>1, FileTokenStep
<1>4. done = FALSE /\ pending = FALSE BY <1>3, NoFlushYet
<1>5. uf2_state = "FINAL" BY DEF Final
<1>6. byte_count # 0 BY <1>5 DEF StreamInv
<1>7. byte_count = LastToken /\ BlockRead(Cur)
  <2>1. Decoded(Cur) BY <1>3, <1>6
  <2> QED BY <1>5, <2>1 DEF Decoded
<1>8. done' = (done \/ (t = MAGIC_END /\ blockNo = numBlocks - 1)) /\ pending' = (pending \/ done)
  BY <1>7 DEF Final, Tick
<1>9. pending' = FALSE BY <1>4, <1>8
<1>10. CASE ~done'
  <2>1. done' = FALSE BY <1>4, <1>8, <1>10
  <2> QED BY <1>9, <2>1 DEF FlushMeant
<1>11. CASE done'
  <2>1. done' = TRUE /\ t = MAGIC_END /\ blockNo = numBlocks - 1 BY <1>4, <1>8, <1>11
  <2>2. k = Len(file)
    <3> SUFFICES ASSUME k # Len(file) PROVE FALSE OBVIOUS
    <3>1. Len(file) \in Nat /\ PlainFile(file) BY PlainSectors DEF StreamInv, StreamTypes, PlainUploads
    <3>2. k \in 1 .. Len(file) - 1 BY <1>3, <3>1
    <3>3. file[k][6] # file[k][7] - 1
      <4> HIDE DEF k
      <4> QED BY <3>1, <3>2 DEF PlainFile, InOrder
    <3>4. Cur[6] = Cur[7] - 1 BY <1>7, <2>1 DEF BlockRead
    <3> QED BY <3>3, <3>4 DEF Cur
  <2>3. Left = 1 /\ EndSector = Len(file) BY <1>2, <1>7, <2>2, LastSector
  <2>4. Left' = 0 BY <1>2, <2>3
  <2>5. EndSector = written
    <3>1. host' # "data_out" BY <1>2, <2>4, AllSentNext
    <3> QED BY <1>1, <3>1 DEF EndSector
  <2>6. written' = Len(file') /\ Whole' = Len(file') BY <1>1, <1>3, <1>7, <2>2, <2>3, <2>5
  <2>7. file[Len(file)][SectorLen] = MAGIC_END
    <3>1. LastToken + 1 = SectorLen BY Sizes
    <3>2. t = file[k][LastToken + 1] BY <1>3, <1>7 DEF Cur
    <3> QED BY <2>1, <2>2, <3>1, <3>2
  <2>8. scsi_state' # "RECEIVE_WRITE_DATA"
    <3>1. ~(Left > 1) BY <2>3
    <3>2. ~Forwarding' BY <1>2, <3>1
    <3>3. ~csw_status' BY <1>2 DEF ReceiveWriteData
    <3> QED BY <3>2, <3>3 DEF Forwarding
  <2> QED BY <1>1, <1>9, <2>1, <2>6, <2>7, <2>8 DEF FlushMeant, SectorLen, HeaderLen
<1> QED BY <1>10, <1>11

\* No token of the file comes behind the end of the file.
LEMMA FileEnded ==
  ASSUME PlainUploads, TransportInv, StreamInv, Whole = Len(file)
  PROVE  /\ uf2_state \in {"HEADER", "DISCARD"} /\ ~PortW.valid /\ Shown = 0
         /\ Front = EndOf(file[Len(file)])
         /\ chunk # 0 => Left = 0
<1>1. Len(file) \in Nat \ {0} BY PlainSectors DEF StreamInv
<1>2. ASSUME chunk # 0 PROVE Left = 0 /\ byte_count = 0
  <2>1. ~(Whole + 1 \in 1 .. Len(file)) BY <1>1
  <2>2. ~(Left > 0 \/ byte_count > 0) BY <1>2, <2>1, AtSector
  <2>3. Left \in Nat /\ byte_count \in 0 .. LastToken BY LeftCounts DEF StreamInv, StreamTypes
  <2> QED BY <2>2, <2>3, Sizes
<1>3. uf2_state \in {"HEADER", "DISCARD"} BY <1>2, StraySkipped DEF StreamInv
<1>4. ~PortW.valid /\ Shown = 0 BY <1>3 DEF PortW, Emitting, Shown
<1>5. Front = EndOf(file[Len(file)])
  <2> DEFINE m == Len(file)
  <2>1. Front = FrontAt(m + 1, 0) BY <1>4 DEF Front
  <2>2. m + 1 > 1 /\ (m + 1) - 1 = m BY <1>1
  <2> HIDE DEF m
  <2>3. Front = EndOf(file[m]) BY <2>1, <2>2 DEF FrontAt
  <2> QED BY <2>3 DEF m
<1> QED BY <1>2, <1>3, <1>4, <1>5

\* A step without a bus reset keeps the stream, and the flush says what it said.
LEMMA StreamMeans ==
  ASSUME PlainUploads, TransportInv, StreamInv, FlushMeant, Working
  PROVE  TransportInv' /\ StreamInv' /\ FlushMeant'
<1>1. done \in BOOLEAN /\ pending \in BOOLEAN BY DEF FlushMeant
<1>2. ASSUME Tick, UNCHANGED host_vars, Pos' = Pos, done' \in BOOLEAN, done' => done,
             done' => scsi_state' # "RECEIVE_WRITE_DATA"
      PROVE  FlushMeant'
  <2>1. file' = file /\ written' = written BY <1>2 DEF host_vars
  <2>2. pending' = (pending \/ done) BY <1>2 DEF Tick
  <2>3. pending' \in BOOLEAN /\ (pending' => pending \/ done) BY <1>1, <2>2, Zenon
  <2> QED BY <1>2, <2>1, <2>3, MeantKept
<1>3. CASE Gateware
  <2>1. Tick /\ UNCHANGED host_vars BY <1>3 DEF Gateware
  <2>2. UNCHANGED <<host, data, chunk, file, written>> BY <2>1 DEF host_vars
  <2>3. CASE (ScsiAlone \/ SendCswPrep(error)) /\ UNCHANGED <<uf2, flash>>
    <3>1. Untouched BY <2>2, <2>3 DEF Untouched, uf2
    <3>2. TransportInv' /\ StreamInv' /\ Pos' = Pos BY <2>2, <2>3, <3>1, HandlerStreamStep
    <3>3. done' = done BY <2>3 DEF uf2
    <3>4. scsi_state' # "RECEIVE_WRITE_DATA"
      BY <2>3, HandlerAlone DEF SendCswPrep, ReceiveCbw, SendCsw
    <3> QED BY <1>1, <1>2, <2>1, <3>2, <3>3, <3>4
  <2>4. CASE DispatchAndClear
    <3>1. Dispatch /\ Clear BY <2>4 DEF DispatchAndClear
    <3>2. Untouched BY <2>2, <3>1 DEF Untouched, Clear
    <3>3. TransportInv' /\ StreamInv' /\ Pos' = Pos BY <2>2, <3>1, <3>2, HandlerStreamStep
    <3>4. done' = FALSE BY <3>1 DEF Clear
    <3> QED BY <1>1, <1>2, <2>1, <3>3, <3>4
  <2>5. CASE DecodeByte
    <3> DEFINE t == Head(rx)
    <3>1. /\ Header(t) \/ Pad(t) \/ Final(t) \/ Discard(t)
          /\ ReceiveWriteData /\ scsi_state = "RECEIVE_WRITE_DATA" /\ ~csw_status /\ Consume(t)
      BY <2>5 DEF DecodeByte, ReceiveWriteData, Forwarded, Consume
    <3>2. done = FALSE BY <1>1, <3>1 DEF FlushMeant
    <3>3. CASE chunk = 0
      <4>1. TransportInv' /\ StreamInv' /\ Pos' = Pos BY <2>2, <3>1, <3>3, StrayTokenStep
      <4>2. uf2_state \in {"HEADER", "DISCARD"} BY <3>3, StraySkipped
      <4>3. done' = FALSE BY <3>1, <3>2, <4>2 DEF Header, Pad, Final, Discard
      <4> QED BY <1>1, <1>2, <2>1, <4>1, <4>3
    <3>4. CASE chunk # 0
      <4>1. TransportInv' /\ StreamInv' /\ Whole \in Nat /\ Whole + 1 \in 1 .. Len(file)
        BY <2>2, <3>1, <3>4, FileTokenStep
      <4>2. CASE Final(t) BY <2>1, <3>1, <3>4, <4>1, <4>2, FinalMeant
      <4>3. CASE ~Final(t)
        <5>1. done' = FALSE BY <3>1, <3>2, <4>3 DEF Header, Pad, Discard
        <5>2. pending = FALSE BY <4>1, NoFlushYet
        <5>3. pending' = (pending \/ done) BY <2>1 DEF Tick
        <5>4. pending' = FALSE BY <3>2, <5>2, <5>3
        <5> QED BY <4>1, <5>1, <5>4 DEF FlushMeant
      <4> QED BY <4>2, <4>3
    <3> QED BY <3>3, <3>4
  <2>6. CASE StoreByte
    <3>1. /\ Emitting /\ ReceiveWriteData /\ Consume(Head(rx)) /\ done' = done
      BY <2>6 DEF StoreByte, Consume, Data
    <3>2. chunk # 0 BY <3>1, EmitsFile
    <3>3. TransportInv' /\ StreamInv' /\ Whole \in Nat /\ Whole + 1 \in 1 .. Len(file)
      BY <2>2, <3>1, <3>2, FileTokenStep
    <3>4. done = FALSE /\ pending = FALSE BY <3>3, NoFlushYet
    <3>5. done' = FALSE /\ pending' = FALSE BY <2>1, <3>1, <3>4 DEF Tick
    <3> QED BY <3>3, <3>5 DEF FlushMeant
  <2>7. CASE DropByte
    <3>1. ReceiveWriteData /\ csw_status /\ UNCHANGED uf2
      BY <2>7 DEF DropByte, Forwarded, ReceiveWriteData
    <3>2. chunk = 0 BY <2>2, <3>1, WriteDataStep
    <3>3. Untouched BY <2>2, <3>1 DEF Untouched, uf2
    <3>4. TransportInv' /\ StreamInv' /\ Pos' = Pos BY <2>2, <3>1, <3>2, <3>3, StrayTokenStep
    <3>5. done' = done /\ done = FALSE
      BY <1>1, <3>1 DEF ReceiveWriteData, FlushMeant, uf2
    <3> QED BY <1>1, <1>2, <2>1, <3>4, <3>5
  <2>8. CASE DataEnd /\ UNCHANGED <<scsi, flash>>
    <3>1. TransportInv' /\ StreamInv' /\ Pos' = Pos BY <2>2, <2>8, DataEndStep
    <3>2. done' = done /\ scsi_state' = scsi_state BY <2>8 DEF DataEnd, scsi
    <3> QED BY <1>1, <1>2, <2>1, <3>1, <3>2 DEF FlushMeant
  <2>9. CASE Flash!WorksAlone /\ UNCHANGED <<scsi, uf2>>
    <3>1. TransportInv' /\ StreamInv' /\ Pos' = Pos BY <2>1, <2>9, StillStream
    <3>2. done' = done /\ scsi_state' = scsi_state BY <2>9 DEF uf2, scsi
    <3> QED BY <1>1, <1>2, <2>1, <3>1, <3>2 DEF FlushMeant
  <2> QED BY <1>3, <2>3, <2>4, <2>5, <2>6, <2>7, <2>8, <2>9 DEF Gateware
<1>4. CASE DeviceStep \/ Boot \/ TakeStatus \/ Start \/ UNCHANGED vars
  <2>1. TransportInv' /\ StreamInv' /\ Pos' = Pos
    <3>1. CASE Start
      BY <3>1, WriteFileStep, WriteStrayStep, TestUnitReadyStep DEF Start
    <3>2. CASE TakeStatus BY <3>2, HostStreamStep DEF HostStep
    <3>3. CASE DeviceStep \/ Boot \/ UNCHANGED vars
      <4>1. UNCHANGED <<scsi, uf2, host_vars>> BY <3>3 DEF DeviceStep, Boot, vars
      <4> QED BY <4>1, StillStream
    <3> QED BY <1>4, <3>1, <3>2, <3>3
  <2>2. UNCHANGED <<done, pending, scsi_state, written, file>>
    BY <1>4 DEF DeviceStep, Boot, TakeStatus, vars, uf2, scsi, host_vars, Start, WriteFile,
                WriteStray, TestUnitReady, Issue
  <2> QED BY <1>1, <2>1, <2>2, MeantKept DEF FlushMeant
<1>5. CASE SendPacket
  <2>1. TransportInv' /\ StreamInv' /\ Pos' = Pos BY <1>5, HostStreamStep DEF HostStep
  <2>2. UNCHANGED <<done, pending, scsi_state, file>> BY <1>5 DEF SendPacket, uf2
  <2>3. done \/ pending => written' = written
    <3> SUFFICES ASSUME done \/ pending PROVE written' = written OBVIOUS
    <3>1. written = Len(file) BY DEF FlushMeant
    <3>2. EndSector = written + chunk /\ chunk \in Nat /\ written \in Nat /\ EndSector <= Len(file)
      BY <1>5 DEF SendPacket, EndSector, StreamInv, StreamTypes
    <3>3. chunk = 0 BY <3>1, <3>2
    <3>4. written' = written \/ written' = written + chunk BY <1>5 DEF SendPacket
    <3> QED BY <3>2, <3>3, <3>4
  <2> QED BY <1>1, <2>1, <2>2, <2>3, MeantKept DEF FlushMeant
<1> QED BY <1>3, <1>4, <1>5 DEF Working, HostStep

LEMMA MeantStep == ASSUME PlainUploads, Inv, Working PROVE FlushMeant'
BY StreamMeans DEF Inv, StoredInv

-----------------------------------------------------------------------------
(* Where the FSM is when the flush comes. *)

\* The FSM on its own puts no byte in the latch, and leaves WRITE_NEXT alone.
LEMMA LatchStays ==
  ASSUME Upload!WorksAlone
  PROVE  /\ Upload!LatchLive' => Upload!LatchLive /\ state # "WRITE_DATA"
         /\ state' = "WRITE_NEXT" => state = "WRITE_DATA"
<1> USE DEF Upload!LatchLive, Upload!Polling
<1>1. CASE Upload!Wren BY <1>1 DEF Upload!Wren
<1>2. CASE Upload!WrenRelease BY <1>2 DEF Upload!WrenRelease
<1>3. CASE Upload!EraseCmd BY <1>3 DEF Upload!EraseCmd, Upload!SendOpcode
<1>4. CASE Upload!EraseAddr BY <1>4 DEF Upload!EraseAddr
<1>5. CASE Upload!EraseRelease BY <1>5 DEF Upload!EraseRelease
<1>6. CASE Upload!WriteCmd BY <1>6 DEF Upload!WriteCmd, Upload!SendOpcode
<1>7. CASE Upload!WriteAddr BY <1>7 DEF Upload!WriteAddr
<1>8. CASE Upload!WriteData BY <1>8 DEF Upload!WriteData, Upload!regs
<1>9. CASE Upload!WriteNextFlush BY <1>9 DEF Upload!WriteNextFlush
<1>10. CASE Upload!WriteRelease BY <1>10 DEF Upload!WriteRelease
<1>11. CASE Upload!PollCmd BY <1>11 DEF Upload!PollCmd, Upload!regs
<1>12. CASE Upload!PollRead BY <1>12 DEF Upload!PollRead, Upload!regs
<1>13. CASE Upload!PollCapture BY <1>13 DEF Upload!PollCapture
<1>14. CASE Upload!PollRelease BY <1>14 DEF Upload!PollRelease
<1> QED BY <1>1, <1>2, <1>3, <1>4, <1>5, <1>6, <1>7, <1>8, <1>9, <1>10, <1>11, <1>12, <1>13, <1>14
        DEF Upload!WorksAlone

LEMMA LatchSame ==
  ASSUME UNCHANGED Upload!fsm
  PROVE  Upload!LatchLive' = Upload!LatchLive /\ state' = state
BY DEF Upload!fsm, Upload!regs, Upload!LatchLive, Upload!Polling

\* The byte before the last byte of the image is in the FSM, in the same page.
LEMMA TailTogether ==
  ASSUME PlainUploads, StreamTypes, PortW.valid, Front = EndOf(file[Len(file)]), Front \in Nat \ {0}
  PROVE  \E s \in Upload!Accepted : Upload!PageOf(s) = Upload!PageOf(UpW.addr)
<1> DEFINE m == Len(file)
           s == file[m]
           f == FirstOf(s)
           e == EndOf(s)
           r == Front
<1>1. m \in 1 .. m /\ m \in Nat \ {0} BY PlainSectors
<1>2. f \in Nat /\ e \in Nat /\ e = f + s[5] /\ s[5] \in Nat /\ e <= AddrSpace /\ r = e
  BY <1>1, BlockPlaced
<1>3. s[5] > 1 /\ (e - 1) % PageSize # 0 BY DEF StreamTypes, PlainUploads, PlainFile, LongTail
<1> DEFINE n == r - 2
           a == FlashAddr(n)
           b == FlashAddr(n + 1)
<1>4. n \in f .. e - 1 /\ n \in Nat /\ n < r /\ n + 1 = r - 1 /\ n + 1 = e - 1
  <2> DEFINE z == s[5]
  <2>1. z \in Nat /\ z > 1 /\ e = f + z /\ f \in Nat /\ r = e BY <1>2, <1>3
  <2> HIDE DEF f, e, r, z, s
  <2> QED BY <2>1
<1>5. Covers(m, n) BY <1>4 DEF Covers
<1>6. Covered(n) /\ n \in 0 .. AddrSpace - 1 BY <1>1, <1>5, ByteCovered
<1>7. a \in Flash!Addr /\ Number(a) = n BY <1>6, NumberAddressed
<1>8. a \in UpSent BY <1>4, <1>6, <1>7 DEF UpSent
<1>9. UpW.addr = b /\ UpW.valid
  <2>1. UpW.addr = FlashAddr(r - 1) /\ UpW.valid BY DEF UpW
  <2> QED BY <1>4, <2>1
<1>10. n + 1 \in 0 .. AddrSpace - 1
  <2> HIDE DEF n, r, e, f
  <2> QED BY <1>2, <1>4, Sizes
<1>11. b # a
  <2>1. Number(b) = n + 1 BY <1>10, NumberAddressed
  <2> HIDE DEF n, a, b
  <2> QED BY <1>4, <1>7, <2>1
<1>12. a \in Upload!Accepted BY <1>8, <1>9, <1>11 DEF Upload!Accepted
<1>13. n \div PageSize = (n + 1) \div PageSize
  <2> DEFINE p == PageSize
             q == (n + 1) \div p
             x == (n + 1) % p
  <2>1. p \in Nat \ {0} BY Given
  <2>2. x # 0 BY <1>3, <1>4
  <2>3. n \in Nat BY <1>4
  <2> HIDE DEF p, n
  <2>4. q \in Nat /\ x \in 0 .. p - 1 /\ n + 1 = p * q + x BY <2>1, <2>3, SMT
  <2> HIDE DEF q, x
  <2>5. p * q \in Nat BY <2>1, <2>4, SMT
  <2> DEFINE y == p * q
  <2>6. n = y + (x - 1) /\ x - 1 \in 0 .. p - 1
    <3>1. y \in Nat /\ n + 1 = y + x BY <2>4, <2>5
    <3> HIDE DEF y
    <3> QED BY <2>1, <2>2, <2>3, <2>4, <3>1
  <2>7. n = p * q + (x - 1) BY <2>6
  <2>8. n \div p = q BY <2>1, <2>3, <2>4, <2>6, <2>7, Divided
  <2> QED BY <2>8 DEF p, q
<1>14. Upload!PageOf(a) = Upload!PageOf(b)
  <2>1. a \in Upload!Addr /\ b \in Upload!Addr /\ b \in Flash!Addr /\ Number(b) = n + 1
    BY <1>7, <1>10, NumberAddressed DEF Upload!Addr, Flash!Addr
  <2> HIDE DEF n, a, b
  <2>2. Upload!Row(a) = Upload!Row(b) BY <1>7, <1>13, <2>1, PageNumbered
  <2>3. ASSUME NEW x \in Upload!Addr
        PROVE  x.pg = Upload!Row(x) % Pages /\ x.blk = Upload!Row(x) \div Pages
    BY Given, Upload!RowParts
  <2>4. a.pg = b.pg /\ a.blk = b.blk BY <2>1, <2>2, <2>3
  <2> QED BY <2>4 DEF Upload!PageOf
<1> QED BY <1>9, <1>12, <1>14

\* The last byte of the image stays in the page that is open.
LEMMA LastByteStays ==
  ASSUME PlainUploads, StreamTypes, Upload!ProtocolInv, Upload!StoreInv, Upload!TakesByte,
         PortW.valid, Front = EndOf(file[Len(file)]), Front \in Nat \ {0}
  PROVE  state' = "WRITE_DATA"
<1>1. PICK s \in Upload!Accepted : Upload!PageOf(s) = Upload!PageOf(UpW.addr) BY TailTogether
<1>2. UpW.valid BY DEF UpW
<1>3. /\ Upload!Follows(UpW.addr)
      /\ state = "IDLE" => Upload!Accepted = {}
      /\ state = "WRITE_NEXT" => Upload!PageOf(addr_latch) = current_page
  BY <1>2 DEF Upload!StoreInv, Upload!PortHolds, Upload!Closes, Upload!PageHolds
<1>4. Upload!PageOf(UpW.addr) = Upload!PageOf(addr_latch) BY <1>1, <1>3 DEF Upload!Follows
<1>5. Upload!WriteNextByte BY <1>1, <1>3 DEF Upload!TakesByte, Upload!Idle
<1> QED BY <1>3, <1>4, <1>5 DEF Upload!WriteNextByte

\* The first half of FlushSeen, on the writer's view.
LEMMA LastByteStep ==
  ASSUME PlainUploads, Inv, Seen, ~PortW'.valid, file' = file,
         Front' = EndOf(file[Len(file)]), Upload!LatchLive'
  PROVE  state' = "WRITE_DATA"
<1>1. /\ StreamTypes /\ Upload!ProtocolInv /\ Upload!StoreInv /\ FlushSeen
      /\ TransportInv /\ StreamInv
  BY DEF Inv, StoredInv, StreamInv
<1>2. ~UpW'.valid BY DEF UpW
<1>3. ASSUME UpW' = UpW, Front' = Front, UNCHANGED Upload!fsm PROVE state' = "WRITE_DATA"
  <2>1. PortW'.valid = PortW.valid BY <1>3 DEF UpW
  <2>2. Upload!LatchLive' = Upload!LatchLive /\ state' = state BY <1>3, LatchSame
  <2> QED BY <1>1, <1>3, <2>1, <2>2 DEF FlushSeen
<1>4. CASE UNCHANGED Upload!core /\ Front' = Front BY <1>3, <1>4 DEF Upload!core, Upload!port
<1>5. CASE Upload!RaiseFlush /\ Front' = Front BY <1>3, <1>5 DEF Upload!RaiseFlush
<1>6. CASE \E a \in Upload!Addr : \E b \in Bytes(a) : Upload!Offer(a, b)
  BY <1>2, <1>6 DEF Upload!Offer, Upload!Put
<1>7. CASE Upload!TakeByte /\ (~UpW'.valid => Front' = Front)
  <2>1. Upload!TakesByte /\ Front' = Front BY <1>2, <1>7 DEF Upload!TakeByte
  <2>2. UpW.valid
    BY <2>1 DEF Upload!TakesByte, Upload!Idle, Upload!WriteNextByte, Upload!Accept
  <2>3. PortW.valid BY <2>2 DEF UpW
  <2>4. Front \in Nat \ {0} BY <1>1, <2>3, PortShown
  <2> QED BY <1>1, <2>1, <2>3, <2>4, LastByteStays
<1>8. CASE Upload!WorksAlone /\ UNCHANGED Upload!port /\ Front' = Front
  <2>1. PortW'.valid = PortW.valid BY <1>8 DEF UpW, Upload!port
  <2>2. Upload!LatchLive /\ state # "WRITE_DATA" BY <1>8, LatchStays
  <2> QED BY <1>1, <1>8, <2>1, <2>2 DEF FlushSeen
<1>9. CASE Upload!DeviceStep /\ Front' = Front
  BY <1>3, <1>9 DEF Upload!DeviceStep, Upload!port
<1> QED BY <1>4, <1>5, <1>6, <1>7, <1>8, <1>9 DEF Seen

\* The second half: once the flush has been done it stays done.
LEMMA RestStays ==
  ASSUME PlainUploads, Inv, Seen, pending \/ done, ~Upload!LatchLive, state # "WRITE_NEXT"
  PROVE  ~Upload!LatchLive' /\ state' # "WRITE_NEXT"
<1>1. /\ TransportInv /\ StreamInv /\ FlushMeant BY DEF Inv, StoredInv
<1>2. UpFlush /\ Whole = Len(file) BY <1>1 DEF UpFlush, FlushMeant
<1>3. ~PortW.valid BY <1>1, <1>2, FileEnded
<1>4. ~UpW.valid BY <1>3 DEF UpW
<1>5. ASSUME UNCHANGED Upload!fsm PROVE ~Upload!LatchLive' /\ state' # "WRITE_NEXT"
  BY <1>5, LatchSame
<1>6. CASE UNCHANGED Upload!core BY <1>5, <1>6 DEF Upload!core
<1>7. CASE Upload!RaiseFlush BY <1>5, <1>7 DEF Upload!RaiseFlush
<1>8. CASE \E a \in Upload!Addr : \E b \in Bytes(a) : Upload!Offer(a, b)
  BY <1>2, <1>8 DEF Upload!Offer
<1>9. CASE Upload!TakeByte
  BY <1>4, <1>9 DEF Upload!TakeByte, Upload!TakesByte, Upload!Idle, Upload!WriteNextByte, Upload!Accept
<1>10. CASE Upload!WorksAlone
  <2>1. state # "WRITE_DATA" BY DEF Upload!LatchLive, Upload!Polling
  <2> QED BY <1>10, <2>1, LatchStays
<1>11. CASE Upload!DeviceStep BY <1>5, <1>11 DEF Upload!DeviceStep
<1> QED BY <1>6, <1>7, <1>8, <1>9, <1>10, <1>11 DEF Seen

\* A command that clears `done` finds the flash done with the image.
LEMMA ClearedLate ==
  ASSUME PlainUploads, Inv, Settled, done
  PROVE  ~Upload!LatchLive /\ state # "WRITE_NEXT"
<1>1. /\ TransportInv /\ StreamInv /\ FlushMeant /\ FlushSeen /\ Upload!ProtocolInv
  BY DEF Inv, StoredInv
<1>2. Whole = Len(file) BY <1>1 DEF FlushMeant
<1>3. ~PortW.valid /\ Front = EndOf(file[Len(file)]) BY <1>1, <1>2, FileEnded
<1>4. CASE state = "IDLE" BY <1>4 DEF Upload!LatchLive
<1>5. CASE wip
  <2>1. state \in Upload!PollStates BY <1>1, <1>5 DEF Upload!ProtocolInv, Upload!NotBusy
  <2>2. state # "WRITE_DATA" /\ state # "WRITE_NEXT" BY <2>1 DEF Upload!PollStates
  <2>3. ~Upload!LatchLive BY <1>1, <1>3, <2>2 DEF FlushSeen
  <2> QED BY <2>2, <2>3
<1> QED BY <1>4, <1>5 DEF Settled

\* `done` goes with a command.
LEMMA ClearedByCommand ==
  ASSUME PlainUploads, Inv, Working, done, ~done'
  PROVE  Settled /\ UNCHANGED flash
<1>1. /\ TransportInv /\ FlushMeant BY DEF Inv, StoredInv
<1>2. scsi_state # "RECEIVE_WRITE_DATA" BY <1>1 DEF FlushMeant
<1>3. CASE Gateware
  <2>1. CASE DispatchAndClear BY <2>1 DEF DispatchAndClear
  <2>2. CASE ~DispatchAndClear
    BY <1>2, <1>3, <2>2 DEF Gateware, DecodeByte, StoreByte, DropByte, ReceiveWriteData, DataEnd, uf2
  <2> QED BY <2>1, <2>2
<1>4. CASE DeviceStep \/ HostStep \/ Boot \/ UNCHANGED vars
  BY <1>4 DEF DeviceStep, HostStep, SendPacket, TakeStatus, Boot, vars, uf2
<1>5. CASE Start BY <1>5, StartFollows
<1> QED BY <1>3, <1>4, <1>5 DEF Working

LEMMA FlushSeenStep ==
  ASSUME PlainUploads, Inv, Working, Seen
  PROVE  FlushSeen'
<1>1. FlushSeen /\ FlushMeant BY DEF Inv, StoredInv
<1>2. file' = file
  BY StartFollows DEF Working, Gateware, DeviceStep, Boot, HostStep, SendPacket, TakeStatus, vars, host_vars
<1>3. ~PortW'.valid /\ Front' = EndOf(file[Len(file)])' /\ Upload!LatchLive' => state' = "WRITE_DATA"
  <2>1. EndOf(file[Len(file)])' = EndOf(file[Len(file)]) BY <1>2 DEF EndOf
  <2> QED BY <1>2, <2>1, LastByteStep
<1>4. ASSUME pending', ~done' PROVE ~Upload!LatchLive' /\ state' # "WRITE_NEXT"
  <2>1. pending \/ done
    <3>1. CASE Gateware BY <1>4, <3>1 DEF Gateware, Tick
    <3>2. CASE ~Gateware
      BY <1>4, <3>2, StartFollows
         DEF Working, DeviceStep, Boot, HostStep, SendPacket, TakeStatus, vars
    <3> QED BY <3>1, <3>2
  <2>2. CASE ~done BY <1>1, <2>1, <2>2, RestStays DEF FlushSeen
  <2>3. CASE done
    <3>1. Settled /\ UNCHANGED flash BY <1>4, <2>3, ClearedByCommand
    <3>2. ~Upload!LatchLive /\ state # "WRITE_NEXT" BY <2>3, <3>1, ClearedLate
    <3> QED BY <2>1, <3>2, RestStays
  <2> QED BY <2>2, <2>3
<1> QED BY <1>3, <1>4 DEF FlushSeen

-----------------------------------------------------------------------------
(* The reboot. *)

\* What the property says of the file, in the terms of the writer's view.
LEMMA HoldsCovered ==
  ASSUME PlainUploads, StreamTypes, NEW k \in 1 .. Len(file), NEW n, NEW b
  PROVE  Holds(file, k, n, b) <=> Covers(k, n) /\ b = ByteAt(n)
<1> DEFINE at == FirstOf(file[k])
           z  == file[k][5]
<1>1. at \in Nat /\ z \in Nat \ {0} /\ EndOf(file[k]) = at + z BY BlockPlaced
<1>2. at + (z - 1) = (at + z) - 1
  <2> HIDE DEF at, z
  <2> QED BY <1>1
<1>3. Covers(k, n) <=> n \in at .. at + (z - 1) BY <1>1, <1>2 DEF Covers
<1>4. Holds(file, k, n, b) <=> n \in at .. at + (z - 1) /\ b = file[k][HeaderLen + 1 + n - at]
  BY DEF Holds, FirstOf
<1>5. Covers(k, n) => ByteAt(n) = file[k][HeaderLen + 1 + n - at] BY ByteOfBlock
<1> HIDE DEF at, z
<1> QED BY <1>3, <1>4, <1>5

LEMMA ImageByte ==
  ASSUME PlainUploads, StreamTypes, NEW n
  PROVE  IsImage(file, n, IF Covered(n) THEN ByteAt(n) ELSE Flash!Erased)
<1>1. DOMAIN file = 1 .. Len(file) BY PlainSectors
<1>2. CASE Covered(n)
  <2>1. PICK k \in 1 .. Len(file) : Covers(k, n) BY <1>2 DEF Covered
  <2>2. Holds(file, k, n, ByteAt(n)) /\ ByteAt(n) \in Byte BY <2>1, HoldsCovered, ByteCovered
  <2>3. IsImage(file, n, ByteAt(n))
    <3> DEFINE b == ByteAt(n)
    <3>1. Holds(file, k, n, b) /\ b \in Byte /\ k \in DOMAIN file BY <1>1, <2>2
    <3> HIDE DEF b
    <3>2. IsImage(file, n, b) BY <3>1 DEF IsImage
    <3> QED BY <3>2 DEF b
  <2> QED BY <1>2, <2>3
<1>3. CASE ~Covered(n)
  <2>1. \A k \in DOMAIN file, c \in Byte : ~Holds(file, k, n, c)
    BY <1>1, <1>3, HoldsCovered DEF Covered
  <2> QED BY <1>3, <2>1 DEF IsImage
<1> QED BY <1>2, <1>3

LEMMA ImageBlock ==
  ASSUME PlainUploads, StreamTypes, NEW d \in ImageBlocks(file)
  PROVE  \E m \in 0 .. AddrSpace - 1 : Covered(m) /\ m \div BlockSize = d
<1>1. DOMAIN file = 1 .. Len(file) BY PlainSectors
<1>2. PICK m \in 0 .. AddrSpace - 1 :
        m \div BlockSize = d /\ \E k \in DOMAIN file, b \in Byte : Holds(file, k, m, b)
  BY DEF ImageBlocks
<1>3. Covered(m) BY <1>1, <1>2, HoldsCovered DEF Covered
<1> QED BY <1>2, <1>3

LEMMA AllShown ==
  ASSUME PlainUploads, StreamTypes, NEW n, Covered(n)
  PROVE  n < EndOf(file[Len(file)])
<1>1. PICK k \in 1 .. Len(file) : Covers(k, n) BY DEF Covered
<1> DEFINE m == Len(file)
           e == EndOf(file[k])
           l == EndOf(file[m])
           f == FirstOf(file[k])
<1>2. m \in 1 .. m /\ m \in Nat /\ k <= m BY PlainSectors
<1>3. e <= l BY <1>1, <1>2, EndsAscend
<1>4. e \in Nat /\ l \in Nat /\ f \in Nat BY <1>2, BlockPlaced
<1>5. n \in f .. e - 1 BY <1>1 DEF Covers
<1> HIDE DEF e, l, f
<1>6. n < l BY <1>3, <1>4, <1>5
<1> QED BY <1>6 DEF l

LEMMA BootStores ==
  ASSUME PlainUploads, Inv, Boot
  PROVE  FlashedAtBoot' /\ BootsAfterUpload'
<1>1. /\ TransportInv /\ StreamInv /\ StreamTypes /\ FlushMeant /\ FlushSeen
      /\ Upload!ProtocolInv /\ Upload!StoreInv
  BY DEF Inv, StoredInv, StreamInv
<1>2. /\ pending
      /\ state = "IDLE" \/ (state = "WRITE_NEXT" /\ ~done)
      /\ UNCHANGED <<mem, wip, file, written>>
  BY DEF Boot, Quiet, flash, host_vars
<1>3. /\ Whole = Len(file) /\ written = Len(file) /\ file[Len(file)][SectorLen] = MAGIC_END
  BY <1>1, <1>2 DEF FlushMeant
<1>4. ~PortW.valid /\ Front = EndOf(file[Len(file)]) BY <1>1, <1>3, FileEnded
<1>5. state = "IDLE" BY <1>1, <1>2 DEF FlushSeen
<1>6. Upload!Flushed BY <1>2, <1>4, <1>5 DEF Upload!Flushed, UpFlush, UpW
<1>7. /\ ~wip
      /\ \A a \in Flash!Addr : (\E s \in UpSent : s.blk = a.blk) => mem[a] = UpImage[a]
  BY <1>1, <1>6, UploadFlushes
<1>8. ASSUME NEW n \in 0 .. AddrSpace - 1, NEW k \in 0 .. AddrSpace - 1,
             Covered(k), k \div BlockSize = n \div BlockSize
      PROVE  mem[FlashAddr(n)] = IF Covered(n) THEN ByteAt(n) ELSE Flash!Erased
  <2> DEFINE a == FlashAddr(n)
             s == FlashAddr(k)
  <2>1. /\ a \in Flash!Addr /\ Number(a) = n /\ s \in Flash!Addr /\ Number(s) = k
    BY NumberAddressed
  <2>2. s.blk = a.blk BY <1>8 DEF FlashAddr
  <2>3. (Covered(n) => n < Front) /\ k < Front BY <1>1, <1>4, <1>8, AllShown
  <2>4. (a \in UpSent <=> Covered(n)) /\ s \in UpSent
    <3> HIDE DEF a, s
    <3> QED BY <1>8, <2>1, <2>3 DEF UpSent
  <2> HIDE DEF a, s
  <2>5. mem[a] = UpImage[a] BY <1>7, <2>1, <2>2, <2>4
  <2>6. UpImage[a] = IF Covered(n) THEN ByteAt(n) ELSE Flash!Erased
    BY <2>1, <2>4 DEF UpImage
  <2> QED BY <2>5, <2>6 DEF a
<1>9. ASSUME NEW n \in 0 .. AddrSpace - 1, n \div BlockSize \in ImageBlocks(file)
      PROVE  IsImage(file, n, mem[FlashAddr(n)])
  <2>1. PICK k \in 0 .. AddrSpace - 1 : Covered(k) /\ k \div BlockSize = n \div BlockSize
    BY <1>1, <1>9, ImageBlock
  <2>2. mem[FlashAddr(n)] = IF Covered(n) THEN ByteAt(n) ELSE Flash!Erased BY <1>8, <2>1
  <2> QED BY <1>1, <2>2, ImageByte
<1>10. file' = file /\ mem' = mem /\ wip' = wip /\ written' = written BY <1>2
<1>11. FlashedAtBoot'
  <2>1. ASSUME NEW n \in 0 .. AddrSpace - 1, n \div BlockSize \in ImageBlocks(file')
        PROVE  IsImage(file', n, mem'[FlashAddr(n)])
    BY <1>9, <1>10, <2>1
  <2>2. ~wip' BY <1>7, <1>10
  <2>3. \A n \in 0 .. AddrSpace - 1 :
          n \div BlockSize \in ImageBlocks(file') => IsImage(file', n, mem'[FlashAddr(n)])
    BY <2>1
  <2> QED BY <2>2, <2>3 DEF FlashedAtBoot, ImageBlocks, IsImage, Holds, FlashAddr, BlockSize,
                           Flash!Erased, HeaderLen
<1>12. BootsAfterUpload' BY <1>3, <1>10 DEF BootsAfterUpload, SectorLen, HeaderLen
<1> QED BY <1>11, <1>12

LEMMA BootedStep ==
  ASSUME PlainUploads, Inv, [Next]_vars, ~BusReset
  PROVE  FlashedAtBoot' /\ BootsAfterUpload'
<1>1. CASE Boot BY <1>1, BootStores
<1>2. CASE UNCHANGED vars
  <2>1. UNCHANGED <<booted, wip, mem, file, written, resets>>
    BY <1>2 DEF vars, flash, host_vars
  <2>2. FlashedAtBoot /\ BootsAfterUpload BY DEF Inv, StoredInv
  <2>3. FlashedAtBoot'
    BY <2>1, <2>2 DEF FlashedAtBoot, ImageBlocks, IsImage, Holds, FlashAddr, BlockSize,
                      Flash!Erased, HeaderLen
  <2>4. BootsAfterUpload' BY <2>1, <2>2 DEF BootsAfterUpload, SectorLen, HeaderLen
  <2> QED BY <2>3, <2>4
<1>3. CASE Next /\ ~Boot
  <2>1. ~booted /\ booted' = booted
    BY <1>3 DEF Next, Gateware, DeviceStep, HostStep, SendPacket, TakeStatus, Start, WriteFile,
                WriteStray, TestUnitReady, Issue
  <2> QED BY <2>1 DEF FlashedAtBoot, BootsAfterUpload
<1> QED BY <1>1, <1>2, <1>3

LEMMA InvStep ==
  ASSUME PlainUploads, Inv, [Next]_vars, ~BusReset
  PROVE  Inv'
<1>1. Working BY DEF Working, Next
<1>2. Follows BY <1>1, FollowStep
<1>3. Seen BY <1>2 DEF Follows
<1>4. Upload!ProtocolInv' /\ Upload!StoreInv'
  <2>1. [Upload!Next]_(Upload!core) BY <1>3, SeenNext
  <2>2. Upload!ProtocolInv /\ Upload!StoreInv BY DEF Inv, StoredInv
  <2> QED BY <2>1, <2>2, UploadStores
<1>5. FlushMeant' BY <1>1, MeantStep
<1>6. FlushSeen' BY <1>1, <1>3, FlushSeenStep
<1>7. FlashedAtBoot' /\ BootsAfterUpload' BY BootedStep
<1> QED BY <1>2, <1>4, <1>5, <1>6, <1>7 DEF Follows, Inv, StoredInv

-----------------------------------------------------------------------------
(* The initial states. *)

LEMMA TransportInit == ASSUME Init PROVE TransportInv
<1>1. /\ scsi_state = "RECEIVE_CBW" /\ cbw_count = 0 /\ cbw = [k \in 1 .. CbwLen |-> 0]
      /\ data_sent = 0 /\ csw_status = FALSE /\ rx = <<>> /\ packets = <<>>
      /\ host = "idle" /\ data = <<>> /\ chunk = 0
  BY DEF Init, ScsiInit
<1>2. TransportTypes
  <2>1. rx \in Seq(Nat) /\ data \in Seq(Nat) BY <1>1
  <2>2. cbw \in [1 .. CbwLen -> Nat] BY <1>1
  <2>3. cbw_count \in 0 .. CbwLen - 1 BY <1>1 DEF CbwLen
  <2> QED BY <1>1, <2>1, <2>2, <2>3 DEF TransportTypes
<1>3. StagesMatch BY <1>1 DEF StagesMatch, CbwLeft
<1>4. CommandCarried BY <1>1 DEF CommandCarried, Preparing
<1> QED BY <1>2, <1>3, <1>4 DEF TransportInv

LEMMA StreamInit == ASSUME PlainUploads, Init PROVE StreamInv /\ Pos = 0
<1>1. /\ scsi_state = "RECEIVE_CBW" /\ rx = <<>> /\ data = <<>> /\ host = "idle" /\ chunk = 0
      /\ uf2_state = "HEADER" /\ byte_count = 0 /\ file \in Files /\ written = 0
  BY DEF Init, ScsiInit, UF2Init
<1>2. EndSector = 0 BY <1>1 DEF EndSector
<1>3. Pos = 0
  <2>1. Pos = 0 * SectorLen - 0 BY <1>1, <1>2 DEF Pos
  <2> QED BY <2>1, Sizes
<1>4. Len(file) \in Nat
  <2>1. file \in Seq([1 .. SectorLen -> Word]) BY <1>1, UploadAssumption
  <2> QED BY <2>1
<1>5. StreamTypes BY <1>1, <1>2, <1>3, <1>4, Sizes DEF StreamTypes
<1>6. FileRead BY <1>1 DEF FileRead
<1>7. StrayRead BY <1>1 DEF StrayRead, Preparing, Forwarding
<1> QED BY <1>1, <1>3, <1>5, <1>6, <1>7 DEF StreamInv

LEMMA StoredInit == ASSUME PlainUploads, Init PROVE StoredInv
<1> DEFINE zero == [blk |-> 0, pg |-> 0, off |-> 0]
<1>1. /\ mem \in Contents /\ wel = FALSE /\ wip = FALSE /\ frame = <<>> /\ col = 0
      /\ buf = [o \in 0 .. PageSize - 1 |-> Flash!Erased] /\ state = "IDLE"
      /\ addr_latch = zero /\ data_latch = 0 /\ current_block = 0 /\ block_valid = FALSE
      /\ current_page = <<0, 0>> /\ addr_count = 0 /\ wren_target = "ERASE"
      /\ poll_return = "WREN_ERASE" /\ has_next = FALSE /\ status = FALSE /\ qi = <<>>
  BY DEF Init, Flash!DeviceInit, Flash!FsmInit, Flash!EmptyBuf, Flash!AddrZero
<1>2. uf2_state = "HEADER" /\ done = FALSE /\ pending = FALSE /\ booted = FALSE
  BY DEF Init, UF2Init
<1>3. StreamTypes /\ Pos = 0 BY StreamInit DEF StreamInv
<1>4. Shown = 0 /\ ~PortW.valid /\ PortW.valid = FALSE /\ UpFlush = FALSE
  BY <1>2 DEF Shown, PortW, Emitting, UpFlush
<1>5. Front = 0
  <2>1. Whole = 0
    <3>1. 0 * SectorLen = 0 BY Sizes
    <3>2. 0 \div SectorLen = 0 BY <3>1, Sizes, Started
    <3> QED BY <1>3, <3>2 DEF Whole
  <2>2. Front = FrontAt(0 + 1, 0) BY <1>4, <2>1 DEF Front
  <2> QED BY <2>2 DEF FrontAt
<1>6. UpSent = {} /\ UpImage = [a \in Flash!Addr |-> Flash!Erased]
  <2>1. ASSUME NEW a \in Flash!Addr PROVE ~(Number(a) < Front)
    BY <1>5, <2>1, AddressNumbered
  <2>2. UpSent = {} BY <2>1 DEF UpSent
  <2> QED BY <2>2 DEF UpImage
<1>7. UpW = [valid |-> FALSE, addr |-> FlashAddr(0), data |-> Flash!Erased]
  BY <1>4, <1>5 DEF UpW
<1>8. Upload!TypeOK
  <2>1. /\ 0 \in 0 .. Blocks - 1 /\ 0 \in 0 .. Pages - 1 /\ 0 \in 0 .. PageSize - 1
        /\ 0 \in Byte /\ Flash!Erased \in Byte
    BY Given DEF Flash!Erased, Upload!Erased
  <2>2. UpW \in [valid : BOOLEAN, addr : Upload!Addr, data : Byte]
    <3>1. 0 \in 0 .. AddrSpace - 1 BY Sizes
    <3>2. FlashAddr(0) \in Upload!Addr BY <3>1, NumberAddressed DEF Upload!Addr, Flash!Addr
    <3> QED BY <1>7, <2>1, <3>2
  <2>3. UpImage \in [Upload!Addr -> Byte] /\ UpSent \subseteq Upload!Addr
    BY <1>6, <2>1 DEF Upload!Addr, Flash!Addr
  <2>4. Upload!DeviceTypeOK
    <3>1. mem \in [Upload!Addr -> Byte] BY <1>1, FlashAssumption DEF Upload!Addr, Flash!Addr
    <3>2. buf \in [0 .. PageSize - 1 -> Byte] BY <1>1, <2>1
    <3>3. frame \in Seq(Byte) /\ Len(frame) <= 4 BY <1>1
    <3> QED BY <1>1, <2>1, <3>1, <3>2, <3>3 DEF Upload!DeviceTypeOK
  <2>5. Upload!FsmTypeOK
    <3>1. addr_latch \in Upload!Addr BY <1>1, <2>1 DEF Upload!Addr
    <3>2. state \in Upload!States BY <1>1 DEF Upload!States
    <3>3. qi \in Seq(BOOLEAN) BY <1>1
    <3>4. current_page \in (0 .. Blocks - 1) \X (0 .. Pages - 1) BY <1>1, <2>1
    <3>5. data_latch \in Byte /\ current_block \in 0 .. Blocks - 1 /\ addr_count \in 0 .. 2
      BY <1>1, <2>1
    <3>6. block_valid \in BOOLEAN /\ has_next \in BOOLEAN /\ status \in BOOLEAN BY <1>1
    <3>7. /\ wren_target \in {"ERASE", "WRITE"}
          /\ poll_return \in {"WREN_ERASE", "WREN_WRITE", "IDLE"}
      BY <1>1
    <3> QED
      BY ONLY <3>1, <3>2, <3>3, <3>4, <3>5, <3>6, <3>7 DEF Upload!FsmTypeOK
  <2> QED BY <1>4, <2>2, <2>3, <2>4, <2>5 DEF Upload!TypeOK
<1>9. Upload!ProtocolInv
  BY <1>1, <1>8
     DEF Upload!ProtocolInv, Upload!FrameShape, Upload!NotBusy, Upload!LatchSet, Upload!OneReply,
         Upload!AtBoundary, Upload!Addressed, Upload!Enabled, Upload!PollStates
<1>10. state = "IDLE" /\ ~block_valid /\ ~UpW.valid /\ buf = Upload!EmptyBuf
  BY <1>1, <1>7 DEF Upload!EmptyBuf, Upload!Erased, Flash!Erased
<1>11. Upload!Accepted = {} BY <1>6 DEF Upload!Accepted
<1>12. ~Upload!LatchLive /\ ~Upload!EraseDue
  BY <1>10 DEF Upload!LatchLive, Upload!EraseDue, Upload!Polling
<1>13. Upload!PortHolds
  BY <1>6, <1>10 DEF Upload!PortHolds, Flash!Erased, Upload!Erased, Flash!Addr, Upload!Addr
<1>14. Upload!Closes BY <1>10, <1>11 DEF Upload!Closes
<1>15. Upload!LatchHolds BY <1>10, <1>12 DEF Upload!LatchHolds
<1>16. Upload!FrameAddressed /\ Upload!PageHolds
  BY <1>10 DEF Upload!FrameAddressed, Upload!PageHolds, Upload!Addressed
<1>17. Upload!BufHolds BY <1>10 DEF Upload!BufHolds, Upload!InOpen, Upload!Addressed
<1>18. Upload!MemHolds BY <1>11 DEF Upload!MemHolds, Upload!Touched
<1>19. Upload!StoreInv BY <1>13, <1>14, <1>15, <1>16, <1>17, <1>18 DEF Upload!StoreInv
<1>20. LastLatched BY <1>5 DEF LastLatched
<1>21. FlushMeant /\ FlashedAtBoot /\ BootsAfterUpload
  BY <1>2 DEF FlushMeant, FlashedAtBoot, BootsAfterUpload
<1>22. FlushSeen BY <1>2, <1>12 DEF FlushSeen
<1> QED BY <1>9, <1>19, <1>20, <1>21, <1>22 DEF StoredInv

-----------------------------------------------------------------------------
(* Until the first bus reset. *)

UnresetInv == resets \in Nat /\ (resets = 0 => Inv)

LEMMA UnresetInit == ASSUME PlainUploads, Init PROVE UnresetInv
<1>1. Inv BY TransportInit, StreamInit, StoredInit DEF Inv
<1>2. resets = 0 BY DEF Init
<1> QED BY <1>1, <1>2 DEF UnresetInv

LEMMA UnresetStep == ASSUME PlainUploads, UnresetInv, [Next]_vars PROVE UnresetInv'
<1>1. CASE BusReset
  <2>1. resets' = resets + 1 BY <1>1 DEF BusReset
  <2> QED BY <2>1 DEF UnresetInv
<1>2. CASE ~BusReset
  <2>1. resets' = resets
    BY <1>2 DEF Next, vars, host_vars, Gateware, DeviceStep, Boot, HostStep, SendPacket, TakeStatus,
                Start, WriteFile, WriteStray, TestUnitReady, Issue
  <2>2. ASSUME Inv PROVE Inv' BY <1>2, <2>2, InvStep
  <2> QED BY <2>1, <2>2 DEF UnresetInv
<1> QED BY <1>1, <1>2

LEMMA UnresetHolds == ASSUME PlainUploads PROVE Spec => []UnresetInv
<1>1. Init => UnresetInv BY UnresetInit
<1>2. UnresetInv /\ [Next]_vars => UnresetInv' BY UnresetStep
<1> QED BY <1>1, <1>2, PTL DEF Spec

\* The device reboots into what has been written: every block the file touches holds the file's
\* image and nothing else, and no program or erase is running, for every geometry, file, packet
\* size and stray command, and however the host, the handler, the decoder, the flash FSM and the
\* device's writes interleave.
THEOREM UploadFlashed == ASSUME PlainUploads PROVE Spec => []FlashedAtBoot
<1>1. UnresetInv => FlashedAtBoot BY DEF UnresetInv, Inv, StoredInv, FlashedAtBoot
<1> QED BY <1>1, UnresetHolds, PTL

\* The device reboots for nothing but a file that has been written to its last block, and that
\* ended well; up to the first bus reset.
THEOREM UploadBoots == ASSUME PlainUploads PROVE Spec => [](resets = 0 => BootsAfterUpload)
<1>1. UnresetInv => (resets = 0 => BootsAfterUpload) BY DEF UnresetInv, Inv, StoredInv
<1> QED BY <1>1, UnresetHolds, PTL

\* The decoder never loses its place: the tokens that are still to come are the ones of the file
\* that follow those it has read, or the rest of a sector that is no block; up to the first bus
\* reset.
THEOREM UploadInStep == ASSUME PlainUploads PROVE Spec => [](resets = 0 => StreamInv)
<1>1. UnresetInv => (resets = 0 => StreamInv) BY DEF UnresetInv, Inv
<1> QED BY <1>1, UnresetHolds, PTL

-----------------------------------------------------------------------------
(* The flash below the slot, with bus resets anywhere. A reset leaves the
   decoder in the middle of a sector and the device in the middle of a frame,
   so nothing of the above is left but the transport. *)

\* A sector that names no address outside the slot, and does not show the first
\* magic again where a decoder that is out of step would look for it.
SlotSector(s) ==
  /\ IsBlock(s) => EndOf(s) <= AddrSpace
  /\ \A j \in 2 .. SectorLen : s[j] # MAGIC_START0

(* Sectors are whole packets, and a sector's header is in its first one: 512
   bytes are eight packets of 64, and the header has 32. *)
SlotUploads ==
  /\ BlockCount > 0
  /\ \A f \in Files : f # <<>> /\ \A k \in 1 .. Len(f) : SlotSector(f[k])
  /\ \A s \in Strays : s \in [1 .. SectorLen -> Nat] /\ SlotSector(s)
  /\ base_addr <= AddrSpace
  /\ SectorLen % MaxPacket = 0 /\ HeaderLen <= MaxPacket

\* The data of the command in hand, read from the host's end.
Carried ==
  /\ Len(data) % MaxPacket = 0
  /\ chunk # 0 => \A j \in 1 .. Left : Coming(j) = FileToken(Pos + j)
  /\ chunk = 0 /\ Left > 0 =>
       /\ Left <= SectorLen
       /\ \E s \in Strays : \A j \in 1 .. Left : Coming(j) = s[(SectorLen - Left) + j]

Sectors == {file[k] : k \in 1 .. Len(file)} \cup Strays

\* A header that has begun is all there.
HeaderComes ==
  uf2_state = "HEADER" /\ byte_count > 0 =>
    /\ byte_count < HeaderLen /\ Forwarding /\ HeaderLen - byte_count <= Len(rx)
    /\ \E s \in Sectors :
         HeaderRead(s) /\ \A j \in 1 .. HeaderLen - byte_count : rx[j] = s[byte_count + j]

\* The payload that is still to come has its place in the slot.
PayloadPlaced ==
  uf2_state = "DATA" =>
    /\ data_count \in Nat /\ payload_size \in Nat /\ data_count <= payload_size
    /\ data_count < payload_size =>
         /\ target_addr \in Nat /\ base_addr <= target_addr
         /\ target_addr + (payload_size - data_count) <= AddrSpace

SlotBlock(b) == b % Blocks >= base_addr \div BlockSize

LatchPlaced ==
  /\ addr_latch \in Flash!Addr /\ data_latch \in Nat /\ addr_count \in 0 .. 2
  /\ state # "IDLE" => SlotBlock(addr_latch.blk)

(* A frame that a reset has left open after its opcode takes the write enable of
   the next upload for an octet of its address. The FSM goes on to end that frame,
   unless a reset comes in WREN_RELEASE again: each such octet costs one more
   reset, and the address, which has three, is not complete while there have been
   fewer than three. *)
Astray ==
  /\ Len(frame) > 1 /\ frame[1] \in {Flash!BLOCK_ERASE, Flash!PAGE_PROGRAM}
  /\ ~SlotBlock(frame[2])

FramePlaced ==
  /\ frame \in Seq(Nat)
  /\ state \in {"ERASE_CMD", "WRITE_CMD", "POLL_CMD"} => frame = <<>>
  /\ state \in {"ERASE_ADDR", "WRITE_ADDR"} => Len(frame) = addr_count + 1
  /\ state \in {"WRITE_DATA", "WRITE_NEXT"} => Len(frame) = 4
  /\ state \in {"IDLE", "WREN"} /\ frame # <<>> => resets > 0
  /\ Astray =>
       /\ ~SlotBlock(Flash!WRITE_ENABLE)
       /\ \/ state \in {"IDLE", "WREN"} /\ Len(frame) <= resets
          \/ state = "WREN_RELEASE" /\ Len(frame) <= resets + 1

CarryInv  == TransportInv /\ StreamTypes /\ Carried /\ HeaderComes
PlaceInv  == CarryInv /\ PayloadPlaced
FlashInv  == LatchPlaced /\ FramePlaced /\ resets \in 0 .. MaxResets
LoaderInv == PlaceInv /\ FlashInv

\* The resets are too few for a write enable to fill an address, or it names the slot.
ShortOfAddress == MaxResets < 3 \/ SlotBlock(Flash!WRITE_ENABLE)

\* Arithmetic of packets and blocks.
LEMMA Multiples ==
  ASSUME NEW m \in Nat \ {0}, NEW a \in Nat, NEW b \in Nat, a % m = 0, b % m = 0
  PROVE  b <= a => (a - b) % m = 0
<1> SUFFICES ASSUME b <= a PROVE (a - b) % m = 0 OBVIOUS
<1> DEFINE x == a \div m
           y == b \div m
<1>1. x \in Nat /\ y \in Nat /\ a = m * x /\ b = m * y BY SMT
<1> HIDE DEF x, y
<1>2. y <= x
  <2> SUFFICES ASSUME ~(y <= x) PROVE FALSE OBVIOUS
  <2>1. PICK z \in Nat : y = (x + 1) + z BY <1>1
  <2>2. m * y = (m * x + m) + m * z /\ m * z \in Nat BY <1>1, <2>1, SMT
  <2> QED BY <1>1, <2>2
<1>3. PICK z \in Nat : x = y + z BY <1>1, <1>2
<1>4. m * x = m * y + m * z /\ m * z \in Nat BY <1>1, <1>3, SMT
<1>5. a - b = z * m BY <1>1, <1>4, SMT
<1> QED BY <1>5, Started

LEMMA Monotone ==
  ASSUME NEW m \in Nat \ {0}, NEW a \in Nat, NEW b \in Nat, a <= b
  PROVE  a \div m \in Nat /\ b \div m \in Nat /\ a \div m <= b \div m
<1> DEFINE x == a \div m
           y == b \div m
           r == a % m
           s == b % m
<1>1. x \in Nat /\ y \in Nat /\ r \in 0 .. m - 1 /\ s \in 0 .. m - 1
      /\ a = m * x + r /\ b = m * y + s
  BY SMT
<1> HIDE DEF x, y, r, s
<1>2. x <= y
  <2> SUFFICES ASSUME ~(x <= y) PROVE FALSE OBVIOUS
  <2>1. PICK z \in Nat : x = (y + 1) + z BY <1>1
  <2>2. m * x = (m * y + m) + m * z /\ m * z \in Nat /\ m * y \in Nat BY <1>1, <2>1, SMT
  <2> DEFINE u == m * y
             v == m * z
             w == m * x
  <2>3. w = (u + m) + v /\ u \in Nat /\ v \in Nat /\ a = w + r /\ b = u + s BY <1>1, <2>2
  <2> HIDE DEF u, v, w
  <2> QED BY <1>1, <2>3
<1> QED BY <1>1, <1>2 DEF x, y

LEMMA Packets ==
  ASSUME SlotUploads, NEW n \in Nat
  PROVE  n * SectorLen \in Nat /\ (n * SectorLen) % MaxPacket = 0
<1> DEFINE m == MaxPacket
           S == SectorLen
           x == S \div m
<1>1. m \in Nat \ {0} /\ S \in Nat /\ S % m = 0 BY Sizes DEF SlotUploads
<1> HIDE DEF m, S
<1>2. x \in Nat /\ S = m * x BY <1>1, SMT
<1> HIDE DEF x
<1>3. n * S = (n * x) * m /\ n * x \in Nat BY <1>1, <1>2, SMT
<1>4. ((n * x) * m) % m = 0 /\ (n * x) * m \in Nat BY <1>1, <1>3, Started
<1> QED BY <1>3, <1>4 DEF m, S

LEMMA SlotFile ==
  ASSUME SlotUploads, StreamTypes
  PROVE  /\ file # <<>> /\ file \in Files /\ Len(file) \in Nat \ {0}
         /\ \A k \in 1 .. Len(file) : SlotSector(file[k]) /\ file[k] \in [1 .. SectorLen -> Nat]
<1>1. file \in Files BY DEF StreamTypes
<1>2. file # <<>> /\ \A k \in 1 .. Len(file) : SlotSector(file[k]) BY <1>1 DEF SlotUploads
<1> QED BY <1>1, <1>2, FileSectors

\* A step that takes no token of the data.
LEMMA CarriedKept ==
  ASSUME StreamTypes, Carried, UNCHANGED <<byte_count, file, chunk>>, written' \in Nat,
         Left' = Left, EndSector' = EndSector, \A j \in 1 .. Left : Coming(j)' = Coming(j),
         Len(data') % MaxPacket = 0
  PROVE  StreamTypes' /\ Carried' /\ Pos' = Pos
<1>1. Pos' = Pos BY DEF Pos
<1>2. StreamTypes' BY <1>1 DEF StreamTypes
<1>3. \A p : FileToken(p)' = FileToken(p) BY DEF FileToken
<1>4. (Len(data) % MaxPacket = 0)' OBVIOUS
<1>5. chunk' # 0 => \A j \in 1 .. Left' : Coming(j)' = FileToken(Pos + j)'
  <2> SUFFICES ASSUME chunk # 0, NEW j \in 1 .. Left PROVE Coming(j)' = FileToken(Pos + j)'
    OBVIOUS
  <2>1. PICK p : p = Pos + j OBVIOUS
  <2>2. Coming(j) = FileToken(p) BY <2>1 DEF Carried
  <2>3. FileToken(Pos + j)' = FileToken(p)'
    <3>1. (Pos + j)' = p BY <1>1, <2>1
    <3> QED BY <3>1 DEF FileToken
  <2>4. FileToken(p)' = FileToken(p) BY <1>3
  <2> QED BY <2>2, <2>3, <2>4
<1>6. chunk' = 0 /\ Left' > 0 =>
        /\ Left' <= SectorLen
        /\ \E s \in Strays : \A j \in 1 .. Left' : Coming(j)' = s[(SectorLen - Left') + j]
  <2> SUFFICES ASSUME chunk = 0, Left > 0
               PROVE  /\ Left <= SectorLen
                      /\ \E s \in Strays :
                           \A j \in 1 .. Left : Coming(j)' = s[(SectorLen - Left) + j]
    OBVIOUS
  <2>1. Left <= SectorLen BY DEF Carried
  <2>2. PICK s \in Strays : \A j \in 1 .. Left : Coming(j) = s[(SectorLen - Left) + j]
    BY DEF Carried
  <2> QED BY <2>1, <2>2
<1>7. Carried' BY <1>4, <1>5, <1>6 DEF Carried
<1> QED BY <1>1, <1>2, <1>7

\* The header that a decoder which reads none has read.
LEMMA NoHeader ==
  ASSUME HeaderComes, ~Forwarding \/ rx = <<>>, UNCHANGED <<uf2_state, byte_count>>,
         byte_count \in Nat
  PROVE  HeaderComes'
<1>1. ASSUME uf2_state = "HEADER", byte_count > 0 PROVE FALSE
  <2>1. Forwarding /\ byte_count < 8 /\ 8 - byte_count <= Len(rx)
    BY <1>1 DEF HeaderComes, HeaderLen
  <2>2. rx = <<>> BY <2>1
  <2>3. Len(rx) = 0 BY <2>2
  <2> QED BY <2>1, <2>3
<1> QED BY <1>1 DEF HeaderComes

\* More of the data in the endpoint leaves the header where it is.
LEMMA HeaderStays ==
  ASSUME HeaderComes, Forwarding => Forwarding', UNCHANGED <<uf2, file>>, rx \in Seq(Nat),
         Len(rx') \in Nat, Len(rx) <= Len(rx'), \A j \in 1 .. Len(rx) : rx'[j] = rx[j],
         byte_count \in Nat
  PROVE  HeaderComes'
<1>1. UNCHANGED <<uf2_state, byte_count, flags, target_addr, payload_size, blockNo, numBlocks>>
  BY DEF uf2, uf2_header
<1>2. \A s : HeaderRead(s)' = HeaderRead(s) BY <1>1 DEF HeaderRead
<1>3. Sectors' = Sectors BY DEF Sectors
<1>4. HeaderLen' = HeaderLen /\ HeaderLen \in Nat BY DEF HeaderLen
<1> SUFFICES ASSUME uf2_state = "HEADER", byte_count > 0
             PROVE  /\ byte_count < HeaderLen /\ Forwarding' /\ HeaderLen - byte_count <= Len(rx')
                    /\ \E s \in Sectors :
                         /\ HeaderRead(s)
                         /\ \A j \in 1 .. HeaderLen - byte_count : rx'[j] = s[byte_count + j]
  BY <1>1, <1>2, <1>3, <1>4 DEF HeaderComes
<1>5. byte_count < HeaderLen /\ Forwarding /\ HeaderLen - byte_count <= Len(rx) BY DEF HeaderComes
<1>6. PICK s \in Sectors :
        HeaderRead(s) /\ \A j \in 1 .. HeaderLen - byte_count : rx[j] = s[byte_count + j]
  BY DEF HeaderComes
<1>7. Len(rx) \in Nat OBVIOUS
<1>8. HeaderLen - byte_count <= Len(rx') BY <1>4, <1>5, <1>7
<1>9. ASSUME NEW j \in 1 .. HeaderLen - byte_count PROVE rx'[j] = s[byte_count + j]
  <2>1. j \in 1 .. Len(rx) BY <1>4, <1>5, <1>7
  <2>2. rx'[j] = rx[j] BY <2>1
  <2> QED BY <1>6, <2>2
<1> QED BY <1>5, <1>6, <1>8, <1>9

\* The host and the handler, one lemma each.
LEMMA HostCarries ==
  ASSUME SlotUploads, CarryInv, HostStep
  PROVE  CarryInv'
<1>1. UNCHANGED <<uf2, byte_count, file, chunk>> BY DEF HostStep, SendPacket, TakeStatus, uf2
<1>2. /\ TransportInv /\ StreamTypes /\ Carried /\ HeaderComes BY DEF CarryInv
<1>3. rx \in Seq(Nat) /\ data \in Seq(Nat) BY <1>2 DEF TransportInv, TransportTypes
<1>4. byte_count \in Nat BY <1>2, Sizes DEF StreamTypes
<1>5. Len(data) \in Nat /\ Len(data) % MaxPacket = 0 /\ MaxPacket \in Nat \ {0}
  BY <1>2, <1>3, Sizes DEF Carried
<1>6. CASE SendPacket
  <2>1. /\ TransportInv' /\ Left' = Left /\ Forwarding' = Forwarding /\ EndSector' = EndSector
        /\ \A j \in 1 .. Left : Coming(j)' = Coming(j)
    BY <1>2, <1>6, SendStep
  <2>2. written' \in Nat BY <1>2, <1>6 DEF SendPacket, StreamTypes
  <2> DEFINE n == IF Len(data) < MaxPacket THEN Len(data) ELSE MaxPacket
  <2>3. rx' = rx \o SubSeq(data, 1, n) /\ data' = SubSeq(data, n + 1, Len(data))
    BY <1>6 DEF SendPacket
  <2>4. n \in Nat /\ n <= Len(data) /\ (n = Len(data) \/ n = MaxPacket) BY <1>5
  <2> HIDE DEF n
  <2>5. /\ Len(rx') = Len(rx) + n /\ Len(data') = Len(data) - n /\ Len(rx) \in Nat
    BY <1>3, <2>3, <2>4, TokensMoved
  <2>6. \A j \in 1 .. Len(rx) + n : rx'[j] = IF j <= Len(rx) THEN rx[j] ELSE data[j - Len(rx)]
    BY <1>3, <2>3, <2>4, TokensPut
  <2>7. n % MaxPacket = 0
    <3>1. CASE n = Len(data) BY <1>5, <3>1
    <3>2. CASE n = MaxPacket
      <4>1. (1 * MaxPacket) % MaxPacket = 0 /\ 1 * MaxPacket = MaxPacket BY <1>5, Started
      <4> QED BY <3>2, <4>1
    <3> QED BY <2>4, <3>1, <3>2
  <2>8. Len(data') % MaxPacket = 0
    <3>1. (Len(data) - n) % MaxPacket = 0 BY <1>5, <2>4, <2>7, Multiples
    <3> QED BY <2>5, <3>1
  <2>9. StreamTypes' /\ Carried' BY <1>1, <1>2, <2>1, <2>2, <2>8, CarriedKept
  <2>10. \A j \in 1 .. Len(rx) : rx'[j] = rx[j]
    <3> SUFFICES ASSUME NEW j \in 1 .. Len(rx) PROVE rx'[j] = rx[j] OBVIOUS
    <3>1. j \in 1 .. Len(rx) + n BY <2>4, <2>5
    <3> QED BY <2>6, <3>1
  <2>11. Len(rx') \in Nat /\ Len(rx) <= Len(rx') BY <2>4, <2>5
  <2>12. HeaderComes' BY <1>1, <1>2, <1>3, <1>4, <2>1, <2>10, <2>11, HeaderStays
  <2> QED BY <2>1, <2>9, <2>12 DEF CarryInv
<1>7. CASE TakeStatus
  <2>1. /\ TransportInv' /\ Left = 0 /\ Left' = 0 /\ ~Forwarding /\ EndSector' = EndSector
    BY <1>2, <1>7, TakeStatusStep
  <2>2. written' \in Nat /\ data' = data BY <1>2, <1>7 DEF TakeStatus, StreamTypes
  <2>3. StreamTypes' /\ Carried' BY <1>1, <1>2, <1>5, <2>1, <2>2, CarriedKept
  <2>4. HeaderComes' BY <1>1, <1>2, <1>4, <2>1, NoHeader DEF uf2
  <2> QED BY <2>1, <2>3, <2>4 DEF CarryInv
<1> QED BY <1>6, <1>7 DEF HostStep

LEMMA HandlerCarries ==
  ASSUME SlotUploads, CarryInv, UNCHANGED <<uf2_state, byte_count, file, chunk, host, data, written>>,
         ScsiAlone \/ SendCswPrep(error) \/ Dispatch
  PROVE  CarryInv'
<1>1. TransportInv /\ StreamTypes /\ Carried /\ HeaderComes BY DEF CarryInv
<1>2. written' \in Nat /\ EndSector' = EndSector BY <1>1 DEF StreamTypes, EndSector
<1>3. byte_count \in Nat BY <1>1, Sizes DEF StreamTypes
<1>4. Len(data') % MaxPacket = 0 BY <1>1 DEF Carried
<1>5. /\ TransportInv' /\ Left' = Left /\ ~Forwarding
      /\ \A j \in 1 .. Left : Coming(j)' = Coming(j)
  <2>1. CASE ReceiveCbw
    <3>1. /\ TransportInv' /\ Left' = Left /\ Preparing
          /\ \A j \in 1 .. Left : Coming(j)' = Coming(j)
      BY <1>1, <2>1, ReceiveCbwStep
    <3> QED BY <3>1 DEF Preparing, Forwarding
  <2>2. CASE Dispatch
    <3>1. BlockCount > 0 BY DEF SlotUploads
    <3> QED BY <1>1, <2>2, <3>1, DispatchStep
  <2>3. CASE SendCswPrep(error) \/ SendCsw BY <1>1, <2>3, StatusStep
  <2> QED BY <1>1, <2>1, <2>2, <2>3, HandlerAlone
<1>6. StreamTypes' /\ Carried' BY <1>1, <1>2, <1>4, <1>5, CarriedKept
<1>7. HeaderComes' BY <1>1, <1>3, <1>5, NoHeader
<1> QED BY <1>5, <1>6, <1>7 DEF CarryInv

LEMMA StartCarries ==
  ASSUME SlotUploads, CarryInv, Start
  PROVE  CarryInv'
<1>1. TransportInv /\ StreamTypes /\ Carried /\ HeaderComes BY DEF CarryInv
<1>2. UNCHANGED <<uf2_state, byte_count, file>> /\ ~Forwarding
  <2>1. host = "idle" /\ UNCHANGED <<uf2, file>>
    BY DEF Start, WriteFile, WriteStray, TestUnitReady, Issue
  <2>2. scsi_state = "RECEIVE_CBW" BY <1>1, <2>1, NothingLeft
  <2> QED BY <2>1, <2>2 DEF uf2, Forwarding
<1>3. byte_count \in Nat BY <1>1, Sizes DEF StreamTypes
<1>4. HeaderComes' BY <1>1, <1>2, <1>3, NoHeader
<1>5. CASE \E n \in {1, Len(file)} : WriteFile(n)
  <2>1. PICK n \in {1, Len(file)} : WriteFile(n) BY <1>5
  <2>2. file # <<>> BY <1>1, SlotFile
  <2>3. /\ TransportInv' /\ Pos' = Pos /\ Pos \in Nat
        /\ Len(data') = n * SectorLen /\ n \in Nat /\ chunk' # 0 /\ chunk' \in Nat
        /\ written \in Nat /\ EndSector' <= Len(file)
        /\ \A j \in 1 .. Left' : Coming(j)' = FileToken(Pos + j)'
    BY <1>1, <2>1, <2>2, FileIssued
  <2>4. written' = written BY <2>1 DEF WriteFile, Issue
  <2>5. Len(data') % MaxPacket = 0 BY <2>3, Packets
  <2>6. Carried' BY <2>3, <2>5 DEF Carried
  <2>7. StreamTypes' BY <1>1, <1>2, <2>3, <2>4 DEF StreamTypes
  <2> QED BY <1>4, <2>3, <2>6, <2>7 DEF CarryInv
<1>6. CASE \E s \in Strays, lba \in {0, BlockCount} : WriteStray(s, lba)
  <2>1. PICK s \in Strays, lba \in {0, BlockCount} : WriteStray(s, lba) BY <1>6
  <2>2. s \in [1 .. SectorLen -> Nat] /\ SectorLen \in Nat \ {0} BY Sizes DEF SlotUploads
  <2>3. /\ TransportInv' /\ StreamTypes' /\ Left' = SectorLen /\ Len(data') = SectorLen /\ chunk' = 0
        /\ \A j \in 1 .. SectorLen : Coming(j)' = s[j]
    BY <1>1, <2>1, <2>2, StrayIssued
  <2>4. (1 * SectorLen) % MaxPacket = 0 /\ 1 * SectorLen = SectorLen BY <2>2, Packets
  <2>5. \A j \in 1 .. Left' : Coming(j)' = s[(SectorLen - Left') + j] BY <2>2, <2>3
  <2>6. s \in Strays' /\ Left' <= SectorLen BY <2>2, <2>3
  <2>7. Carried' BY <2>3, <2>4, <2>5, <2>6 DEF Carried
  <2> QED BY <1>4, <2>3, <2>7 DEF CarryInv
<1>7. CASE TestUnitReady
  <2>1. /\ Issue(OP_TEST_UNIT_READY, 0, 0) /\ data' = data /\ chunk' = chunk /\ host' = "status"
    BY <1>7 DEF TestUnitReady
  <2>2. UNCHANGED <<byte_count, file, written>> /\ host = "idle" BY <2>1 DEF Issue, uf2
  <2>3. data = <<>> /\ data' \in Seq(Nat) /\ Len(data') = 0 BY <1>1, <2>1, <2>2, NothingLeft
  <2>4. OP_TEST_UNIT_READY \in Nat /\ 0 \in Nat /\ ~(0 > 0) BY DEF OP_TEST_UNIT_READY
  <2>5. TransportInv' /\ Left = 0 /\ Left' = 0 BY <1>1, <2>1, <2>3, <2>4, IssueStep
  <2>6. EndSector' = EndSector BY <2>1, <2>2 DEF EndSector
  <2>7. written' \in Nat BY <1>1, <2>2 DEF StreamTypes
  <2>8. Len(data') % MaxPacket = 0 BY <2>3, Sizes
  <2>9. StreamTypes' /\ Carried' BY <1>1, <2>1, <2>2, <2>5, <2>6, <2>7, <2>8, CarriedKept
  <2> QED BY <1>4, <2>5, <2>9 DEF CarryInv
<1> QED BY <1>5, <1>6, <1>7 DEF Start

\* A token of the data is taken.
LEMMA TokenCarries ==
  ASSUME TransportInv, StreamTypes, Carried, ReceiveWriteData, byte_count' \in 0 .. LastToken,
         UNCHANGED <<host, data, chunk, file, written>>
  PROVE  TransportInv' /\ StreamTypes' /\ Carried' /\ Pos' = Pos + (IF chunk = 0 THEN 0 ELSE 1)
<1>1. /\ TransportInv' /\ Left \in Nat \ {0} /\ Left' = Left - 1
      /\ \A j \in 1 .. Left - 1 : Coming(j)' = Coming(j + 1)
  BY WriteDataStep
<1>2. EndSector' = EndSector BY DEF EndSector
<1>3. Pos' = Pos + (IF chunk = 0 THEN 0 ELSE 1) /\ Pos \in Nat
  <2> DEFINE x == EndSector * SectorLen
             L == Left
  <2>1. EndSector \in Nat /\ SectorLen \in Nat \ {0} BY Sizes DEF StreamTypes, EndSector
  <2>2. x \in Nat BY <2>1, Started
  <2>3. Pos = x - (IF chunk = 0 THEN 0 ELSE L) /\ Pos' = x - (IF chunk = 0 THEN 0 ELSE L - 1)
    BY <1>1, <1>2 DEF Pos
  <2>4. L \in Nat /\ Pos \in Nat BY <1>1 DEF StreamTypes
  <2> HIDE DEF x, L
  <2> QED BY <2>2, <2>3, <2>4
<1>4. StreamTypes'
  <2>1. LastToken' = LastToken /\ Pos' \in Nat BY <1>3 DEF LastToken
  <2> QED BY <1>2, <2>1 DEF StreamTypes
<1>5. chunk' # 0 => \A j \in 1 .. Left' : Coming(j)' = FileToken(Pos + j)'
  <2> SUFFICES ASSUME chunk # 0, NEW j \in 1 .. Left - 1 PROVE Coming(j)' = FileToken(Pos + j)'
    BY <1>1
  <2>1. PICK p : p = Pos + (j + 1) OBVIOUS
  <2>2. j + 1 \in 1 .. Left BY <1>1
  <2>3. Coming(j + 1) = FileToken(p) BY <2>1, <2>2 DEF Carried
  <2>4. (Pos + j)' = p BY <1>1, <1>3, <2>1
  <2>5. FileToken(Pos + j)' = FileToken(p)
    BY <2>4 DEF FileToken
  <2> QED BY <1>1, <2>3, <2>5
<1>6. chunk' = 0 /\ Left' > 0 =>
        /\ Left' <= SectorLen
        /\ \E s \in Strays : \A j \in 1 .. Left' : Coming(j)' = s[(SectorLen - Left') + j]
  <2> SUFFICES ASSUME chunk = 0
               PROVE  /\ Left - 1 <= SectorLen
                      /\ \E s \in Strays :
                           \A j \in 1 .. Left - 1 : Coming(j)' = s[(SectorLen - (Left - 1)) + j]
    BY <1>1
  <2>1. Left > 0 BY <1>1
  <2>2. Left <= SectorLen BY <2>1 DEF Carried
  <2>3. PICK s \in Strays : \A j \in 1 .. Left : Coming(j) = s[(SectorLen - Left) + j]
    BY <2>1 DEF Carried
  <2>4. SectorLen \in Nat BY Sizes
  <2>5. ASSUME NEW j \in 1 .. Left - 1
        PROVE  Coming(j)' = s[(SectorLen - (Left - 1)) + j]
    <3>1. j + 1 \in 1 .. Left BY <1>1
    <3>2. (SectorLen - Left) + (j + 1) = (SectorLen - (Left - 1)) + j BY <1>1, <2>4
    <3>3. Coming(j + 1) = s[(SectorLen - Left) + (j + 1)] BY <2>3, <3>1
    <3> QED BY <1>1, <3>2, <3>3
  <2>6. Left - 1 <= SectorLen BY <1>1, <2>2, <2>4
  <2> QED BY <2>5, <2>6
<1>7. (Len(data) % MaxPacket = 0)' BY DEF Carried
<1>8. Carried' BY <1>5, <1>6, <1>7 DEF Carried
<1> QED BY <1>1, <1>3, <1>4, <1>8

\* The first magic is where a sector starts, and the whole header is in the endpoint with it.
LEMMA SectorFront ==
  ASSUME SlotUploads, TransportInv, StreamTypes, Carried,
         scsi_state = "RECEIVE_WRITE_DATA", rx # <<>>, Head(rx) = MAGIC_START0
  PROVE  /\ HeaderLen <= Len(rx)
         /\ \E s \in Sectors : \A j \in 1 .. HeaderLen : rx[j] = s[j]
<1> DEFINE S == SectorLen
           m == MaxPacket
           L == Left
           p == Pos
           R == Len(rx)
           D == Len(data)
<1>1. /\ rx \in Seq(Nat) /\ data \in Seq(Nat) /\ CbwLeft = 0 /\ L = R + D
      /\ R \in Nat \ {0} /\ D \in Nat /\ Head(rx) = rx[1]
  <2>1. rx \in Seq(Nat) /\ data \in Seq(Nat) BY DEF TransportInv, TransportTypes
  <2>2. CbwLeft = 0 BY DEF CbwLeft
  <2>3. R \in Nat /\ D \in Nat /\ R # 0 /\ Head(rx) = rx[1] BY <2>1
  <2>4. L = R + D BY <2>2, <2>3 DEF Left
  <2> QED BY <2>1, <2>2, <2>3, <2>4
<1>2. S \in Nat \ {0} /\ S > 8 /\ m \in Nat \ {0} /\ HeaderLen = 8 /\ 8 <= m /\ D % m = 0
  BY Sizes DEF SlotUploads, Carried
<1>3. \A j \in 1 .. R : Coming(j) = rx[j]
  <2> SUFFICES ASSUME NEW j \in 1 .. R PROVE Coming(j) = rx[j] OBVIOUS
  <2>1. 0 + j = j /\ j <= R BY <1>1
  <2> QED BY <1>1, <2>1 DEF Coming, Token
<1>4. Coming(1) = MAGIC_START0 /\ 1 \in 1 .. L BY <1>1, <1>3
<1>5. \E s \in Sectors : L % m = 0 /\ \A j \in 1 .. 8 : j <= L => Coming(j) = s[j]
  <2>1. CASE chunk # 0
    <3> DEFINE E == EndSector
               q == p \div S
               r == p % S
    <3>1. \A j \in 1 .. L : Coming(j) = FileToken(p + j) BY <2>1 DEF Carried
    <3>2. E \in Nat /\ E <= Len(file) /\ p \in Nat /\ p = E * S - L
      BY <2>1 DEF StreamTypes, EndSector, Pos
    <3>3. E * S \in Nat BY <1>2, <3>2, Started
    <3>4. q \in Nat /\ r \in 0 .. S - 1 /\ p = S * q + r
      <4>1. S \in Nat \ {0} /\ p \in Nat BY <1>2, <3>2
      <4> HIDE DEF S, p
      <4> QED BY <4>1, SMT
    <3>5. q < E
      <4> SUFFICES ASSUME ~(q < E) PROVE FALSE OBVIOUS
      <4> HIDE DEF S, p, L, E, q, r
      <4>1. PICK x \in Nat : q = E + x BY <3>2, <3>4
      <4>2. S * q = E * S + S * x /\ S * x \in Nat BY <1>2, <3>2, <4>1, SMT
      <4> DEFINE u == E * S
                 v == S * x
                 z == S * q
      <4>3. z = u + v /\ u \in Nat /\ v \in Nat /\ p = u - L /\ p = z + r BY <3>2, <3>3, <3>4, <4>2
      <4>4. L > 0 /\ L \in Nat BY <1>1
      <4> HIDE DEF u, v, z
      <4> QED BY <3>4, <4>3, <4>4
    <3> DEFINE k == q + 1
    <3>6. k \in 1 .. Len(file) /\ Len(file) \in Nat
      <4>1. Len(file) \in Nat BY SlotFile
      <4> HIDE DEF q, E
      <4> QED BY <3>2, <3>4, <3>5, <4>1
    <3>7. file[k] \in Sectors /\ SlotSector(file[k]) BY <3>6, SlotFile DEF Sectors
    <3>8. (p + 1) - 1 = p /\ 1 + q = q + 1
      <4> HIDE DEF p, q
      <4> QED BY <3>2, <3>4
    <3>9. FileToken(p + 1) = file[k][1 + r]
      <4>1. FileToken(p + 1) = file[1 + ((p + 1) - 1) \div S][1 + (((p + 1) - 1) % S)] BY DEF FileToken
      <4> HIDE DEF S, p
      <4> QED BY <3>8, <4>1
    <3>10. r = 0
      <4> SUFFICES ASSUME r # 0 PROVE FALSE OBVIOUS
      <4> HIDE DEF r, S, k, p, L
      <4>1. 1 + r \in 2 .. S BY <1>2, <3>4
      <4>2. file[k][1 + r] # MAGIC_START0 BY <3>7, <4>1 DEF SlotSector, S
      <4>3. file[k][1 + r] = MAGIC_START0 BY <1>4, <3>1, <3>9
      <4> QED BY <4>2, <4>3
    <3>11. L % m = 0
      <4> DEFINE w == E - q
      <4>1. w \in Nat
        <5> HIDE DEF E, q
        <5> QED BY <3>2, <3>4, <3>5
      <4>2. L = w * S
        <5>1. E = w + q
          <6> HIDE DEF E, q
          <6> QED BY <3>2, <3>4
        <5> HIDE DEF w, E, q, L, S, p, r
        <5>2. E * S = w * S + S * q /\ S * q \in Nat /\ w * S \in Nat
          BY <1>2, <3>4, <4>1, <5>1, SMT
        <5> DEFINE u == E * S
                   v == w * S
                   z == S * q
        <5>3. u = v + z /\ u \in Nat /\ v \in Nat /\ z \in Nat /\ p = u - L /\ p = z + r /\ L \in Nat
          BY <1>1, <3>2, <3>3, <3>4, <5>2
        <5> HIDE DEF u, v, z
        <5>4. L = v BY <3>10, <5>3
        <5> QED BY <5>4 DEF v
      <4> HIDE DEF w
      <4>3. (w * S) % m = 0 BY <4>1, Packets
      <4> QED BY <4>2, <4>3
    <3>12. ASSUME NEW j \in 1 .. 8, j <= L PROVE Coming(j) = file[k][j]
      <4> DEFINE x == j - 1
      <4>1. x \in 0 .. S - 1 /\ x \in Nat /\ j = x + 1 BY <1>2
      <4> HIDE DEF x
      <4>2. x \div S = 0 /\ x % S = x
        <5>1. x = S * 0 + x BY <1>2, <4>1
        <5> HIDE DEF S
        <5> QED BY <1>2, <4>1, <5>1, Divided
      <4>3. p = q * S
        <5> HIDE DEF p, S, q, r
        <5>1. S * q = q * S /\ S * q \in Nat BY <1>2, <3>4, SMT
        <5> DEFINE u == S * q
        <5>2. u \in Nat /\ p = u + r /\ u = q * S BY <3>4, <5>1
        <5> HIDE DEF u
        <5>3. p = u BY <3>10, <5>2
        <5> QED BY <5>2, <5>3
      <4>4. (p + x) \div S = q /\ (p + x) % S = x
        <5>1. (q * S + x) \div S = q + x \div S /\ (q * S + x) % S = x % S
          <6> HIDE DEF S, q
          <6> QED BY <1>2, <3>4, <4>1, Moved
        <5> HIDE DEF p, S, q
        <5> QED BY <3>4, <4>2, <4>3, <5>1
      <4>5. (p + j) - 1 = p + x
        <5> HIDE DEF p
        <5> QED BY <3>2, <4>1
      <4>6. FileToken(p + j) = file[1 + ((p + j) - 1) \div S][1 + (((p + j) - 1) % S)] BY DEF FileToken
      <4>7. FileToken(p + j) = file[1 + q][1 + x]
        <5> HIDE DEF p, S, q
        <5> QED BY <4>4, <4>5, <4>6
      <4>8. 1 + q = k /\ 1 + x = j
        <5> HIDE DEF q
        <5> QED BY <3>4, <4>1
      <4>9. j \in 1 .. L BY <1>1, <3>12
      <4> QED BY <3>1, <4>7, <4>8, <4>9
    <3> HIDE DEF k
    <3> QED BY <3>7, <3>11, <3>12
  <2>2. CASE chunk = 0
    <3>1. L > 0 BY <1>1
    <3>2. L <= S BY <2>2, <3>1 DEF Carried
    <3>3. PICK s \in Strays : \A j \in 1 .. L : Coming(j) = s[(S - L) + j]
      BY <2>2, <3>1 DEF Carried
    <3>4. SlotSector(s) BY DEF SlotUploads
    <3>5. L = S
      <4> SUFFICES ASSUME L # S PROVE FALSE OBVIOUS
      <4>1. (S - L) + 1 \in 2 .. S BY <1>1, <1>2, <3>2
      <4>2. s[(S - L) + 1] # MAGIC_START0 BY <3>4, <4>1 DEF SlotSector
      <4>3. s[(S - L) + 1] = MAGIC_START0 BY <1>4, <3>3
      <4> QED BY <4>2, <4>3
    <3>6. (1 * S) % m = 0 /\ 1 * S = S BY <1>2, Packets
    <3>7. ASSUME NEW j \in 1 .. 8, j <= L PROVE Coming(j) = s[j]
      <4>1. j \in 1 .. L /\ (S - L) + j = j BY <1>1, <1>2, <3>5, <3>7
      <4> QED BY <3>3, <4>1
    <3>8. s \in Sectors BY DEF Sectors
    <3> QED BY <3>5, <3>6, <3>7, <3>8
  <2> QED BY <2>1, <2>2
<1>6. PICK s \in Sectors : L % m = 0 /\ \A j \in 1 .. 8 : j <= L => Coming(j) = s[j] BY <1>5
<1>7. 8 <= R
  <2> HIDE DEF L, D, R, m
  <2>1. L \in Nat /\ D <= L /\ L - D = R BY <1>1
  <2>2. R % m = 0
    <3>1. m \in Nat \ {0} /\ D \in Nat /\ D % m = 0 /\ L % m = 0 BY <1>1, <1>2, <1>6
    <3>2. (L - D) % m = 0 BY <2>1, <3>1, Multiples
    <3> QED BY <2>1, <3>2
  <2>3. ~(R < m)
    <3> SUFFICES ASSUME R < m PROVE FALSE OBVIOUS
    <3>1. R \in 0 .. m - 1 BY <1>1, <1>2
    <3>2. R % m = R BY <1>2, <3>1, SmallRemainder
    <3> QED BY <1>1, <2>2, <3>2
  <2> QED BY <1>1, <1>2, <2>3
<1>8. ASSUME NEW j \in 1 .. 8 PROVE rx[j] = s[j]
  <2>1. j \in 1 .. R /\ j <= L BY <1>1, <1>7
  <2> QED BY <1>3, <1>6, <2>1
<1> QED BY <1>2, <1>6, <1>7, <1>8

LEMMA SectorSlots ==
  ASSUME SlotUploads, StreamTypes, NEW s \in Sectors
  PROVE  SlotSector(s) /\ s \in [1 .. SectorLen -> Nat]
<1>1. CASE s \in {file[k] : k \in 1 .. Len(file)} BY <1>1, SlotFile
<1>2. CASE s \in Strays BY <1>2 DEF SlotUploads
<1> QED BY <1>1, <1>2 DEF Sectors

\* A word of a header that is all there; the last one opens a payload in the slot.
LEMMA HeaderGoesOn ==
  ASSUME SlotUploads, CarryInv, Forwarded, ReceiveWriteData, Header(Head(rx)),
         UNCHANGED <<host, data, chunk, file>>,
         NEW s \in Sectors, byte_count \in 0 .. 7, HeaderRead(s), 8 - byte_count <= Len(rx),
         \A j \in 1 .. 8 - byte_count : rx[j] = s[byte_count + j]
  PROVE  byte_count' = byte_count + 1 /\ HeaderComes' /\ PayloadPlaced'
<1> DEFINE b == byte_count
<1>1. TransportInv /\ StreamTypes BY DEF CarryInv
<1>2. rx \in Seq(Nat) /\ rx # <<>> /\ rx' = Tail(rx)
  BY <1>1 DEF Forwarded, ReceiveWriteData, TransportInv, TransportTypes
<1>3. /\ Len(rx) \in Nat \ {0} /\ Len(rx') = Len(rx) - 1 /\ Head(rx) = rx[1]
      /\ \A j \in 1 .. Len(rx) - 1 : rx'[j] = rx[j + 1]
  BY <1>2
<1>4. rx[1] = s[b + 1]
  <2>1. 1 \in 1 .. 8 - b OBVIOUS
  <2> QED BY <2>1
<1>5. Header(s[b + 1]) BY <1>3, <1>4
<1>6. b' = b + 1 BY <1>5, HeaderReads
<1>7. \/ uf2_state' = "DISCARD"
      \/ uf2_state' = "HEADER" /\ b < 7 /\ HeaderRead(s)'
      \/ /\ uf2_state' = "DATA" /\ b = 7 /\ IsBlock(s)
         /\ target_addr' = Target(s[4]) /\ payload_size' = s[5] /\ data_count' = 0
  BY <1>5, HeaderReads
<1>8. CASE uf2_state' = "DISCARD" BY <1>6, <1>8 DEF HeaderComes, PayloadPlaced
<1>9. CASE uf2_state' = "HEADER" /\ b < 7 /\ HeaderRead(s)'
  <2>1. 8 - b' <= Len(rx') /\ b' < 8 /\ b' \in Nat BY <1>3, <1>6, <1>9
  <2>2. Forwarding'
    <3>1. /\ Left \in Nat \ {0} /\ Forwarding' = (~csw_status /\ Left > 1)
      BY <1>1, WriteDataStep
    <3>2. Len(rx') > 0 BY <2>1, <1>3
    <3>3. Left >= Len(rx)
      <4>1. CbwLeft = 0 /\ data \in Seq(Nat)
        BY <1>1 DEF CbwLeft, Forwarded, TransportInv, TransportTypes
      <4>2. Len(data) \in Nat BY <4>1
      <4> QED BY <1>3, <4>1, <4>2 DEF Left
    <3>4. Left > 1 BY <1>3, <3>1, <3>2, <3>3
    <3> QED BY <3>1, <3>4 DEF Forwarded
  <2>3. ASSUME NEW j \in 1 .. 8 - b' PROVE rx'[j] = s[b' + j]
    <3>1. j + 1 \in 1 .. 8 - b /\ j \in 1 .. Len(rx) - 1 /\ b + (j + 1) = b' + j
      BY <1>3, <1>6, <2>1
    <3>2. rx[j + 1] = s[b + (j + 1)] BY <3>1
    <3> QED BY <1>3, <3>1, <3>2
  <2>4. s \in Sectors' BY DEF Sectors
  <2>5. HeaderComes' BY <1>9, <2>1, <2>2, <2>3, <2>4 DEF HeaderComes, HeaderLen
  <2> QED BY <1>6, <1>9, <2>5 DEF PayloadPlaced
<1>10. CASE /\ uf2_state' = "DATA" /\ b = 7 /\ IsBlock(s)
            /\ target_addr' = Target(s[4]) /\ payload_size' = s[5] /\ data_count' = 0
  <2>1. SlotSector(s) /\ s \in [1 .. SectorLen -> Nat] BY <1>1, SectorSlots
  <2>2. 4 \in 1 .. SectorLen /\ 5 \in 1 .. SectorLen /\ base_addr \in Nat /\ AddrSpace \in Nat \ {0}
    BY Sizes
  <2>3. s[4] \in Nat /\ s[5] \in Nat /\ s[4] + base_addr + s[5] <= AddrSpace
    BY <1>10, <2>1, <2>2 DEF SlotSector, EndOf
  <2>4. 0 < s[5] => Target(s[4]) = s[4] + base_addr
    <3> SUFFICES ASSUME 0 < s[5] PROVE Target(s[4]) = s[4] + base_addr OBVIOUS
    <3>1. PICK f : f = s[4] + base_addr OBVIOUS
    <3>2. f \in 0 .. AddrSpace - 1 BY <2>2, <2>3, <3>1
    <3>3. f % AddrSpace = f BY <2>2, <3>2, SmallRemainder
    <3> QED BY <3>1, <3>3 DEF Target
  <2>5. PayloadPlaced'
    <3>1. PICK f : f = Target(s[4]) OBVIOUS
    <3>2. PICK z : z = s[5] OBVIOUS
    <3>3. z \in Nat /\ (0 < z => f \in Nat /\ base_addr <= f /\ f + (z - 0) <= AddrSpace)
      BY <2>2, <2>3, <2>4, <3>1, <3>2
    <3>4. target_addr' = f /\ payload_size' = z /\ data_count' = 0 BY <1>10, <3>1, <3>2
    <3>5. 0 \in Nat /\ z \in Nat /\ 0 <= z BY <3>3
    <3> QED BY <3>3, <3>4, <3>5 DEF PayloadPlaced
  <2> QED BY <1>6, <1>10, <2>5 DEF HeaderComes
<1> QED BY <1>7, <1>8, <1>9, <1>10

LEMMA HeaderTaken ==
  ASSUME SlotUploads, CarryInv, Forwarded, ReceiveWriteData, Header(Head(rx)),
         UNCHANGED <<host, data, chunk, file>>
  PROVE  byte_count' \in 0 .. LastToken /\ HeaderComes' /\ PayloadPlaced'
<1>1. TransportInv /\ StreamTypes /\ Carried /\ HeaderComes BY DEF CarryInv
<1>2. byte_count \in 0 .. LastToken /\ LastToken \in Nat /\ LastToken > 8
  BY <1>1, Sizes DEF StreamTypes
<1>3. uf2_state = "HEADER" /\ byte_count' = NextCount BY DEF Header
<1>4. LastToken' = LastToken BY DEF LastToken
<1>5. CASE byte_count > 0
  <2>1. byte_count < 8 /\ 8 - byte_count <= Len(rx)
    BY <1>1, <1>3, <1>5 DEF HeaderComes, HeaderLen
  <2>2. PICK s \in Sectors :
          HeaderRead(s) /\ \A j \in 1 .. 8 - byte_count : rx[j] = s[byte_count + j]
    BY <1>1, <1>3, <1>5 DEF HeaderComes, HeaderLen
  <2>3. byte_count \in 0 .. 7 BY <1>2, <2>1
  <2>4. byte_count' = byte_count + 1 /\ HeaderComes' /\ PayloadPlaced'
    BY <2>1, <2>2, <2>3, HeaderGoesOn
  <2> QED BY <1>2, <2>3, <2>4
<1>6. CASE byte_count = 0 /\ Head(rx) = MAGIC_START0
  <2>1. scsi_state = "RECEIVE_WRITE_DATA" /\ rx # <<>> BY DEF Forwarded
  <2>2. 8 <= Len(rx) /\ \E s \in Sectors : \A j \in 1 .. 8 : rx[j] = s[j]
    BY <1>1, <1>6, <2>1, SectorFront DEF HeaderLen
  <2>3. PICK s \in Sectors : \A j \in 1 .. 8 : rx[j] = s[j] BY <2>2
  <2>4. HeaderRead(s) BY <1>6 DEF HeaderRead
  <2>5. \A j \in 1 .. 8 - byte_count : rx[j] = s[byte_count + j]
    <3> SUFFICES ASSUME NEW j \in 1 .. 8 - byte_count PROVE rx[j] = s[byte_count + j] OBVIOUS
    <3>1. j \in 1 .. 8 /\ byte_count + j = j BY <1>6
    <3> QED BY <2>3, <3>1
  <2>6. byte_count \in 0 .. 7 /\ 8 - byte_count <= Len(rx) BY <1>6, <2>2
  <2>7. byte_count' = byte_count + 1 /\ HeaderComes' /\ PayloadPlaced'
    BY <2>4, <2>5, <2>6, HeaderGoesOn
  <2> QED BY <1>2, <1>6, <2>7
<1>7. CASE byte_count = 0 /\ Head(rx) # MAGIC_START0
  <2>1. uf2_state' = "DISCARD" BY <1>7 DEF Header, Foreign
  <2>2. byte_count' \in 0 .. LastToken
    <3>1. NextCount = 1 % SectorLen BY <1>7 DEF NextCount
    <3>2. 1 \in 0 .. SectorLen - 1 /\ SectorLen \in Nat \ {0} BY Sizes
    <3>3. 1 % SectorLen = 1 BY <3>2, SmallRemainder
    <3> QED BY <1>2, <1>3, <3>1, <3>3
  <2> QED BY <2>1, <2>2 DEF HeaderComes, PayloadPlaced
<1> QED BY <1>2, <1>5, <1>6, <1>7

\* The rest of a sector, in step with it or not.
LEMMA RestTaken ==
  ASSUME StreamTypes, PayloadPlaced, NEW t, Data(t) \/ Pad(t) \/ Final(t) \/ Discard(t)
  PROVE  byte_count' \in 0 .. LastToken /\ HeaderComes' /\ PayloadPlaced'
<1>1. NextCount \in 0 .. LastToken /\ 0 \in 0 .. LastToken
  <2>1. /\ byte_count + 1 \in Nat /\ SectorLen \in Nat \ {0} /\ SectorLen - 1 = LastToken
        /\ LastToken \in Nat
    BY Sizes DEF StreamTypes
  <2>2. PICK c \in Nat : c = byte_count + 1 BY <2>1
  <2>3. \A m \in Nat \ {0} : c % m \in 0 .. m - 1 BY <2>2, SMT
  <2>4. c % SectorLen \in 0 .. SectorLen - 1 BY <2>1, <2>3
  <2> QED BY <2>1, <2>2, <2>4 DEF NextCount
<1>2. CASE Data(t)
  <2>1. /\ uf2_state = "DATA" /\ data_count # payload_size /\ byte_count' = NextCount
        /\ target_addr' = (target_addr + 1) % AddrSpace /\ data_count' = data_count + 1
        /\ uf2_state' = uf2_state /\ payload_size' = payload_size
    BY <1>2 DEF Data, Emitting
  <2>2. /\ data_count \in Nat /\ payload_size \in Nat /\ data_count < payload_size
        /\ target_addr \in Nat /\ base_addr <= target_addr
        /\ target_addr + (payload_size - data_count) <= AddrSpace
    BY <2>1 DEF PayloadPlaced
  <2>3. base_addr \in Nat /\ AddrSpace \in Nat \ {0} BY Sizes
  <2>4. /\ data_count' \in Nat /\ payload_size' \in Nat /\ data_count' <= payload_size'
    BY <2>1, <2>2
  <2>5. ASSUME data_count + 1 < payload_size
        PROVE  /\ target_addr' \in Nat /\ base_addr <= target_addr'
               /\ target_addr' + (payload_size' - data_count') <= AddrSpace
    <3>1. PICK a : a = target_addr + 1 OBVIOUS
    <3>2. a \in 0 .. AddrSpace - 1 BY <2>2, <2>3, <2>5, <3>1
    <3>3. a % AddrSpace = a BY <2>3, <3>2, SmallRemainder
    <3>4. target_addr' = target_addr + 1 BY <2>1, <3>1, <3>3
    <3> QED BY <2>1, <2>2, <2>3, <3>4
  <2>6. PayloadPlaced' BY <2>1, <2>4, <2>5 DEF PayloadPlaced
  <2> QED BY <1>1, <2>1, <2>6 DEF HeaderComes
<1>3. CASE Pad(t)
  <2>1. uf2_state' \in {"FINAL", "PAD"} /\ byte_count' = NextCount BY <1>3 DEF Pad
  <2> QED BY <1>1, <2>1 DEF HeaderComes, PayloadPlaced
<1>4. CASE Final(t)
  <2>1. /\ uf2_state = "FINAL"
        /\ \/ byte_count' = 0 /\ uf2_state' = "HEADER"
           \/ byte_count' = NextCount /\ uf2_state' = uf2_state
    BY <1>4 DEF Final
  <2> QED BY <1>1, <2>1 DEF HeaderComes, PayloadPlaced
<1>5. CASE Discard(t)
  <2>1. \/ byte_count' = 0 /\ uf2_state' = "HEADER"
        \/ byte_count' = NextCount /\ uf2_state' = "DISCARD"
    BY <1>5 DEF Discard
  <2> QED BY <1>1, <2>1 DEF HeaderComes, PayloadPlaced
<1>6. LastToken' = LastToken BY DEF LastToken
<1> QED BY <1>2, <1>3, <1>4, <1>5

\* The stream and the payload's place, in every step.
LEMMA PlaceKept ==
  ASSUME PlaceInv, UNCHANGED <<scsi, host, data, chunk, file, written>>,
         UNCHANGED uf2 \/ DataEnd
  PROVE  PlaceInv'
<1>1. /\ TransportInv /\ StreamTypes /\ Carried /\ HeaderComes /\ PayloadPlaced
  BY DEF PlaceInv, CarryInv
<1>2. TransportInv' /\ Left' = Left /\ \A j : Coming(j)' = Coming(j) BY <1>1, TransportStutter
<1>3. written' \in Nat /\ EndSector' = EndSector BY <1>1 DEF StreamTypes, EndSector
<1>4. byte_count' = byte_count BY DEF uf2, DataEnd
<1>5. Len(data') % MaxPacket = 0 BY <1>1 DEF Carried
<1>6. StreamTypes' /\ Carried' BY <1>1, <1>2, <1>3, <1>4, <1>5, CarriedKept
<1>7. CASE UNCHANGED uf2
  <2>1. rx' = rx /\ rx \in Seq(Nat) /\ byte_count \in Nat
    BY <1>1, Sizes DEF scsi, TransportInv, TransportTypes, StreamTypes
  <2>2. Forwarding' = Forwarding BY DEF scsi, scsi_regs, Forwarding
  <2>3. Len(rx') \in Nat /\ Len(rx) <= Len(rx') /\ \A j \in 1 .. Len(rx) : rx'[j] = rx[j]
    BY <2>1
  <2>4. HeaderComes' BY <1>1, <1>7, <2>1, <2>2, <2>3, HeaderStays
  <2>5. PayloadPlaced' BY <1>1, <1>7 DEF PayloadPlaced, uf2, uf2_header
  <2> QED BY <1>2, <1>6, <2>4, <2>5 DEF PlaceInv, CarryInv
<1>8. CASE DataEnd
  <2>1. uf2_state' = "PAD" BY <1>8 DEF DataEnd
  <2> QED BY <1>2, <1>6, <2>1 DEF PlaceInv, CarryInv, HeaderComes, PayloadPlaced
<1> QED BY <1>7, <1>8

LEMMA TokenPlaces ==
  ASSUME SlotUploads, PlaceInv, Forwarded, ReceiveWriteData, Consume(Head(rx)),
         UNCHANGED <<host, data, chunk, file, written>>
  PROVE  PlaceInv'
<1>1. CarryInv /\ TransportInv /\ StreamTypes /\ Carried /\ PayloadPlaced
  BY DEF PlaceInv, CarryInv
<1>2. byte_count' \in 0 .. LastToken /\ HeaderComes' /\ PayloadPlaced'
  <2>1. CASE Header(Head(rx)) BY <1>1, <2>1, HeaderTaken
  <2>2. CASE Data(Head(rx)) \/ Pad(Head(rx)) \/ Final(Head(rx)) \/ Discard(Head(rx))
    BY <1>1, <2>2, RestTaken
  <2> QED BY <2>1, <2>2 DEF Consume
<1>3. TransportInv' /\ StreamTypes' /\ Carried' BY <1>1, <1>2, TokenCarries
<1> QED BY <1>2, <1>3 DEF PlaceInv, CarryInv

\* A token that a failed command drops.
LEMMA DropPlaces ==
  ASSUME PlaceInv, ~Forwarded, ReceiveWriteData, UNCHANGED uf2,
         UNCHANGED <<host, data, chunk, file, written>>
  PROVE  PlaceInv'
<1>1. /\ TransportInv /\ StreamTypes /\ Carried /\ HeaderComes /\ PayloadPlaced
  BY DEF PlaceInv, CarryInv
<1>2. byte_count \in 0 .. LastToken /\ byte_count \in Nat BY <1>1, Sizes DEF StreamTypes
<1>3. ~Forwarding BY DEF Forwarded, Forwarding, ReceiveWriteData
<1>4. UNCHANGED <<uf2_state, byte_count>> BY DEF uf2
<1>5. TransportInv' /\ StreamTypes' /\ Carried' BY <1>1, <1>2, <1>4, TokenCarries
<1>6. HeaderComes' BY <1>1, <1>2, <1>3, <1>4, NoHeader
<1>7. PayloadPlaced' BY <1>1 DEF PayloadPlaced, uf2, uf2_header
<1> QED BY <1>5, <1>6, <1>7 DEF PlaceInv, CarryInv

\* A bus reset empties the transport and leaves the decoder where it is, which is in no header:
\* the rest of a header would still be in the endpoint.
LEMMA ResetPlaces ==
  ASSUME SlotUploads, PlaceInv, BusReset
  PROVE  PlaceInv'
<1>1. /\ TransportInv /\ StreamTypes /\ Carried /\ HeaderComes /\ PayloadPlaced
  BY DEF PlaceInv, CarryInv
<1>2. /\ Drained /\ ResetScsi /\ rx' = <<>> /\ packets' = <<>> /\ host' = "idle" /\ written' = 0
      /\ data' = <<>> /\ chunk' = 0 /\ UNCHANGED file
      /\ UNCHANGED <<uf2_state, byte_count, uf2_header, data_count>>
  BY DEF BusReset, Clear
<1>3. /\ scsi_state' = "RECEIVE_CBW" /\ cbw_count' = 0 /\ cbw' = [k \in 1 .. CbwLen |-> 0]
      /\ data_sent' = 0 /\ csw_status' = FALSE /\ scsi_lba' = 0
  BY <1>2 DEF ResetScsi
<1>4. CbwLeft' = 0 /\ Len(rx') = 0 /\ Len(data') = 0 /\ Left' = 0
  BY <1>2 DEF CbwLeft, Left
<1>5. TransportTypes'
  <2>1. <<>> \in Seq(Nat) /\ 0 \in Nat /\ 0 \in 0 .. CbwLen - 1 BY DEF CbwLen
  <2>2. cbw' \in [1 .. CbwLen -> Nat] BY <1>3
  <2> QED BY <1>2, <1>3, <2>1, <2>2 DEF TransportTypes
<1>6. StagesMatch' BY <1>2, <1>3, <1>4 DEF StagesMatch
<1>7. CommandCarried' BY <1>2, <1>3, <1>4 DEF CommandCarried, Preparing
<1>8. EndSector' = 0 /\ Pos' = 0
  <2>1. EndSector' = 0 BY <1>2 DEF EndSector
  <2>2. SectorLen \in Nat /\ SectorLen' = SectorLen BY Sizes DEF SectorLen
  <2> QED BY <1>2, <2>1, <2>2 DEF Pos
<1>9. StreamTypes'
  <2>1. LastToken' = LastToken BY DEF LastToken
  <2>2. Len(file) \in Nat BY <1>1, SlotFile
  <2> QED BY <1>1, <1>2, <1>8, <2>1, <2>2 DEF StreamTypes
<1>10. Carried'
  <2>1. 0 % MaxPacket = 0 BY Sizes
  <2> QED BY <1>2, <1>4, <2>1 DEF Carried
<1>11. HeaderComes'
  <2>1. rx = <<>> \/ uf2_state = "DATA" BY <1>2 DEF Drained, PortW, Emitting
  <2>2. byte_count \in Nat BY <1>1, Sizes DEF StreamTypes
  <2>3. CASE rx = <<>> BY <1>1, <1>2, <2>2, <2>3, NoHeader
  <2>4. CASE uf2_state = "DATA" BY <1>2, <2>4 DEF HeaderComes
  <2> QED BY <2>1, <2>3, <2>4
<1>12. PayloadPlaced' BY <1>1, <1>2 DEF PayloadPlaced, uf2_header
<1> QED BY <1>5, <1>6, <1>7, <1>9, <1>10, <1>11, <1>12 DEF PlaceInv, CarryInv, TransportInv

LEMMA PlaceStep == ASSUME SlotUploads, PlaceInv, [Next]_vars PROVE PlaceInv'
<1>1. CarryInv /\ PayloadPlaced BY DEF PlaceInv
<1>2. CASE Gateware
  <2>1. UNCHANGED <<host, data, chunk, file, written>> BY <1>2 DEF Gateware, host_vars
  <2>2. CASE (ScsiAlone /\ UNCHANGED uf2) \/ (SendCswPrep(error) /\ UNCHANGED uf2)
               \/ (Dispatch /\ Clear)
    <3>1. UNCHANGED <<uf2_state, byte_count, uf2_header, data_count>>
      BY <2>2 DEF uf2, Clear
    <3>2. CarryInv' BY <1>1, <2>1, <2>2, <3>1, HandlerCarries
    <3>3. PayloadPlaced' BY <1>1, <3>1 DEF PayloadPlaced, uf2_header
    <3> QED BY <3>2, <3>3 DEF PlaceInv
  <2>3. CASE DecodeByte \/ StoreByte
    <3>1. Forwarded /\ ReceiveWriteData /\ Consume(Head(rx))
      BY <2>3 DEF DecodeByte, StoreByte, Consume
    <3> QED BY <2>1, <3>1, TokenPlaces
  <2>4. CASE DropByte BY <2>1, <2>4, DropPlaces DEF DropByte
  <2>5. CASE UNCHANGED scsi /\ (UNCHANGED uf2 \/ DataEnd) BY <2>1, <2>5, PlaceKept
  <2> QED BY <1>2, <2>2, <2>3, <2>4, <2>5 DEF Gateware, DispatchAndClear
<1>3. CASE DeviceStep \/ Boot \/ UNCHANGED vars
  <2>1. UNCHANGED <<scsi, uf2, host, data, chunk, file, written>>
    BY <1>3 DEF DeviceStep, Boot, vars, host_vars
  <2> QED BY <2>1, PlaceKept
<1>4. CASE HostStep
  <2>1. UNCHANGED uf2 BY <1>4 DEF HostStep, SendPacket, TakeStatus
  <2>2. PayloadPlaced' BY <1>1, <2>1 DEF PayloadPlaced, uf2, uf2_header
  <2> QED BY <1>1, <1>4, <2>2, HostCarries DEF PlaceInv
<1>5. CASE Start
  <2>1. UNCHANGED uf2 BY <1>5 DEF Start, WriteFile, WriteStray, TestUnitReady, Issue
  <2>2. PayloadPlaced' BY <1>1, <2>1 DEF PayloadPlaced, uf2, uf2_header
  <2> QED BY <1>1, <1>5, <2>2, StartCarries DEF PlaceInv
<1> QED BY <1>2, <1>3, <1>4, <1>5, ResetPlaces DEF Next

-----------------------------------------------------------------------------
(* The device. What the FSM latches lies in the slot, and a frame that does
   something names a block of the slot. *)

BelowSlot == \A n \in 0 .. base_addr - 1 : mem'[FlashAddr(n)] = mem[FlashAddr(n)]

LEMMA BlockNumbers ==
  /\ BlockSize \in Nat \ {0} /\ Blocks \in Nat \ {0} /\ base_addr \div BlockSize \in Nat
  /\ \A n \in 0 .. AddrSpace - 1 :
       FlashAddr(n) \in Flash!Addr /\ FlashAddr(n).blk = n \div BlockSize
<1>1. Blocks \in Nat \ {0} /\ Pages \in Nat \ {0} /\ PageSize \in Nat \ {0} BY Given
<1>2. BlockSize \in Nat \ {0}
  <2>1. \A x, y \in Nat \ {0} : x * y \in Nat \ {0} BY SMT
  <2> QED BY <1>1, <2>1 DEF BlockSize
<1>3. base_addr \div BlockSize \in Nat
  <2>1. base_addr \in Nat BY Sizes
  <2> QED BY <1>2, <2>1, Monotone
<1>4. ASSUME NEW n \in 0 .. AddrSpace - 1
      PROVE  FlashAddr(n) \in Flash!Addr /\ FlashAddr(n).blk = n \div BlockSize
  BY NumberAddressed DEF FlashAddr
<1> QED BY <1>1, <1>2, <1>3, <1>4

\* The byte on the port goes to the slot.
LEMMA OfferPlaced ==
  ASSUME PayloadPlaced, Emitting
  PROVE  FlashAddr(target_addr) \in Flash!Addr /\ SlotBlock(FlashAddr(target_addr).blk)
<1>1. /\ target_addr \in Nat /\ base_addr <= target_addr /\ base_addr \in Nat
      /\ target_addr \in 0 .. AddrSpace - 1
  <2>1. /\ data_count \in Nat /\ payload_size \in Nat /\ data_count < payload_size
        /\ target_addr \in Nat /\ base_addr <= target_addr
        /\ target_addr + (payload_size - data_count) <= AddrSpace
    BY DEF PayloadPlaced, Emitting
  <2>2. base_addr \in Nat /\ AddrSpace \in Nat BY Sizes
  <2> QED BY <2>1, <2>2
<1>2. FlashAddr(target_addr) \in Flash!Addr /\ FlashAddr(target_addr).blk = target_addr \div BlockSize
  BY <1>1, BlockNumbers
<1>3. PICK b : b = FlashAddr(target_addr).blk OBVIOUS
<1>4. b \in 0 .. Blocks - 1 /\ b = target_addr \div BlockSize BY <1>2, <1>3 DEF Flash!Addr
<1>5. base_addr \div BlockSize \in Nat /\ base_addr \div BlockSize <= b
  BY <1>1, <1>4, BlockNumbers, Monotone
<1>6. b % Blocks = b BY <1>4, BlockNumbers, SmallRemainder
<1> QED BY <1>2, <1>3, <1>5, <1>6 DEF SlotBlock

\* The loader is in the blocks before the slot.
LEMMA LoaderBlocks ==
  ASSUME SlotUploads, NEW n \in 0 .. base_addr - 1
  PROVE  /\ FlashAddr(n) \in Flash!Addr /\ FlashAddr(n).blk \in Nat
         /\ FlashAddr(n).blk < base_addr \div BlockSize
<1> DEFINE m == BlockSize
           q == base_addr \div m
           x == n \div m
           r == n % m
<1>1. m \in Nat \ {0} /\ base_addr \in Nat /\ AddrSpace \in Nat /\ base_addr <= AddrSpace
  BY BlockNumbers, Sizes DEF SlotUploads
<1>2. n \in 0 .. AddrSpace - 1 /\ n \in Nat BY <1>1
<1>3. FlashAddr(n) \in Flash!Addr /\ FlashAddr(n).blk = x BY <1>2, BlockNumbers
<1>4. base_addr % m = 0 BY UploadAssumption
<1> HIDE DEF m
<1>5. q \in Nat /\ base_addr = m * q BY <1>1, <1>4, SMT
<1>6. x \in Nat /\ r \in 0 .. m - 1 /\ n = m * x + r BY <1>1, <1>2, SMT
<1> HIDE DEF q, x, r
<1>7. x < q
  <2> SUFFICES ASSUME ~(x < q) PROVE FALSE OBVIOUS
  <2>1. PICK z \in Nat : x = q + z BY <1>5, <1>6
  <2>2. m * x = m * q + m * z /\ m * z \in Nat /\ m * q \in Nat BY <1>1, <1>5, <2>1, SMT
  <2> DEFINE u == m * x
             v == m * q
             w == m * z
  <2>3. u = v + w /\ w \in Nat /\ v \in Nat /\ base_addr = v /\ n = u + r BY <1>5, <1>6, <2>2
  <2> HIDE DEF u, v, w
  <2>4. n >= base_addr BY <1>6, <2>3
  <2> QED BY <1>1, <2>4
<1> QED BY <1>3, <1>6, <1>7 DEF q, m

LEMMA RiseKeeps ==
  ASSUME SlotUploads, frame \in Seq(Nat), Flash!ChipSelectRise, ~(Astray /\ Len(frame) = 4)
  PROVE  BelowSlot /\ frame' = <<>>
<1>1. frame' = <<>> BY DEF Flash!ChipSelectRise
<1>2. ASSUME NEW n \in 0 .. base_addr - 1 PROVE mem'[FlashAddr(n)] = mem[FlashAddr(n)]
  <2>1. PICK a \in Flash!Addr : a = FlashAddr(n) BY LoaderBlocks
  <2>2. a.blk \in Nat /\ a.blk < base_addr \div BlockSize /\ base_addr \div BlockSize \in Nat
    BY <2>1, LoaderBlocks, BlockNumbers
  <2>3. (Flash!Erases \/ Flash!Programs) => a.blk # Flash!FrameBlock
    <3> SUFFICES ASSUME Flash!Erases \/ Flash!Programs, a.blk = Flash!FrameBlock PROVE FALSE
      OBVIOUS
    <3>1. Len(frame) = 4 /\ frame[1] \in {Flash!BLOCK_ERASE, Flash!PAGE_PROGRAM}
      BY DEF Flash!Erases, Flash!Programs, Flash!HasAddress, Flash!Command
    <3>2. SlotBlock(frame[2]) BY <3>1 DEF Astray
    <3>3. frame[2] % Blocks >= base_addr \div BlockSize /\ a.blk = frame[2] % Blocks
      BY <3>2 DEF SlotBlock, Flash!FrameBlock
    <3> QED BY <2>2, <3>3
  <2>4. CASE Flash!Erases
    <3>1. mem' = [c \in Flash!Addr |-> IF c.blk = Flash!FrameBlock THEN Flash!Erased ELSE mem[c]]
      BY <2>4 DEF Flash!ChipSelectRise
    <3>2. mem'[a] = mem[a] BY <2>3, <2>4, <3>1
    <3> QED BY <2>1, <3>2
  <2>5. CASE ~Flash!Erases /\ Flash!Programs
    <3>1. mem' = [c \in Flash!Addr |-> Flash!Programmed(c)] BY <2>5 DEF Flash!ChipSelectRise
    <3>2. mem'[a] = Flash!Programmed(a) BY <3>1
    <3>3. Flash!Programmed(a) = mem[a] BY <2>3, <2>5 DEF Flash!Programmed
    <3> QED BY <2>1, <3>2, <3>3
  <2>6. CASE ~Flash!Erases /\ ~Flash!Programs BY <2>6 DEF Flash!ChipSelectRise
  <2> QED BY <2>4, <2>5, <2>6
<1> QED BY <1>1, <1>2 DEF BelowSlot

LEMMA Shifted ==
  ASSUME frame \in Seq(Nat), NEW b \in Nat, Flash!ShiftIn(b)
  PROVE  /\ frame' \in Seq(Nat) /\ Len(frame) \in Nat /\ mem' = mem
         /\ Len(frame) < 4 =>
              /\ Len(frame') = Len(frame) + 1 /\ frame'[Len(frame) + 1] = b
              /\ \A j \in 1 .. Len(frame) : frame'[j] = frame[j]
         /\ ~(Len(frame) < 4) => frame' = frame
<1>1. mem' = mem /\ frame' = (IF Len(frame) < 4 THEN Append(frame, b) ELSE frame)
  BY DEF Flash!ShiftIn
<1>2. Len(frame) \in Nat OBVIOUS
<1>3. CASE Len(frame) < 4
  <2>1. frame' = Append(frame, b) BY <1>1, <1>3
  <2>2. /\ frame' \in Seq(Nat) /\ Len(frame') = Len(frame) + 1 /\ frame'[Len(frame) + 1] = b
        /\ \A j \in 1 .. Len(frame) : frame'[j] = frame[j]
    BY <2>1
  <2> QED BY <1>1, <1>2, <1>3, <2>2
<1> QED BY <1>1, <1>2, <1>3

\* The states outside of which the frame is the FSM's own.
Loose == state \in {"IDLE", "WREN", "WREN_RELEASE"}

LEMMA OwnFrame == ASSUME FramePlaced, ~Loose PROVE ~Astray
BY DEF FramePlaced, Loose

\* Nothing but its state has changed, or its frame is over.
LEMMA RiseFrames ==
  ASSUME SlotUploads, ShortOfAddress, FlashInv, Flash!ChipSelectRise, state' \notin {"ERASE_ADDR", "WRITE_ADDR",
         "WRITE_DATA", "WRITE_NEXT"}, state # "IDLE", state # "WREN"
  PROVE  BelowSlot /\ FramePlaced'
<1>1. FramePlaced /\ resets \in 0 .. MaxResets BY DEF FlashInv
<1>2. frame \in Seq(Nat) BY <1>1 DEF FramePlaced
<1>3. ~(Astray /\ Len(frame) = 4)
  <2> SUFFICES ASSUME Astray, Len(frame) = 4 PROVE FALSE OBVIOUS
  <2>1. ~SlotBlock(Flash!WRITE_ENABLE) /\ Len(frame) <= resets + 1 BY <1>1 DEF FramePlaced
  <2>2. MaxResets < 3 /\ MaxResets \in Nat BY <2>1, UploadAssumption DEF ShortOfAddress
  <2> QED BY <1>1, <2>1, <2>2
<1>4. BelowSlot /\ frame' = <<>> BY <1>2, <1>3, RiseKeeps
<1>5. frame' \in Seq(Nat) /\ Len(frame') = 0 BY <1>4
<1>6. ~Astray' BY <1>5 DEF Astray
<1> QED BY <1>4, <1>5, <1>6 DEF FramePlaced

\* The device takes an octet, one lemma per place of it in the frame.
LEMMA OpcodeFrames ==
  ASSUME FlashInv, NEW op \in Nat, frame = <<>>, Flash!ShiftIn(op),
         \/ state' \in {"ERASE_ADDR", "WRITE_ADDR"} /\ addr_count' = 0
         \/ state' = "POLL_READ"
  PROVE  BelowSlot /\ FramePlaced'
<1>1. frame \in Seq(Nat) /\ Len(frame) = 0 BY DEF FlashInv, FramePlaced
<1>2. frame' \in Seq(Nat) /\ Len(frame') = 1 /\ mem' = mem BY <1>1, Shifted
<1>3. ~Astray' BY <1>2 DEF Astray
<1> QED BY <1>2, <1>3 DEF FramePlaced, BelowSlot

LEMMA WrenFrames ==
  ASSUME FlashInv, Flash!Wren, UNCHANGED resets
  PROVE  BelowSlot /\ FramePlaced'
<1>1. FramePlaced /\ resets \in 0 .. MaxResets BY DEF FlashInv
<1>2. state = "WREN" /\ state' = "WREN_RELEASE" /\ Flash!ShiftIn(6)
  BY DEF Flash!Wren, Flash!WRITE_ENABLE
<1>3. frame \in Seq(Nat) BY <1>1 DEF FramePlaced
<1>4. /\ frame' \in Seq(Nat) /\ Len(frame) \in Nat /\ mem' = mem
      /\ Len(frame) < 4 => /\ Len(frame') = Len(frame) + 1 /\ frame'[Len(frame) + 1] = 6
                           /\ \A j \in 1 .. Len(frame) : frame'[j] = frame[j]
      /\ ~(Len(frame) < 4) => frame' = frame
  BY <1>2, <1>3, Shifted
<1>5. resets \in Nat BY <1>1, UploadAssumption
<1>6. ASSUME Astray'
      PROVE  ~SlotBlock(Flash!WRITE_ENABLE) /\ Len(frame') <= resets + 1
  <2>1. CASE Len(frame) = 0
    <3>1. Len(frame') = 1 BY <1>4, <2>1
    <3> QED BY <1>6, <3>1 DEF Astray
  <2>2. CASE Len(frame) = 1
    <3>1. Len(frame') = 2 /\ frame'[2] = 6 BY <1>4, <2>2
    <3>2. ~SlotBlock(Flash!WRITE_ENABLE) BY <1>6, <3>1 DEF Astray, Flash!WRITE_ENABLE
    <3>3. frame # <<>> BY <2>2
    <3>4. resets > 0 BY <1>1, <1>2, <3>3 DEF FramePlaced
    <3> QED BY <1>5, <3>1, <3>2, <3>4
  <2>3. CASE Len(frame) > 1
    <3>1. frame'[1] = frame[1] /\ frame'[2] = frame[2] /\ Len(frame') <= Len(frame) + 1
      <4>1. CASE Len(frame) < 4
        <5>1. 1 \in 1 .. Len(frame) /\ 2 \in 1 .. Len(frame) BY <1>4, <2>3
        <5> QED BY <1>4, <4>1, <5>1
      <4>2. CASE ~(Len(frame) < 4) BY <1>4, <4>2
      <4> QED BY <4>1, <4>2
    <3>2. Astray BY <1>6, <2>3, <3>1 DEF Astray
    <3>3. ~SlotBlock(Flash!WRITE_ENABLE) /\ Len(frame) <= resets
      BY <1>1, <1>2, <3>2 DEF FramePlaced
    <3>4. Len(frame') \in Nat BY <1>4
    <3> QED BY <1>4, <1>5, <3>1, <3>3, <3>4
  <2>4. Len(frame) = 0 \/ Len(frame) = 1 \/ Len(frame) > 1
    <3>1. PICK k \in Nat : k = Len(frame) BY <1>3
    <3>2. k = 0 \/ k = 1 \/ k > 1 OBVIOUS
    <3> QED BY <3>1, <3>2
  <2> QED BY <2>1, <2>2, <2>3, <2>4
<1> QED BY <1>2, <1>4, <1>6 DEF FramePlaced, BelowSlot

LEMMA AddressFrames ==
  ASSUME FlashInv, NEW b \in Nat, Flash!ShiftIn(b),
         state \in {"ERASE_ADDR", "WRITE_ADDR"}, addr_count = 0 => b = addr_latch.blk,
         \/ state' = state /\ addr_count # 2 /\ addr_count' = addr_count + 1
         \/ state' \in {"ERASE_RELEASE", "WRITE_DATA"} /\ addr_count = 2
  PROVE  BelowSlot /\ FramePlaced'
<1>1. FramePlaced /\ LatchPlaced BY DEF FlashInv
<1>2. frame \in Seq(Nat) /\ Len(frame) = addr_count + 1 /\ addr_count \in 0 .. 2
  BY <1>1 DEF FramePlaced, LatchPlaced
<1>3. SlotBlock(addr_latch.blk) BY <1>1 DEF LatchPlaced
<1>4. /\ frame' \in Seq(Nat) /\ mem' = mem
      /\ Len(frame') = Len(frame) + 1 /\ frame'[Len(frame) + 1] = b
      /\ \A j \in 1 .. Len(frame) : frame'[j] = frame[j]
  <2>1. Len(frame) < 4 BY <1>2
  <2> QED BY <1>2, <2>1, Shifted
<1>5. ~Astray'
  <2>1. CASE addr_count = 0
    <3>1. frame'[2] = addr_latch.blk BY <1>2, <1>4, <2>1
    <3> QED BY <1>3, <3>1 DEF Astray
  <2>2. CASE addr_count > 0
    <3>1. 1 \in 1 .. Len(frame) /\ 2 \in 1 .. Len(frame) /\ Len(frame) > 1 BY <1>2, <2>2
    <3>2. frame'[1] = frame[1] /\ frame'[2] = frame[2] BY <1>4, <3>1
    <3>3. ~Astray BY <1>1, OwnFrame DEF Loose
    <3> QED BY <3>1, <3>2, <3>3 DEF Astray
  <2> QED BY <1>2, <2>1, <2>2
<1>6. Len(frame') = addr_count + 2 BY <1>2, <1>4
<1>7. state' \in {"ERASE_ADDR", "WRITE_ADDR"} => Len(frame') = addr_count' + 1
  BY <1>2, <1>6
<1>8. state' = "WRITE_DATA" => Len(frame') = 4 BY <1>2, <1>6
<1>9. state' \in {"ERASE_ADDR", "WRITE_ADDR", "ERASE_RELEASE", "WRITE_DATA"} OBVIOUS
<1> QED BY <1>4, <1>5, <1>7, <1>8, <1>9 DEF FramePlaced, BelowSlot

\* A step of the FSM that leaves the frame alone.
LEMMA FrameStays ==
  ASSUME FlashInv, UNCHANGED <<frame, mem, resets>>,
         \/ state = "IDLE" /\ state' = "WREN"
         \/ ~Loose /\ state' \in {"WRITE_RELEASE", "POLL_CAPTURE", "POLL_RELEASE"}
         \/ state \in {"WRITE_DATA", "WRITE_NEXT"} /\ state' \in {"WRITE_DATA", "WRITE_NEXT"}
  PROVE  BelowSlot /\ FramePlaced'
<1>1. FramePlaced BY DEF FlashInv
<1>2. Astray' = Astray BY DEF Astray
<1>3. BelowSlot BY DEF BelowSlot
<1>4. CASE state = "IDLE" /\ state' = "WREN" BY <1>1, <1>2, <1>3, <1>4 DEF FramePlaced
<1>5. CASE ~Loose /\ state' \in {"WRITE_RELEASE", "POLL_CAPTURE", "POLL_RELEASE"}
  <2>1. ~Astray BY <1>1, <1>5, OwnFrame
  <2> QED BY <1>1, <1>2, <1>3, <1>5, <2>1 DEF FramePlaced
<1>6. CASE state \in {"WRITE_DATA", "WRITE_NEXT"} /\ state' \in {"WRITE_DATA", "WRITE_NEXT"}
  <2>1. ~Astray BY <1>1, <1>6, OwnFrame DEF Loose
  <2> QED BY <1>1, <1>2, <1>3, <1>6, <2>1 DEF FramePlaced
<1> QED BY <1>4, <1>5, <1>6

\* The FSM on its own.
LEMMA AlonePlaces ==
  ASSUME SlotUploads, ShortOfAddress, FlashInv, Flash!WorksAlone, UNCHANGED resets
  PROVE  BelowSlot /\ FlashInv'
<1>1. FramePlaced /\ LatchPlaced /\ resets \in 0 .. MaxResets BY DEF FlashInv
<1>2. /\ addr_latch \in Flash!Addr /\ addr_latch.blk \in Nat /\ addr_latch.pg \in Nat
      /\ addr_latch.off \in Nat /\ data_latch \in Nat /\ addr_count \in 0 .. 2
  <2>1. addr_latch \in Flash!Addr /\ data_latch \in Nat /\ addr_count \in 0 .. 2
    BY <1>1 DEF LatchPlaced
  <2>2. Blocks \in Nat /\ Pages \in Nat /\ PageSize \in Nat BY Given
  <2> QED BY <2>1, <2>2 DEF Flash!Addr
<1>3. 6 \in Nat /\ 216 \in Nat /\ 2 \in Nat /\ 5 \in Nat /\ 0 \in Nat OBVIOUS
<1>4. /\ BelowSlot /\ FramePlaced' /\ addr_count' \in 0 .. 2
      /\ state # "IDLE" /\ UNCHANGED <<addr_latch, data_latch>>
  <2>1. CASE Flash!Wren
    <3>1. UNCHANGED <<addr_latch, data_latch, addr_count>> /\ state = "WREN"
      BY <2>1 DEF Flash!Wren, Flash!regs
    <3> QED BY <1>2, <2>1, <3>1, WrenFrames
  <2>2. CASE Flash!EraseCmd \/ Flash!WriteCmd
    <3>1. PICK op \in {216, 2} : /\ Flash!ShiftIn(op) /\ addr_count' = 0
                                 /\ state \in {"ERASE_CMD", "WRITE_CMD"}
                                 /\ state' \in {"ERASE_ADDR", "WRITE_ADDR"}
                                 /\ UNCHANGED <<addr_latch, data_latch>>
      BY <2>2 DEF Flash!EraseCmd, Flash!WriteCmd, Flash!SendOpcode, Flash!BLOCK_ERASE,
                  Flash!PAGE_PROGRAM
    <3>2. op \in Nat /\ frame = <<>> BY <1>1, <3>1 DEF FramePlaced
    <3>3. BelowSlot /\ FramePlaced' BY <3>1, <3>2, OpcodeFrames
    <3>4. addr_count' \in 0 .. 2 BY <3>1
    <3> QED BY <3>1, <3>3, <3>4
  <2>3. CASE Flash!PollCmd
    <3>1. /\ Flash!ShiftIn(5) /\ state = "POLL_CMD" /\ state' = "POLL_READ"
          /\ UNCHANGED <<addr_latch, data_latch, addr_count>>
      BY <2>3 DEF Flash!PollCmd, Flash!READ_STATUS, Flash!regs
    <3>2. frame = <<>> BY <1>1, <3>1 DEF FramePlaced
    <3>3. BelowSlot /\ FramePlaced' BY <1>3, <3>1, <3>2, OpcodeFrames
    <3> QED BY <1>2, <3>1, <3>3
  <2>4. CASE Flash!EraseAddr \/ Flash!WriteAddr
    <3>1. PICK b \in {addr_latch.blk, addr_latch.pg, addr_latch.off, 0} :
            /\ Flash!ShiftIn(b) /\ state \in {"ERASE_ADDR", "WRITE_ADDR"}
            /\ addr_count = 0 => b = addr_latch.blk
            /\ \/ state' = state /\ addr_count # 2 /\ addr_count' = addr_count + 1
               \/ state' \in {"ERASE_RELEASE", "WRITE_DATA"} /\ addr_count = 2
                  /\ addr_count' = addr_count
            /\ UNCHANGED <<addr_latch, data_latch>>
      <4>1. CASE Flash!EraseAddr
        <5>1. PICK b : b = IF addr_count = 0 THEN addr_latch.blk ELSE 0 OBVIOUS
        <5>2. Flash!ShiftIn(b) BY <4>1, <5>1 DEF Flash!EraseAddr
        <5>3. b \in {addr_latch.blk, addr_latch.pg, addr_latch.off, 0}
              /\ (addr_count = 0 => b = addr_latch.blk)
          BY <5>1
        <5> QED BY <4>1, <5>2, <5>3 DEF Flash!EraseAddr
      <4>2. CASE Flash!WriteAddr
        <5>1. PICK b : b = CASE addr_count = 0 -> addr_latch.blk
                             [] addr_count = 1 -> addr_latch.pg
                             [] OTHER -> addr_latch.off
          OBVIOUS
        <5>2. Flash!ShiftIn(b) BY <4>2, <5>1 DEF Flash!WriteAddr
        <5>3. b \in {addr_latch.blk, addr_latch.pg, addr_latch.off, 0}
              /\ (addr_count = 0 => b = addr_latch.blk)
          BY <1>2, <5>1
        <5> QED BY <4>2, <5>2, <5>3 DEF Flash!WriteAddr
      <4> QED BY <2>4, <4>1, <4>2
    <3>2. b \in Nat BY <1>2
    <3>3. BelowSlot /\ FramePlaced' BY <3>1, <3>2, AddressFrames
    <3>4. addr_count' \in 0 .. 2 BY <1>2, <3>1
    <3> QED BY <3>1, <3>3, <3>4
  <2>5. CASE Flash!WriteData
    <3>1. /\ Flash!ShiftIn(data_latch) /\ state = "WRITE_DATA" /\ state' = "WRITE_NEXT"
          /\ UNCHANGED <<addr_latch, data_latch, addr_count>>
      BY <2>5 DEF Flash!WriteData, Flash!regs
    <3>2. frame \in Seq(Nat) /\ Len(frame) = 4 BY <1>1, <3>1 DEF FramePlaced
    <3>3. UNCHANGED <<frame, mem>>
      <4>1. ~(Len(frame) < 4) BY <3>2
      <4> QED BY <1>2, <3>1, <3>2, <4>1, Shifted
    <3>4. BelowSlot /\ FramePlaced' BY <3>1, <3>3, FrameStays
    <3> QED BY <1>2, <3>1, <3>4
  <2>6. CASE Flash!WriteNextFlush
    <3>1. /\ UNCHANGED <<frame, mem, addr_latch, data_latch, addr_count>>
          /\ state = "WRITE_NEXT" /\ state' = "WRITE_RELEASE"
      BY <2>6 DEF Flash!WriteNextFlush, Flash!device
    <3>2. BelowSlot /\ FramePlaced' BY <3>1, FrameStays DEF Loose
    <3> QED BY <1>2, <3>1, <3>2
  <2>7. CASE Flash!PollRead \/ Flash!PollCapture
    <3>1. /\ UNCHANGED <<frame, mem, addr_latch, data_latch, addr_count>>
          /\ state \in {"POLL_READ", "POLL_CAPTURE"} /\ state' \in {"POLL_CAPTURE", "POLL_RELEASE"}
      BY <2>7 DEF Flash!PollRead, Flash!PollCapture, Flash!device, Flash!regs
    <3>2. BelowSlot /\ FramePlaced' BY <3>1, FrameStays DEF Loose
    <3> QED BY <1>2, <3>1, <3>2
  <2>8. CASE Flash!WrenRelease \/ Flash!EraseRelease \/ Flash!WriteRelease \/ Flash!PollRelease
    <3>1. /\ Flash!ChipSelectRise /\ UNCHANGED <<addr_latch, data_latch, addr_count>>
          /\ state \in {"WREN_RELEASE", "ERASE_RELEASE", "WRITE_RELEASE", "POLL_RELEASE"}
          /\ state' \in {"ERASE_CMD", "WRITE_CMD", "POLL_CMD", "IDLE", "WREN"}
      <4>1. CASE Flash!WrenRelease BY <4>1 DEF Flash!WrenRelease, Flash!regs
      <4>2. CASE Flash!EraseRelease BY <4>2 DEF Flash!EraseRelease
      <4>3. CASE Flash!WriteRelease BY <4>3 DEF Flash!WriteRelease
      <4>4. CASE Flash!PollRelease BY <4>4 DEF Flash!PollRelease
      <4> QED BY <2>8, <4>1, <4>2, <4>3, <4>4
    <3>2. BelowSlot /\ FramePlaced' BY <3>1, RiseFrames
    <3> QED BY <1>2, <3>1, <3>2
  <2> QED BY <2>1, <2>2, <2>3, <2>4, <2>5, <2>6, <2>7, <2>8 DEF Flash!WorksAlone
<1>5. LatchPlaced' BY <1>1, <1>4 DEF LatchPlaced
<1> QED BY <1>1, <1>4, <1>5 DEF FlashInv

\* A payload byte is taken from the port.
LEMMA TakenPlaces ==
  ASSUME FlashInv, PayloadPlaced, PortW.valid, rx \in Seq(Nat), rx # <<>>, Flash!TakesByte,
         UNCHANGED resets
  PROVE  BelowSlot /\ FlashInv'
<1>1. FramePlaced /\ LatchPlaced /\ resets \in 0 .. MaxResets BY DEF FlashInv
<1>2. /\ addr_latch' = FlashAddr(target_addr) /\ data_latch' = Head(rx)
      /\ UNCHANGED <<frame, mem, addr_count>>
      /\ \/ state = "IDLE" /\ state' = "WREN"
         \/ state = "WRITE_NEXT" /\ state' \in {"WRITE_DATA", "WRITE_RELEASE"}
  BY DEF Flash!TakesByte, Flash!Idle, Flash!WriteNextByte, Flash!Accept, Flash!device, PortW
<1>3. BelowSlot /\ FramePlaced' BY <1>2, FrameStays DEF Loose
<1>4. FlashAddr(target_addr) \in Flash!Addr /\ SlotBlock(FlashAddr(target_addr).blk)
  BY OfferPlaced DEF PortW
<1>5. Head(rx) \in Nat OBVIOUS
<1>6. LatchPlaced' BY <1>1, <1>2, <1>4, <1>5 DEF LatchPlaced
<1> QED BY <1>1, <1>3, <1>6 DEF FlashInv

\* A bus reset leaves the frame open and forgets the address.
LEMMA ResetLatches ==
  ASSUME FlashInv, BusReset
  PROVE  BelowSlot /\ FlashInv'
<1>1. FramePlaced /\ LatchPlaced /\ resets \in 0 .. MaxResets /\ resets \in Nat
  BY UploadAssumption DEF FlashInv
<1>2. /\ resets < MaxResets /\ resets' = resets + 1 /\ state' = "IDLE"
      /\ addr_latch' = Flash!AddrZero /\ data_latch' = 0 /\ addr_count' = 0
      /\ UNCHANGED <<frame, mem>>
  BY DEF BusReset, Flash!ResetFsm, Flash!device
<1>3. resets' \in 0 .. MaxResets BY <1>1, <1>2, UploadAssumption
<1>4. Flash!AddrZero \in Flash!Addr
  <2>1. Blocks \in Nat \ {0} /\ Pages \in Nat \ {0} /\ PageSize \in Nat \ {0} BY Given
  <2> QED BY <2>1 DEF Flash!AddrZero, Flash!Addr
<1>5. LatchPlaced' BY <1>2, <1>4 DEF LatchPlaced
<1>6. Astray => ~SlotBlock(Flash!WRITE_ENABLE) /\ Len(frame) <= resets'
  <2> SUFFICES ASSUME Astray PROVE ~SlotBlock(Flash!WRITE_ENABLE) /\ Len(frame) <= resets'
    OBVIOUS
  <2>1. Len(frame) \in Nat BY <1>1 DEF FramePlaced
  <2>2. /\ ~SlotBlock(Flash!WRITE_ENABLE)
        /\ Len(frame) <= resets \/ Len(frame) <= resets + 1
    BY <1>1 DEF FramePlaced
  <2> QED BY <1>1, <1>2, <2>1, <2>2
<1>7. resets' > 0 BY <1>1, <1>2
<1>8. FramePlaced' BY <1>1, <1>2, <1>6, <1>7 DEF FramePlaced, Astray
<1> QED BY <1>2, <1>3, <1>5, <1>8 DEF FlashInv, BelowSlot

LEMMA LoaderStep ==
  ASSUME SlotUploads, ShortOfAddress, LoaderInv, [Next]_vars
  PROVE  LoaderInv' /\ BelowSlot
<1>1. PlaceInv /\ FlashInv /\ PlaceInv' BY PlaceStep DEF LoaderInv
<1>2. /\ FramePlaced /\ LatchPlaced /\ resets \in 0 .. MaxResets /\ PayloadPlaced
      /\ rx \in Seq(Nat)
  BY <1>1 DEF FlashInv, PlaceInv, CarryInv, TransportInv, TransportTypes
<1>3. ASSUME UNCHANGED <<mem, frame, state, addr_latch, data_latch, addr_count, resets>>
      PROVE  BelowSlot /\ FlashInv'
  <2>1. LatchPlaced' BY <1>2, <1>3 DEF LatchPlaced
  <2>2. Astray' = Astray BY <1>3 DEF Astray
  <2>3. FramePlaced' BY <1>2, <1>3, <2>2 DEF FramePlaced
  <2>4. resets' \in 0 .. MaxResets BY <1>2, <1>3
  <2> QED BY <1>3, <2>1, <2>3, <2>4 DEF FlashInv, BelowSlot
<1>4. BelowSlot /\ FlashInv'
  <2>1. CASE Gateware
    <3>1. UNCHANGED resets BY <2>1 DEF Gateware, host_vars
    <3>2. CASE UNCHANGED flash BY <1>3, <3>1, <3>2 DEF flash, flash_fsm
    <3>3. CASE StoreByte
      <4>1. PortW.valid /\ rx # <<>> /\ Flash!TakesByte
        BY <3>3 DEF StoreByte, Data, PortW, Forwarded
      <4> QED BY <1>1, <1>2, <3>1, <4>1, TakenPlaces
    <3>4. CASE Flash!WorksAlone BY <1>1, <3>1, <3>4, AlonePlaces
    <3> QED BY <2>1, <3>2, <3>3, <3>4 DEF Gateware, DispatchAndClear, DecodeByte, DropByte
  <2>2. CASE DeviceStep
    <3>1. UNCHANGED <<mem, frame, state, addr_latch, data_latch, addr_count, resets>>
      BY <2>2 DEF DeviceStep, Flash!WriteEnds, flash_fsm, host_vars
    <3> QED BY <1>3, <3>1
  <2>3. CASE Boot \/ HostStep \/ Start \/ UNCHANGED vars
    <3>1. UNCHANGED flash /\ UNCHANGED resets
      BY <2>3 DEF Boot, HostStep, SendPacket, TakeStatus, Start, WriteFile, WriteStray,
                  TestUnitReady, Issue, vars, host_vars
    <3> QED BY <1>3, <3>1 DEF flash, flash_fsm
  <2> QED BY <1>1, <2>1, <2>2, <2>3, ResetLatches DEF Next
<1> QED BY <1>1, <1>4 DEF LoaderInv

LEMMA LoaderInit == ASSUME SlotUploads, Init PROVE LoaderInv
<1>1. TransportInv BY TransportInit
<1>2. /\ file \in Files /\ written = 0 /\ host = "idle" /\ chunk = 0 /\ data = <<>> /\ rx = <<>>
      /\ scsi_state = "RECEIVE_CBW" /\ uf2_state = "HEADER" /\ byte_count = 0
      /\ resets = 0 /\ state = "IDLE" /\ frame = <<>>
      /\ addr_latch = Flash!AddrZero /\ data_latch = 0 /\ addr_count = 0
  BY DEF Init, ScsiInit, UF2Init, Flash!DeviceInit, Flash!FsmInit
<1>3. CbwLeft = 0 /\ Len(rx) = 0 /\ Len(data) = 0 /\ Left = 0 BY <1>2 DEF CbwLeft, Left
<1>4. EndSector = 0 /\ Pos = 0
  <2>1. SectorLen \in Nat BY Sizes
  <2> QED BY <1>2, <2>1 DEF EndSector, Pos
<1>5. StreamTypes
  <2>1. file # <<>> BY <1>2 DEF SlotUploads
  <2>2. Len(file) \in Nat BY <1>2, <2>1, FileSectors
  <2> QED BY <1>2, <1>4, <2>2, Sizes DEF StreamTypes
<1>6. Carried
  <2>1. 0 % MaxPacket = 0 BY Sizes
  <2> QED BY <1>2, <1>3, <2>1 DEF Carried
<1>7. HeaderComes /\ PayloadPlaced BY <1>2 DEF HeaderComes, PayloadPlaced
<1>8. LatchPlaced
  <2>1. Blocks \in Nat \ {0} /\ Pages \in Nat \ {0} /\ PageSize \in Nat \ {0} BY Given
  <2>2. Flash!AddrZero \in Flash!Addr BY <2>1 DEF Flash!AddrZero, Flash!Addr
  <2> QED BY <1>2, <2>2 DEF LatchPlaced
<1>9. FramePlaced
  <2>1. <<>> \in Seq(Nat) /\ Len(<<>>) = 0 OBVIOUS
  <2>2. ~Astray BY <1>2, <2>1 DEF Astray
  <2> QED BY <1>2, <2>1, <2>2 DEF FramePlaced
<1>10. resets \in 0 .. MaxResets BY <1>2, UploadAssumption
<1> QED BY <1>1, <1>5, <1>6, <1>7, <1>8, <1>9, <1>10 DEF LoaderInv, PlaceInv, CarryInv, FlashInv

\* The flash below the slot is not written: not by an upload that ends, not by one that a bus reset
\* cuts short, and not by the command that the reset has left open in the device, which takes the
\* first octets of the next upload for its own.
THEOREM LoaderKept == ASSUME SlotUploads, ShortOfAddress PROVE Spec => LoaderUntouched
<1>1. Init => LoaderInv BY LoaderInit
<1>2. LoaderInv /\ [Next]_vars => LoaderInv' BY LoaderStep
<1>3. LoaderInv /\ [Next]_vars =>
        [\A n \in 0 .. base_addr - 1 : mem'[FlashAddr(n)] = mem[FlashAddr(n)]]_vars
  BY LoaderStep DEF BelowSlot
<1> QED BY <1>1, <1>2, <1>3, PTL DEF Spec, LoaderUntouched

-----------------------------------------------------------------------------
(* The reboot, with bus resets anywhere. A reset puts the host back to the file's
   first sector and leaves the decoder where it is. Between commands that is
   the start of a sector, and all is as after the power came up; in the middle of
   one, the decoder's place and the data's stay apart until the next reset, and
   the decoder finds no end magic where it looks for one. *)

\* The end magic is nowhere but where a sector ends.
EndsApart ==
  /\ \A f \in Files : \A k \in 1 .. Len(f) : \A j \in 1 .. LastToken : f[k][j] # MAGIC_END
  /\ \A s \in Strays : \A j \in 1 .. LastToken : s[j] # MAGIC_END

\* The place in its sector that the next token for the decoder has.
Place == IF chunk # 0 THEN Pos % SectorLen ELSE IF Forwarding THEN SectorLen - Left ELSE 0

\* The decoder's state and registers are those of its place in a sector, of the
\* one that is coming or of another.
Plain    == {s \in [1 .. SectorLen -> Nat] : IsBlock(s) => PlainBlock(s)}
Coherent ==
  /\ byte_count = 0 => uf2_state = "HEADER"
  /\ byte_count > 0 => \E s \in Plain : Decoded(s)

\* A stray sector is sent from its start.
StrayWhole == chunk = 0 /\ Preparing /\ Left > 0 => Left = SectorLen

InStep    == StreamInv /\ FlushMeant
OutOfStep == byte_count # Place /\ done = FALSE /\ pending = FALSE

RebootInv == PlaceInv /\ Coherent /\ StrayWhole /\ (InStep \/ OutOfStep) /\ BootsAfterUpload

\* A step that takes no token and reads no header word.
LEMMA CoherentKept ==
  ASSUME Coherent, UNCHANGED <<uf2_state, byte_count, uf2_header, data_count>>
  PROVE  Coherent'
<1>1. \A s : Decoded(s)' = Decoded(s) BY DEF Decoded, HeaderRead, BlockRead, uf2_header
<1>2. Plain' = Plain BY DEF Plain, IsBlock, PlainBlock, EndOf, SectorLen, HeaderLen
<1> QED BY <1>1, <1>2 DEF Coherent

\* The payload has ended.
LEMMA CoherentEnd ==
  ASSUME Coherent, DataEnd, byte_count \in 0 .. LastToken
  PROVE  Coherent'
<1>1. /\ uf2_state = "DATA" /\ data_count = payload_size /\ uf2_state' = "PAD"
      /\ UNCHANGED <<byte_count, uf2_header, data_count>>
  BY DEF DataEnd
<1>2. byte_count # 0 /\ byte_count > 0 BY <1>1, Sizes DEF Coherent
<1>3. PICK s \in Plain : Decoded(s) BY <1>2 DEF Coherent
<1>4. BlockRead(s) /\ byte_count = HeaderLen + data_count BY <1>1, <1>3 DEF Decoded
<1>5. s \in [1 .. SectorLen -> Nat] /\ PlainBlock(s) /\ payload_size = s[5]
  BY <1>4 DEF Plain, BlockRead
<1>6. s[5] \in Nat \ {0} /\ s[5] < Room BY <1>5, PlainBlockFits
<1>7. byte_count \in HeaderLen + 1 .. LastPad
  <2>1. data_count \in Nat \ {0} /\ data_count < Room BY <1>1, <1>5, <1>6
  <2>2. byte_count = HeaderLen + data_count BY <1>4
  <2> QED BY <2>1, <2>2, Sizes
<1>8. Decoded(s)'
  <2>1. BlockRead(s)' BY <1>1, <1>4 DEF BlockRead, uf2_header
  <2>2. (HeaderLen + 1 .. LastPad)' = HeaderLen + 1 .. LastPad BY DEF HeaderLen, LastPad
  <2>3. byte_count' \in HeaderLen + 1 .. LastPad BY <1>1, <1>7
  <2> QED BY <1>1, <2>1, <2>2, <2>3 DEF Decoded
<1>9. s \in Plain' BY DEF Plain, IsBlock, PlainBlock, EndOf, SectorLen, HeaderLen
<1>10. byte_count' # 0 BY <1>1, <1>2
<1> QED BY <1>8, <1>9, <1>10 DEF Coherent

\* A token, wherever in which sector the decoder takes it to be.
LEMMA CoherentTaken ==
  ASSUME PlainUploads, SlotUploads, CarryInv, Coherent, Forwarded, ReceiveWriteData,
         Consume(Head(rx))
  PROVE  /\ Coherent'
         /\ byte_count \in 0 .. LastToken
         /\ byte_count < LastToken => byte_count' = byte_count + 1
         /\ byte_count = LastToken => byte_count' = 0
<1> DEFINE t == Head(rx)
<1>1. /\ TransportInv /\ StreamTypes /\ Carried /\ HeaderComes
      /\ scsi_state = "RECEIVE_WRITE_DATA" /\ rx # <<>>
  BY DEF CarryInv, Forwarded
<1>2. byte_count \in 0 .. LastToken BY <1>1 DEF StreamTypes
<1>3. rx \in Seq(Nat) /\ t = rx[1] /\ t \in Nat BY <1>1 DEF TransportInv, TransportTypes
<1>4. \A s \in Sectors : s \in Plain
  <2> SUFFICES ASSUME NEW s \in Sectors PROVE s \in Plain OBVIOUS
  <2>1. s \in [1 .. SectorLen -> Nat] BY <1>1, SectorSlots
  <2>2. CASE s \in {file[k] : k \in 1 .. Len(file)}
    <3>1. PlainBlock(s) BY <1>1, <2>2, PlainSectors
    <3> QED BY <2>1, <3>1 DEF Plain
  <2>3. CASE s \in Strays BY <2>1, <2>3 DEF Plain, PlainUploads
  <2> QED BY <2>2, <2>3 DEF Sectors
<1>5. ASSUME NEW s \in Plain, byte_count > 0 => Decoded(s),
             Header(s[byte_count + 1]) \/ Data(t) \/ Pad(t) \/ Final(t) \/ Discard(t)
      PROVE  /\ Coherent'
             /\ byte_count < LastToken => byte_count' = byte_count + 1
             /\ byte_count = LastToken => byte_count' = 0
  <2>1. s \in [1 .. SectorLen -> Nat] /\ (IsBlock(s) => PlainBlock(s)) BY DEF Plain
  <2>2. byte_count = 0 => uf2_state = "HEADER" BY DEF Coherent
  <2>3. /\ byte_count < LastToken => byte_count' = byte_count + 1 /\ Decoded(s)'
        /\ byte_count = LastToken => byte_count' = 0 /\ uf2_state' = "HEADER"
    <3>1. CASE Header(s[byte_count + 1])
      <4>1. byte_count < HeaderLen /\ byte_count' = byte_count + 1 /\ Decoded(s)'
        BY <1>2, <1>5, <2>1, <3>1, HeaderStep
      <4>2. byte_count # LastToken BY <4>1, Sizes
      <4> QED BY <4>1, <4>2
    <3>2. CASE Data(t)
      <4>1. byte_count < LastToken /\ byte_count' = byte_count + 1 /\ Decoded(s)'
        BY <1>2, <1>5, <2>1, <2>2, <3>2, PayloadStep
      <4>2. byte_count # LastToken BY <4>1, Sizes
      <4> QED BY <4>1, <4>2
    <3>3. CASE Pad(t) \/ Final(t) \/ Discard(t) BY <1>2, <1>5, <2>2, <3>3, RestStep
    <3> QED BY <1>5, <3>1, <3>2, <3>3
  <2>4. s \in Plain' BY DEF Plain, IsBlock, PlainBlock, EndOf, SectorLen, HeaderLen
  <2>5. byte_count < LastToken \/ byte_count = LastToken BY <1>2, Sizes
  <2>6. byte_count < LastToken => byte_count' # 0 BY <1>2, <2>3
  <2>7. byte_count = LastToken => ~(byte_count' > 0) BY <2>3
  <2>8. Coherent' BY <2>3, <2>4, <2>5, <2>6, <2>7 DEF Coherent
  <2> QED BY <2>3, <2>8
<1>6. CASE Header(t)
  <2>1. uf2_state = "HEADER" BY <1>6 DEF Header
  <2>2. \E s \in Plain : (byte_count > 0 => Decoded(s)) /\ t = s[byte_count + 1]
    <3>1. CASE byte_count > 0
      <4>1. byte_count < HeaderLen /\ HeaderLen - byte_count <= Len(rx)
        BY <1>1, <2>1, <3>1 DEF HeaderComes
      <4>2. PICK s \in Sectors :
              HeaderRead(s) /\ \A j \in 1 .. HeaderLen - byte_count : rx[j] = s[byte_count + j]
        BY <1>1, <2>1, <3>1 DEF HeaderComes
      <4>3. Decoded(s) BY <2>1, <4>1, <4>2 DEF Decoded
      <4>4. 1 \in 1 .. HeaderLen - byte_count BY <1>2, <4>1, Sizes
      <4>5. t = s[byte_count + 1] BY <1>3, <4>2, <4>4
      <4> QED BY <1>4, <4>2, <4>3, <4>5
    <3>2. CASE byte_count = 0 /\ t = MAGIC_START0
      <4>1. PICK s \in Sectors : \A j \in 1 .. HeaderLen : rx[j] = s[j]
        BY <1>1, <3>2, SectorFront
      <4>2. 1 \in 1 .. HeaderLen /\ byte_count + 1 = 1 BY <3>2, Sizes
      <4>3. t = s[byte_count + 1] BY <1>3, <4>1, <4>2
      <4>4. ~(byte_count > 0) BY <3>2
      <4> QED BY <1>4, <4>1, <4>3, <4>4
    <3>3. CASE byte_count = 0 /\ t # MAGIC_START0
      <4> DEFINE s == [j \in 1 .. SectorLen |-> t]
      <4>1. s \in [1 .. SectorLen -> Nat] BY <1>3
      <4>2. 1 \in 1 .. SectorLen BY Sizes
      <4>3. s[1] = t /\ byte_count + 1 = 1 BY <3>3, <4>2
      <4>4. ~IsBlock(s) BY <3>3, <4>3 DEF IsBlock
      <4>5. s \in Plain BY <4>1, <4>4 DEF Plain
      <4>6. ~(byte_count > 0) BY <3>3
      <4> QED BY <4>3, <4>5, <4>6
    <3>4. byte_count = 0 \/ byte_count > 0 BY <1>2
    <3> QED BY <3>1, <3>2, <3>3, <3>4
  <2>3. PICK s \in Plain : (byte_count > 0 => Decoded(s)) /\ t = s[byte_count + 1] BY <2>2
  <2>4. Header(s[byte_count + 1]) BY <1>6, <2>3
  <2> QED BY <1>2, <1>5, <2>3, <2>4
<1>7. CASE Data(t) \/ Pad(t) \/ Final(t) \/ Discard(t)
  <2>1. uf2_state # "HEADER" BY <1>7 DEF Data, Emitting, Pad, Final, Discard
  <2>2. byte_count > 0 BY <1>2, <2>1 DEF Coherent
  <2>3. PICK s \in Plain : Decoded(s) BY <2>2 DEF Coherent
  <2> QED BY <1>2, <1>5, <1>7, <2>3
<1> QED BY <1>6, <1>7 DEF Consume

\* The token that is coming is the one of its place, in a sector of the file or in a stray one.
LEMMA ComingPlaced ==
  ASSUME SlotUploads, TransportInv, StreamTypes, Carried, Left > 0, chunk # 0 \/ Forwarding
  PROVE  Place \in 0 .. LastToken /\ \E s \in Sectors : Coming(1) = s[Place + 1]
<1> DEFINE S == SectorLen
           L == Left
           p == Pos
<1>1. S \in Nat \ {0} /\ LastToken = S - 1 /\ L \in Nat \ {0} BY Sizes, LeftCounts
<1>2. CASE chunk # 0
  <2> DEFINE E == EndSector
             q == p \div S
             r == p % S
  <2>1. E \in Nat /\ E <= Len(file) /\ p \in Nat /\ p = E * S - L
    BY <1>2 DEF StreamTypes, EndSector, Pos
  <2>2. E * S \in Nat BY <1>1, <2>1, Started
  <2>3. q \in Nat /\ r \in 0 .. S - 1 /\ p = S * q + r
    <3> HIDE DEF S, p
    <3> QED BY <1>1, <2>1, SMT
  <2>4. q < E
    <3> SUFFICES ASSUME ~(q < E) PROVE FALSE OBVIOUS
    <3> HIDE DEF S, p, L, E, q, r
    <3>1. PICK x \in Nat : q = E + x BY <2>1, <2>3
    <3>2. S * q = E * S + S * x /\ S * x \in Nat BY <1>1, <2>1, <3>1, SMT
    <3> DEFINE u == E * S
               v == S * x
               z == S * q
    <3>3. z = u + v /\ u \in Nat /\ v \in Nat /\ p = u - L /\ p = z + r BY <2>1, <2>2, <2>3, <3>2
    <3> HIDE DEF u, v, z
    <3> QED BY <1>1, <2>3, <3>3
  <2>5. q + 1 \in 1 .. Len(file)
    <3>1. Len(file) \in Nat BY SlotFile
    <3> HIDE DEF q, E
    <3> QED BY <2>1, <2>3, <2>4, <3>1
  <2>6. file[q + 1] \in Sectors BY <2>5 DEF Sectors
  <2>7. Coming(1) = FileToken(p + 1)
    <3>1. 1 \in 1 .. L BY <1>1
    <3> QED BY <1>2, <3>1 DEF Carried
  <2>8. FileToken(p + 1) = file[q + 1][r + 1]
    <3>1. FileToken(p + 1) = file[1 + ((p + 1) - 1) \div S][1 + (((p + 1) - 1) % S)] BY DEF FileToken
    <3>2. (p + 1) - 1 = p
      <4> HIDE DEF p
      <4> QED BY <2>1
    <3>3. 1 + q = q + 1 /\ 1 + r = r + 1
      <4> HIDE DEF q, r
      <4> QED BY <1>1, <2>3
    <3>4. FileToken(p + 1) = file[1 + q][1 + r] BY <3>1, <3>2
    <3> QED BY <3>3, <3>4
  <2>9. Place = r BY <1>2 DEF Place
  <2> HIDE DEF q, r
  <2> QED BY <1>1, <2>3, <2>6, <2>7, <2>8, <2>9
<1>3. CASE chunk = 0
  <2>1. Place = S - L BY <1>3 DEF Place
  <2>2. L <= S BY <1>3 DEF Carried
  <2>3. PICK s \in Strays : \A j \in 1 .. L : Coming(j) = s[(S - L) + j] BY <1>3 DEF Carried
  <2>4. 1 \in 1 .. L BY <1>1
  <2>5. Coming(1) = s[(S - L) + 1] BY <2>3, <2>4
  <2>6. s \in Sectors BY DEF Sectors
  <2>7. S - L \in 0 .. LastToken BY <1>1, <2>2
  <2> QED BY <2>1, <2>5, <2>6, <2>7
<1> QED BY <1>2, <1>3

\* The place goes on by one with every token that the decoder gets.
LEMMA PlaceTaken ==
  ASSUME SlotUploads, TransportInv, StreamTypes, Carried, ReceiveWriteData, ~csw_status,
         byte_count' \in 0 .. LastToken, UNCHANGED <<host, data, chunk, file, written>>
  PROVE  /\ Place \in 0 .. LastToken
         /\ Place < LastToken => Place' = Place + 1
         /\ Place = LastToken => Place' = 0
<1> DEFINE S == SectorLen
           L == Left
           p == Pos
<1>1. S \in Nat \ {0} /\ LastToken = S - 1 /\ SectorLen' = S BY Sizes DEF SectorLen
<1>2. L \in Nat \ {0} /\ Left' = L - 1 /\ Forwarding /\ (Forwarding' <=> L > 1)
  <2>1. /\ Left \in Nat \ {0} /\ Left' = Left - 1
        /\ Forwarding = ~csw_status /\ Forwarding' = (~csw_status /\ Left > 1)
    BY WriteDataStep
  <2>2. L \in Nat \ {0} /\ Left' = L - 1 BY <2>1
  <2>3. Forwarding /\ (Forwarding' <=> L > 1) BY <2>1
  <2> QED BY <2>2, <2>3
<1>3. Place \in 0 .. LastToken BY <1>2, ComingPlaced
<1>4. CASE chunk # 0
  <2>1. Pos' = p + 1 /\ p \in Nat BY <1>4, TokenCarries DEF StreamTypes
  <2>2. Place = p % S /\ Place' = (p + 1) % S BY <1>1, <1>4, <2>1 DEF Place
  <2>3. /\ p % S < S - 1 => (p + 1) % S = (p % S) + 1
        /\ p % S = S - 1 => (p + 1) % S = 0
    BY <1>1, <2>1, Stepped
  <2> QED BY <1>1, <1>3, <2>2, <2>3
<1>5. CASE chunk = 0
  <2>1. Place = S - L BY <1>2, <1>5 DEF Place
  <2>2. Place' = IF L > 1 THEN S - (L - 1) ELSE 0 BY <1>1, <1>2, <1>5 DEF Place
  <2>3. L <= S BY <1>2, <1>5 DEF Carried
  <2> QED BY <1>1, <1>2, <1>3, <2>1, <2>2, <2>3
<1> QED BY <1>4, <1>5

\* A decoder that is not where the data are finds no end magic.
LEMMA EndMissed ==
  ASSUME SlotUploads, EndsApart, TransportInv, StreamTypes, Carried, Coherent, Forwarded,
         Final(Head(rx)), byte_count # Place, done = FALSE
  PROVE  done' = FALSE
<1>1. uf2_state = "FINAL" BY DEF Final
<1>2. byte_count > 0
  <2>1. byte_count # 0 BY <1>1 DEF Coherent
  <2> QED BY <2>1, Sizes DEF StreamTypes
<1>3. PICK s \in Plain : Decoded(s) BY <1>2 DEF Coherent
<1>4. byte_count = LastToken BY <1>1, <1>3 DEF Decoded
<1>5. rx # <<>> /\ Forwarding /\ CbwLeft = 0 BY DEF Forwarded, Forwarding, CbwLeft
<1>6. rx \in Seq(Nat) /\ data \in Seq(Nat) /\ Head(rx) = rx[1] /\ Len(rx) \in Nat \ {0}
      /\ Len(data) \in Nat
  BY <1>5 DEF TransportInv, TransportTypes
<1>7. Left > 0 BY <1>5, <1>6 DEF Left
<1>8. Coming(1) = Head(rx)
  <2>1. 0 + 1 = 1 /\ 1 <= Len(rx) BY <1>6
  <2> QED BY <1>5, <1>6, <2>1 DEF Coming, Token
<1>9. PICK z \in Sectors : Head(rx) = z[Place + 1] BY <1>5, <1>7, <1>8, ComingPlaced
<1>10. Place \in 0 .. LastToken BY <1>5, <1>7, ComingPlaced
<1>11. Place + 1 \in 1 .. LastToken BY <1>4, <1>10, Sizes
<1>12. z[Place + 1] # MAGIC_END
  <2>1. CASE z \in Strays BY <1>11, <2>1 DEF EndsApart
  <2>2. CASE z \in {file[k] : k \in 1 .. Len(file)}
    <3>1. file \in Files BY SlotFile
    <3> QED BY <1>11, <2>2, <3>1 DEF EndsApart
  <2> QED BY <2>1, <2>2 DEF Sectors
<1>13. Head(rx) # MAGIC_END BY <1>9, <1>12
<1>14. done' = (done \/ (Head(rx) = MAGIC_END /\ blockNo = numBlocks - 1)) BY <1>4 DEF Final
<1>15. ~(Head(rx) = MAGIC_END /\ blockNo = numBlocks - 1) BY <1>13
<1>16. (done \/ (Head(rx) = MAGIC_END /\ blockNo = numBlocks - 1)) = (done \/ FALSE) BY <1>15
<1> QED BY <1>14, <1>16

\* A step that takes no token leaves the place where it is.
LEMMA PlaceSame ==
  ASSUME StrayWhole, UNCHANGED chunk, EndSector' = EndSector, Left' = Left,
         chunk = 0 => (Forwarding' <=> Forwarding), Preparing' /\ chunk = 0 => Preparing
  PROVE  Place' = Place /\ StrayWhole'
<1>1. SectorLen' = SectorLen BY DEF SectorLen, HeaderLen
<1>2. Pos' = Pos BY <1>1 DEF Pos
<1>3. Place' = Place
  <2>1. CASE chunk # 0 BY <1>1, <1>2, <2>1 DEF Place
  <2>2. CASE chunk = 0 BY <1>1, <2>2 DEF Place
  <2> QED BY <2>1, <2>2
<1>4. StrayWhole' BY <1>1 DEF StrayWhole
<1> QED BY <1>3, <1>4

LEMMA HandlerPlace ==
  ASSUME SlotUploads, PlaceInv, StrayWhole, UNCHANGED <<host, data, chunk, file, written>>,
         ScsiAlone \/ SendCswPrep(error) \/ Dispatch
  PROVE  Place' = Place /\ StrayWhole'
<1>1. TransportInv /\ StreamTypes /\ Carried /\ BlockCount > 0
  BY DEF PlaceInv, CarryInv, SlotUploads
<1>2. EndSector' = EndSector BY DEF EndSector
<1>3. CASE ReceiveCbw
  <2>1. Left' = Left /\ Preparing /\ Preparing' BY <1>1, <1>3, ReceiveCbwStep
  <2>2. ~Forwarding /\ ~Forwarding' BY <2>1 DEF Preparing, Forwarding
  <2> QED BY <1>2, <2>1, <2>2, PlaceSame
<1>4. CASE Dispatch
  <2>1. /\ Left' = Left /\ Preparing /\ ~Preparing' /\ ~Forwarding /\ (Forwarding' => Left > 0)
    BY <1>1, <1>4, DispatchStep
  <2>2. CASE chunk # 0 BY <1>2, <2>1, <2>2, PlaceSame
  <2>3. CASE chunk = 0
    <3>1. StrayWhole' BY <2>1 DEF StrayWhole
    <3>2. Place = 0 BY <2>1, <2>3 DEF Place
    <3>3. SectorLen' = SectorLen /\ SectorLen \in Nat BY Sizes DEF SectorLen, HeaderLen
    <3>4. Forwarding' => Left = SectorLen BY <2>1, <2>3 DEF StrayWhole
    <3>5. Place' = IF Forwarding' THEN SectorLen - Left ELSE 0 BY <2>1, <2>3, <3>3 DEF Place
    <3>6. Place' = 0 BY <3>3, <3>4, <3>5
    <3> QED BY <3>1, <3>2, <3>6
  <2> QED BY <2>2, <2>3
<1>5. CASE SendCswPrep(error) \/ SendCsw
  <2>1. Left = 0 /\ Left' = 0 /\ ~Preparing' /\ ~Forwarding /\ ~Forwarding'
    BY <1>1, <1>5, StatusStep
  <2> QED BY <1>2, <2>1, PlaceSame
<1> QED BY <1>1, <1>3, <1>4, <1>5, HandlerAlone

LEMMA HostPlace ==
  ASSUME PlaceInv, StrayWhole, HostStep
  PROVE  Place' = Place /\ StrayWhole'
<1>1. TransportInv /\ UNCHANGED chunk
  BY DEF PlaceInv, CarryInv, HostStep, SendPacket, TakeStatus
<1>2. CASE SendPacket
  <2>1. /\ Left' = Left /\ Preparing' = Preparing /\ Forwarding' = Forwarding
        /\ EndSector' = EndSector
    BY <1>1, <1>2, SendStep
  <2> QED BY <1>1, <2>1, PlaceSame
<1>3. CASE TakeStatus
  <2>1. /\ Left = 0 /\ Left' = 0 /\ ~Preparing' /\ ~Forwarding /\ ~Forwarding'
        /\ EndSector' = EndSector
    BY <1>1, <1>3, TakeStatusStep
  <2> QED BY <1>1, <2>1, PlaceSame
<1> QED BY <1>2, <1>3 DEF HostStep

\* Between commands the place is the start of a sector, for a new command too.
LEMMA StartPlace ==
  ASSUME SlotUploads, PlaceInv, StrayWhole, Start
  PROVE  Place = 0 /\ Place' = 0 /\ StrayWhole'
<1>1. TransportInv /\ StreamTypes BY DEF PlaceInv, CarryInv
<1>2. host = "idle" BY DEF Start, WriteFile, WriteStray, TestUnitReady, Issue
<1>3. written \in Nat /\ Pos = written * SectorLen /\ scsi_state = "RECEIVE_CBW"
  BY <1>1, <1>2, HostBetween
<1>4. SectorLen \in Nat \ {0} /\ SectorLen' = SectorLen BY Sizes DEF SectorLen, HeaderLen
<1>5. Pos % SectorLen = 0
  <2>1. (written * SectorLen) % SectorLen = 0 BY <1>3, <1>4, Started
  <2> QED BY <1>3, <2>1
<1>6. ~Forwarding BY <1>3 DEF Forwarding
<1>7. Place = 0 BY <1>5, <1>6 DEF Place
<1>8. CASE \E n \in {1, Len(file)} : WriteFile(n)
  <2>1. PICK n \in {1, Len(file)} : WriteFile(n) BY <1>8
  <2>2. file # <<>> BY <1>1, SlotFile
  <2>3. Pos' = Pos /\ chunk' # 0 BY <1>1, <2>1, <2>2, FileIssued
  <2>4. Place' = 0 BY <1>4, <1>5, <2>3 DEF Place
  <2>5. StrayWhole' BY <2>3 DEF StrayWhole
  <2> QED BY <1>7, <2>4, <2>5
<1>9. CASE \E s \in Strays, lba \in {0, BlockCount} : WriteStray(s, lba)
  <2>1. PICK s \in Strays, lba \in {0, BlockCount} : WriteStray(s, lba) BY <1>9
  <2>2. s \in [1 .. SectorLen -> Nat] BY DEF SlotUploads
  <2>3. ~Forwarding' /\ Left' = SectorLen /\ chunk' = 0 BY <1>1, <2>1, <2>2, StrayIssued
  <2>4. Place' = 0 BY <2>3 DEF Place
  <2>5. StrayWhole' BY <1>4, <2>3 DEF StrayWhole
  <2> QED BY <1>7, <2>4, <2>5
<1>10. CASE TestUnitReady
  <2>1. /\ Issue(OP_TEST_UNIT_READY, 0, 0) /\ data' = data /\ chunk' = chunk /\ host' = "status"
    BY <1>10 DEF TestUnitReady
  <2>2. UNCHANGED written BY <2>1 DEF Issue
  <2>3. data = <<>> /\ data' \in Seq(Nat) /\ Len(data') = 0 BY <1>1, <1>2, <2>1, NothingLeft
  <2>4. OP_TEST_UNIT_READY \in Nat /\ 0 \in Nat /\ ~(0 > 0) BY DEF OP_TEST_UNIT_READY
  <2>5. Left = 0 /\ Left' = 0 /\ ~Forwarding' BY <1>1, <2>1, <2>3, <2>4, IssueStep
  <2>6. EndSector' = EndSector BY <1>2, <2>1, <2>2 DEF EndSector
  <2>7. Pos' = Pos BY <1>4, <2>1, <2>5, <2>6 DEF Pos
  <2>8. Place' = 0 BY <1>4, <1>5, <2>5, <2>7 DEF Place
  <2>9. StrayWhole' BY <2>5 DEF StrayWhole
  <2> QED BY <1>7, <2>8, <2>9
<1> QED BY <1>8, <1>9, <1>10 DEF Start

\* A token that a failed command drops is no token for the decoder.
LEMMA DropPlace ==
  ASSUME PlaceInv, StrayWhole, DropByte, UNCHANGED <<host, data, chunk, file, written>>
  PROVE  Place' = Place /\ StrayWhole'
<1>1. TransportInv /\ ReceiveWriteData /\ csw_status
  BY DEF PlaceInv, CarryInv, DropByte, Forwarded, ReceiveWriteData
<1>2. /\ Forwarding = ~csw_status /\ Forwarding' = (~csw_status /\ Left > 1)
      /\ chunk # 0 => ~csw_status
      /\ ~Preparing'
  BY <1>1, WriteDataStep
<1>3. chunk = 0 /\ ~Forwarding /\ ~Forwarding' BY <1>1, <1>2
<1> QED BY <1>2, <1>3 DEF Place, StrayWhole

LEMMA QuietPlace ==
  ASSUME PlaceInv, StrayWhole, UNCHANGED <<scsi, host, data, chunk, file, written>>
  PROVE  Place' = Place /\ StrayWhole'
<1>1. TransportInv BY DEF PlaceInv, CarryInv
<1>2. Left' = Left BY <1>1, TransportStutter
<1>3. EndSector' = EndSector BY DEF EndSector
<1>4. UNCHANGED <<scsi_state, csw_status, rx>> BY DEF scsi, scsi_regs
<1>5. (Forwarding' <=> Forwarding) /\ (Preparing' => Preparing)
  BY <1>4 DEF Forwarding, Preparing
<1> QED BY <1>2, <1>3, <1>5, PlaceSame

\* A token moves the decoder and the data by one place each: apart they stay apart.
LEMMA TokenApart ==
  ASSUME PlainUploads, SlotUploads, EndsApart, CarryInv, Coherent, OutOfStep, Forwarded,
         ReceiveWriteData, Consume(Head(rx)), Tick, UNCHANGED host_vars
  PROVE  Coherent' /\ OutOfStep'
<1> DEFINE t == Head(rx)
           b == byte_count
           p == Place
<1>1. TransportInv /\ StreamTypes /\ Carried /\ ~csw_status BY DEF CarryInv, Forwarded
<1>2. b # p /\ done = FALSE /\ pending = FALSE BY DEF OutOfStep
<1>3. UNCHANGED <<host, data, chunk, file, written>> BY DEF host_vars
<1>4. /\ Coherent' /\ b \in 0 .. LastToken
      /\ b < LastToken => b' = b + 1
      /\ b = LastToken => b' = 0
  BY CoherentTaken
<1>5. LastToken \in Nat BY Sizes
<1>6. b' \in 0 .. LastToken
  <2> HIDE DEF b
  <2> QED BY <1>4, <1>5
<1>7. /\ p \in 0 .. LastToken
      /\ p < LastToken => p' = p + 1
      /\ p = LastToken => p' = 0
  BY <1>1, <1>3, <1>6, PlaceTaken
<1>8. b' # p'
  <2> HIDE DEF b, p
  <2>1. b < LastToken \/ b = LastToken BY <1>4, <1>5
  <2>2. p < LastToken \/ p = LastToken BY <1>5, <1>7
  <2> QED BY <1>2, <1>4, <1>5, <1>7, <2>1, <2>2
<1>9. done' = FALSE
  <2>1. CASE Final(t) BY <1>1, <1>2, <2>1, EndMissed
  <2>2. CASE Header(t) BY <1>2, <2>2 DEF Header
  <2>3. CASE Data(t) \/ Pad(t) \/ Discard(t) BY <1>2, <2>3 DEF Data, Pad, Discard
  <2> QED BY <2>1, <2>2, <2>3 DEF Consume
<1>10. pending' = FALSE BY <1>2 DEF Tick
<1> QED BY <1>4, <1>8, <1>9, <1>10 DEF OutOfStep

\* The decoder's registers and the data's place, over a step that takes no token.
LEMMA ApartKept ==
  ASSUME Place' = Place, UNCHANGED byte_count, done' => done, done' \in BOOLEAN,
         pending' \in {pending, pending \/ done}, OutOfStep
  PROVE  OutOfStep'
<1>1. byte_count # Place /\ done = FALSE /\ pending = FALSE BY DEF OutOfStep
<1>2. done' = FALSE /\ pending' = FALSE BY <1>1
<1> QED BY <1>1, <1>2 DEF OutOfStep

LEMMA WorkingCoheres ==
  ASSUME PlainUploads, SlotUploads, EndsApart, PlaceInv, Coherent, StrayWhole, Working
  PROVE  Coherent' /\ StrayWhole' /\ (OutOfStep => OutOfStep')
<1>1. CarryInv /\ byte_count \in 0 .. LastToken BY DEF PlaceInv, CarryInv, StreamTypes
<1>2. ASSUME Place' = Place, StrayWhole', UNCHANGED <<uf2_state, byte_count, uf2_header, data_count>>,
             done' = done \/ done' = FALSE, pending' \in {pending, pending \/ done}
      PROVE  Coherent' /\ StrayWhole' /\ (OutOfStep => OutOfStep')
  <2>1. Coherent' BY <1>2, CoherentKept
  <2>2. ASSUME OutOfStep PROVE OutOfStep'
    <3>1. done = FALSE BY <2>2 DEF OutOfStep
    <3> QED BY <1>2, <2>2, <3>1, ApartKept
  <2> QED BY <1>2, <2>1, <2>2
<1>3. CASE Gateware
  <2>1. Tick /\ UNCHANGED host_vars BY <1>3 DEF Gateware
  <2>2. UNCHANGED <<host, data, chunk, file, written>> BY <2>1 DEF host_vars
  <2>3. pending' \in {pending, pending \/ done} BY <2>1 DEF Tick
  <2>4. CASE (ScsiAlone /\ UNCHANGED uf2) \/ (SendCswPrep(error) /\ UNCHANGED uf2)
               \/ (Dispatch /\ Clear)
    <3>1. Place' = Place /\ StrayWhole' BY <2>2, <2>4, HandlerPlace
    <3>2. /\ UNCHANGED <<uf2_state, byte_count, uf2_header, data_count>>
          /\ done' = done \/ done' = FALSE
      BY <2>4 DEF uf2, Clear
    <3> QED BY <1>2, <2>3, <3>1, <3>2
  <2>5. CASE DecodeByte \/ StoreByte
    <3>1. Forwarded /\ ReceiveWriteData /\ Consume(Head(rx))
      BY <2>5 DEF DecodeByte, StoreByte, Consume
    <3>2. Coherent' BY <1>1, <3>1, CoherentTaken
    <3>3. ASSUME OutOfStep PROVE OutOfStep' BY <1>1, <2>1, <3>1, <3>3, TokenApart
    <3>4. StrayWhole'
      <4>1. TransportInv BY <1>1 DEF CarryInv
      <4>2. ~Preparing' BY <2>2, <3>1, <4>1, WriteDataStep
      <4> QED BY <4>2 DEF StrayWhole
    <3> QED BY <3>2, <3>3, <3>4
  <2>6. CASE DropByte
    <3>1. Place' = Place /\ StrayWhole' BY <2>2, <2>6, DropPlace
    <3>2. UNCHANGED <<uf2_state, byte_count, uf2_header, data_count, done>>
      BY <2>6 DEF DropByte, uf2
    <3> QED BY <1>2, <2>3, <3>1, <3>2
  <2>7. CASE DataEnd /\ UNCHANGED scsi
    <3>1. Place' = Place /\ StrayWhole' BY <2>2, <2>7, QuietPlace
    <3>2. Coherent' BY <1>1, <2>7, CoherentEnd
    <3>3. UNCHANGED <<byte_count, done>> BY <2>7 DEF DataEnd
    <3>4. ASSUME OutOfStep PROVE OutOfStep'
      <4>1. done = FALSE BY <3>4 DEF OutOfStep
      <4> QED BY <2>3, <3>1, <3>3, <3>4, <4>1, ApartKept
    <3> QED BY <3>1, <3>2, <3>4
  <2>8. CASE UNCHANGED <<scsi, uf2>>
    <3>1. Place' = Place /\ StrayWhole' BY <2>2, <2>8, QuietPlace
    <3>2. UNCHANGED <<uf2_state, byte_count, uf2_header, data_count, done>> BY <2>8 DEF uf2
    <3> QED BY <1>2, <2>3, <3>1, <3>2
  <2> QED BY <1>3, <2>4, <2>5, <2>6, <2>7, <2>8 DEF Gateware, DispatchAndClear
<1>4. CASE DeviceStep \/ Boot \/ UNCHANGED vars
  <2>1. UNCHANGED <<scsi, uf2, pending, host, data, chunk, file, written>>
    BY <1>4 DEF DeviceStep, Boot, vars, host_vars
  <2>2. Place' = Place /\ StrayWhole' BY <2>1, QuietPlace
  <2>3. UNCHANGED <<uf2_state, byte_count, uf2_header, data_count, done>> BY <2>1 DEF uf2
  <2> QED BY <1>2, <2>1, <2>2, <2>3
<1>5. CASE HostStep
  <2>1. UNCHANGED <<uf2, pending>> BY <1>5 DEF HostStep, SendPacket, TakeStatus
  <2>2. Place' = Place /\ StrayWhole' BY <1>5, HostPlace
  <2>3. UNCHANGED <<uf2_state, byte_count, uf2_header, data_count, done>> BY <2>1 DEF uf2
  <2> QED BY <1>2, <2>1, <2>2, <2>3
<1>6. CASE Start
  <2>1. UNCHANGED <<uf2, pending>> BY <1>6 DEF Start, WriteFile, WriteStray, TestUnitReady, Issue
  <2>2. Place' = Place /\ StrayWhole' BY <1>6, StartPlace
  <2>3. UNCHANGED <<uf2_state, byte_count, uf2_header, data_count, done>> BY <2>1 DEF uf2
  <2> QED BY <1>2, <2>1, <2>2, <2>3
<1> QED BY <1>3, <1>4, <1>5, <1>6 DEF Working

\* A reset between sectors leaves the decoder in step, one in the middle of a sector does not.
LEMMA ResetCoheres ==
  ASSUME SlotUploads, PlaceInv, Coherent, BusReset
  PROVE  Coherent' /\ StrayWhole' /\ (InStep' \/ OutOfStep')
<1>1. PlaceInv' BY ResetPlaces
<1>2. /\ ResetScsi /\ Clear /\ rx' = <<>> /\ data' = <<>> /\ chunk' = 0 /\ pending' = FALSE
  BY DEF BusReset
<1>3. /\ UNCHANGED <<uf2_state, byte_count, uf2_header, data_count>> /\ done' = FALSE
      /\ scsi_state' = "RECEIVE_CBW"
  BY <1>2 DEF Clear, ResetScsi
<1>4. ~Preparing' /\ ~Forwarding' BY <1>2, <1>3 DEF Preparing, Forwarding
<1>5. Place' = 0 BY <1>2, <1>4 DEF Place
<1>6. Coherent' BY <1>3, CoherentKept
<1>7. StrayWhole' BY <1>4 DEF StrayWhole
<1>8. CASE byte_count = 0
  <2>1. StreamTypes' BY <1>1 DEF PlaceInv, CarryInv
  <2>2. FileRead' BY <1>2 DEF FileRead
  <2>3. StrayRead' BY <1>3, <1>4, <1>8 DEF StrayRead
  <2>4. uf2_state' = "HEADER" BY <1>3, <1>8 DEF Coherent
  <2>5. StreamInv' BY <2>1, <2>2, <2>3, <2>4 DEF StreamInv
  <2>6. FlushMeant' BY <1>2, <1>3 DEF FlushMeant
  <2> QED BY <1>6, <1>7, <2>5, <2>6 DEF InStep
<1>9. CASE byte_count # 0
  <2>1. OutOfStep' BY <1>2, <1>3, <1>5, <1>9 DEF OutOfStep
  <2> QED BY <1>6, <1>7, <2>1
<1> QED BY <1>8, <1>9

LEMMA RebootStep ==
  ASSUME PlainUploads, SlotUploads, EndsApart, RebootInv, [Next]_vars
  PROVE  RebootInv'
<1>1. PlaceInv /\ Coherent /\ StrayWhole /\ (InStep \/ OutOfStep) /\ BootsAfterUpload
  BY DEF RebootInv
<1>2. TransportInv BY <1>1 DEF PlaceInv, CarryInv
<1>3. PlaceInv' BY <1>1, PlaceStep
<1>4. Coherent' /\ StrayWhole' /\ (InStep' \/ OutOfStep')
  <2>1. CASE BusReset BY <1>1, <2>1, ResetCoheres
  <2>2. CASE Working
    <3>1. Coherent' /\ StrayWhole' /\ (OutOfStep => OutOfStep') BY <1>1, <2>2, WorkingCoheres
    <3>2. InStep => InStep' BY <1>2, <2>2, StreamMeans DEF InStep
    <3> QED BY <1>1, <3>1, <3>2
  <2> QED BY <2>1, <2>2 DEF Next, Working
<1>5. BootsAfterUpload'
  <2>1. CASE Boot
    <3>1. pending /\ UNCHANGED <<file, written>> BY <2>1 DEF Boot, host_vars
    <3>2. FlushMeant BY <1>1, <3>1 DEF InStep, OutOfStep
    <3>3. written = Len(file) /\ file[Len(file)][SectorLen] = MAGIC_END
      BY <3>1, <3>2 DEF FlushMeant
    <3> QED BY <3>1, <3>3 DEF BootsAfterUpload, SectorLen, HeaderLen
  <2>2. CASE UNCHANGED vars
    <3>1. UNCHANGED <<booted, file, written>> BY <2>2 DEF vars, host_vars
    <3> QED BY <1>1, <3>1 DEF BootsAfterUpload, SectorLen, HeaderLen
  <2>3. CASE Next /\ ~Boot
    <3>1. ~booted /\ booted' = booted
      BY <2>3 DEF Next, Gateware, DeviceStep, HostStep, SendPacket, TakeStatus, Start, WriteFile,
                  WriteStray, TestUnitReady, Issue, BusReset
    <3> QED BY <3>1 DEF BootsAfterUpload
  <2> QED BY <2>1, <2>2, <2>3
<1> QED BY <1>3, <1>4, <1>5 DEF RebootInv

LEMMA RebootInit ==
  ASSUME PlainUploads, SlotUploads, Init
  PROVE  RebootInv
<1>1. PlaceInv BY LoaderInit DEF LoaderInv
<1>2. /\ uf2_state = "HEADER" /\ byte_count = 0 /\ done = FALSE /\ pending = FALSE
      /\ booted = FALSE /\ scsi_state = "RECEIVE_CBW" /\ rx = <<>>
  BY DEF Init, ScsiInit, UF2Init
<1>3. Coherent BY <1>2 DEF Coherent
<1>4. StrayWhole BY <1>2 DEF StrayWhole, Preparing
<1>5. InStep
  <2>1. StreamInv BY StreamInit
  <2>2. FlushMeant BY <1>2 DEF FlushMeant
  <2> QED BY <2>1, <2>2 DEF InStep
<1>6. BootsAfterUpload BY <1>2 DEF BootsAfterUpload
<1> QED BY <1>1, <1>3, <1>4, <1>5, <1>6 DEF RebootInv

\* The device reboots for nothing but a file that has been written to its last block, and that
\* ended well: across bus resets too, wherever they cut an upload, when no word of a sector but
\* its last is the end magic. A decoder that a reset has left in the middle of a block looks for
\* that magic where the host sends another word.
THEOREM UploadBootsAlways ==
  ASSUME PlainUploads, SlotUploads, EndsApart
  PROVE  Spec => []BootsAfterUpload
<1>1. Init => RebootInv BY RebootInit
<1>2. RebootInv /\ [Next]_vars => RebootInv' BY RebootStep
<1>3. RebootInv => BootsAfterUpload BY DEF RebootInv
<1> QED BY <1>1, <1>2, <1>3, PTL DEF Spec

=============================================================================
