---------------------------- MODULE DualBankProofs -----------------------------
(***************************************************************************)
(* Theorems about DualBankWriter, for every geometry, threshold and octet  *)
(* time: the PSRAM is never selected for longer than tCEM, every octet     *)
(* goes to the chip it is meant for, every command finds the flash ready,  *)
(* and at a reload to the application in the PSRAM the slot holds the      *)
(* header and the PSRAM has been left in SPI mode with its image whole.    *)
(***************************************************************************)
EXTENDS DualBankWriter, FiniteSetTheorems, TLAPS

-----------------------------------------------------------------------------
(* The limit on a burst. The threshold is looked at in WRITE_NEXT only, so the
   invariant has to know how far chip select has been open in the states that
   lead there, and that a burst opened afresh is below the threshold. *)

\* Chip select is high.
Closed == {"IDLE", "SWAP_ASSERT", "QPI_EXIT", "QPI_ENTER", "WRITE_OPEN", "TCEM_WAIT",
           "RAM_EXIT_QPI", "ARM_FLASH_ASSERT", "ARM_RAM"}

\* One octet has gone out.
OneOctet == {"SWAP_RELEASE", "QPI_EXIT_RELEASE", "QPI_RELEASE", "RAM_EXIT_RELEASE",
             "ARM_FLASH_RELEASE"}

\* A burst below the threshold.
Within == {"WRITE_DATA", "REOPEN_CLOSE", "DONE_CLOSE"}

BurstInv ==
  /\ open_for \in Nat /\ cnt \in 0 .. MaxCsCycles
  /\ ram \in Closed \cup OneOctet \cup Within \cup {"WRITE_ADDR", "WRITE_NEXT", "TCEM_CLOSE"}
  /\ ram \in Closed => cnt = 0 /\ open_for = 0
  /\ ram \in OneOctet => open_for <= OctetCycles
  /\ ram \in Within => open_for <= cnt
  /\ ram = "WRITE_ADDR" =>
       /\ open_for <= cnt
       /\ \/ ram_count = 0 /\ cnt = OctetCycles
          \/ ram_count = 1 /\ cnt = 2 * OctetCycles
          \/ ram_count = 2 /\ cnt = 3 * OctetCycles
  /\ ram = "WRITE_NEXT" =>
       /\ open_for <= MaxCsCycles + OctetCycles
       /\ cnt < MaxCsCycles => open_for <= cnt
  /\ ram = "TCEM_CLOSE" => open_for <= MaxCsCycles + OctetCycles + 1

LEMMA BurstInit == Init => BurstInv
BY TcemAssumption DEF Init, RamInit, BurstInv, Closed, OneOctet, Within

\* The steps of the PSRAM writer, each from the states it is taken in.
LEMMA BurstRamStep ==
  ASSUME BurstInv, NEW i, NEW flushed,
         RamTakesByte(i) \/ RamWorksAlone(i, flushed)
  PROVE  BurstInv'
<1> USE TcemAssumption DEF BurstInv, Closed, OneOctet, Within
<1>1. CASE RamIdle(i)
  BY <1>1 DEF RamIdle, RamAccept
<1>2. CASE RamNextByte(i)
  BY <1>2 DEF RamNextByte, RamAccept, Hold, tcem_expired
<1>3. CASE RamTcemByte(i)
  BY <1>3 DEF RamTcemByte, RamAccept
<1>4. CASE RamPulse
  BY <1>4 DEF RamPulse, Pulses, Hold
<1>5. CASE RamRelease
  BY <1>5 DEF RamRelease, Releases, Rise
<1>6. CASE RamSend
  BY <1>6 DEF RamSend, Sends, Hold
<1>7. CASE RamWriteAddr
  BY <1>7 DEF RamWriteAddr, Hold
<1>8. CASE RamWriteData
  BY <1>8 DEF RamWriteData, Hold
<1>9. CASE RamNextElse(i, flushed)
  BY <1>9 DEF RamNextElse, Hold, tcem_expired, ram_regs
<1>10. CASE RamTcemDone(i, flushed)
  BY <1>10 DEF RamTcemDone
<1>11. CASE RamArmed
  BY <1>11 DEF RamArmed
<1> QED BY <1>1, <1>2, <1>3, <1>4, <1>5, <1>6, <1>7, <1>8, <1>9, <1>10, <1>11
        DEF RamTakesByte, RamWorksAlone

\* Nobody else touches what the invariant is about.
LEMMA BurstStep == BurstInv /\ [Next]_vars => BurstInv'
<1> SUFFICES ASSUME BurstInv, [Next]_vars PROVE BurstInv'
  OBVIOUS
<1>1. CASE RamStep
  BY <1>1, BurstRamStep DEF RamStep
<1>2. ASSUME UNCHANGED <<ram, ram_regs, cnt, open_for>> PROVE BurstInv'
  BY <1>2 DEF BurstInv, ram_regs
<1>3. CASE UNCHANGED vars
  BY <1>2, <1>3 DEF vars, ram_vars
<1>4. CASE Next /\ ~RamStep
  BY <1>2, <1>4 DEF Next, FlashStep, LatchBank, HeaderStart, HeaderStep, HeaderEnd, DeviceStep,
     Offer, RaiseFlush, NextUpload, SelectBank, Clear, Boot, ram_vars
<1> QED BY <1>1, <1>3, <1>4

(* The PSRAM is never selected for longer than tCEM, the octet still to be sent
   included, whatever the threshold and the octet time allow by the one
   assumption on them: qspi/ram.py with boot/dual_bank.py's counter. *)
THEOREM BurstsBounded == Spec => []BurstBounded
<1>1. BurstInv => BurstBounded
  BY TcemAssumption DEF BurstInv, BurstBounded, Closed, OneOctet, Within
<1> QED BY BurstInit, BurstStep, <1>1, PTL DEF Spec

-----------------------------------------------------------------------------
(* Who is on the bus. That the flip-flop is where an octet is meant to go rests
   on the three writers' never being at work together, and that on ram_select,
   header_done and the PSRAM writer's never coming back to IDLE. *)

Swapping == {"IDLE", "SWAP_ASSERT", "SWAP_RELEASE"}
Arming   == {"ARM_FLASH_RELEASE", "ARM_RAM"}

BusInv ==
  /\ ram # "IDLE" => ram_select
  /\ state # "IDLE" => ~ram_select
  /\ bh # "IDLE" => ram_select /\ ram = "IDLE" /\ ~header_done
  /\ state = "IDLE" /\ bh \in {"IDLE", "DONE"} => frame = <<>>
  /\ ram \in Swapping \cup {"ARM_RAM"} => latch = 0
  /\ ram \notin Swapping \cup {"ARM_RAM"} => latch = 1
  /\ ram = "IDLE" => target_bank = 0 /\ ram_frame = <<>>
  /\ ram \notin Arming \cup {"IDLE"} => target_bank = 1
  /\ ram = "ARM_FLASH_RELEASE" => target_bank = 0

LEMMA BusInit == Init => BusInv
BY DEF Init, RamInit, FsmInit, BhInit, DeviceInit, BusInv, Swapping, Arming

\* A step of the PSRAM writer: it has the port, so nobody else is at work.
LEMMA BusRamStep == BusInv /\ RamStep => BusInv'
<1> SUFFICES ASSUME BusInv, RamStep PROVE BusInv'
  OBVIOUS
<1> USE DEF BusInv, Swapping, Arming
<1>1. /\ ram_select /\ ram_select' = ram_select /\ header_done' = header_done
      /\ state = "IDLE" /\ state' = state /\ bh = "IDLE" /\ bh' = bh
      /\ frame' = frame
  BY DEF RamStep, ensuring, flash_vars, fsm, regs, device, bh_vars
<1>2. CASE RamTakesByte(RamPort)
  BY <1>1, <1>2 DEF RamTakesByte, RamIdle, RamNextByte, RamTcemByte, RamAccept, Hold, ram_chip
<1>3. CASE RamPulse
  BY <1>1, <1>3 DEF RamPulse, Pulses, Hold
<1>4. CASE RamRelease
  BY <1>1, <1>4 DEF RamRelease, Releases, Rise, ram_regs
<1>5. CASE RamSend
  BY <1>1, <1>5 DEF RamSend, Sends, Hold
<1>6. CASE RamWriteAddr \/ RamWriteData
  BY <1>1, <1>6 DEF RamWriteAddr, RamWriteData, Hold
<1>7. CASE RamNextElse(RamPort, flush)
  BY <1>1, <1>7 DEF RamNextElse, Hold, ram_regs
<1>8. CASE RamTcemDone(RamPort, flush)
  BY <1>1, <1>8 DEF RamTcemDone, ram_regs
<1>9. CASE RamArmed
  BY <1>1, <1>9 DEF RamArmed
<1> QED BY <1>2, <1>3, <1>4, <1>5, <1>6, <1>7, <1>8, <1>9 DEF RamStep, RamWorksAlone

\* The FLASH writer is back in IDLE only when its last frame has been released.
LEMMA FlashRests ==
  ASSUME TakesByte \/ WorksAlone, state' = "IDLE"
  PROVE  frame' = <<>>
BY DEF TakesByte, WorksAlone, Idle, WriteNextByte, Wren, WrenRelease, EraseCmd, WriteCmd, SendOpcode,
   EraseAddr, EraseRelease, WriteAddr, WriteData, WriteNextFlush, WriteRelease,
   PollCmd, PollRead, PollCapture, PollRelease, ChipSelectRise

\* So is BootHeader done.
LEMMA HeaderRests ==
  ASSUME BhStep, bh \notin {"IDLE", "DONE"}
  PROVE  bh' # "IDLE" /\ (bh' = "DONE" => frame' = <<>>)
<1>1. CASE BhSend
  BY <1>1 DEF BhSend, BhSends
<1>2. CASE BhAddr
  BY <1>2 DEF BhAddr, BhAddrs
<1>3. CASE BhGet \/ BhCapture \/ BhData
  BY <1>3 DEF BhGet, BhCapture, BhData
<1>4. CASE BhRelease
  BY <1>4 DEF BhRelease, BhReleases, AfterRelease, HeaderRise, ChipSelectRise
<1> QED BY <1>1, <1>2, <1>3, <1>4 DEF BhStep

LEMMA BusStep == BusInv /\ [Next]_vars => BusInv'
<1> SUFFICES ASSUME BusInv, [Next]_vars PROVE BusInv'
  OBVIOUS
<1> USE DEF BusInv, Swapping, Arming
<1>1. CASE RamStep
  BY <1>1, BusRamStep
<1>2. CASE FlashStep
  <2>1. /\ ~ram_select /\ ram = "IDLE" /\ bh = "IDLE" /\ latch' = 0
    BY <1>2 DEF FlashStep, LatchBank
  <2>2. state' = "IDLE" => frame' = <<>>
    BY <1>2, FlashRests DEF FlashStep
  <2> QED BY <1>2, <2>1, <2>2 DEF FlashStep, LatchBank, ram_regs, ram_chip, bh_vars
<1>3. CASE HeaderStart
  BY <1>3 DEF HeaderStart, BhStart, ensuring, device, fsm, regs, ram_vars, ram_regs, ram_chip, port
<1>4. CASE HeaderStep
  <2>1. bh \notin {"IDLE", "DONE"}
    BY <1>4 DEF HeaderStep, BhStep, BhSend, BhSends, BhAddr, BhAddrs, BhGet, BhCapture, BhRelease,
       BhReleases, BhData
  <2>2. bh' # "IDLE" /\ (bh' = "DONE" => frame' = <<>>)
    BY <1>4, <2>1, HeaderRests DEF HeaderStep
  <2> QED BY <1>4, <2>1, <2>2 DEF HeaderStep, LatchBank, ram_regs, ram_chip, fsm, regs, port
<1>5. CASE HeaderEnd
  BY <1>5 DEF HeaderEnd, BhDone, device, fsm, regs, ram_vars, ram_regs, ram_chip, port
<1>6. CASE DeviceStep
  BY <1>6 DEF DeviceStep, WriteEnds, fsm, regs, ram_vars, ram_regs, ram_chip, bh_vars, port
<1>7. CASE SelectBank
  BY <1>7 DEF SelectBank, BetweenUploads, ensuring, flash_vars, fsm, regs, device, ram_vars,
     ram_regs, ram_chip, bh_vars
<1>8. CASE Clear
  BY <1>8 DEF Clear, flash_vars, fsm, regs, device, ram_vars, ram_regs, ram_chip, bh_vars
<1>9. CASE (\E a \in Addr : Offer(a)) \/ RaiseFlush \/ NextUpload \/ Boot \/ UNCHANGED vars
  BY <1>9 DEF Offer, RaiseFlush, NextUpload, Boot, vars, port, flash_vars, fsm, regs, device,
     ram_vars, ram_regs, ram_chip, bh_vars
<1> QED BY <1>1, <1>2, <1>3, <1>4, <1>5, <1>6, <1>7, <1>8, <1>9 DEF Next

(* Every octet goes to the chip it is meant for, whatever was uploaded before:
   the bank flip-flop outside the FPGA against dual_bank_writer.py's routing,
   for any order of uploads, resets and changes of bank Next allows. *)
THEOREM FramesToTheirBank == Spec => []FrameToItsBank
<1>1. BusInv => FrameToItsBank
  BY DEF BusInv, FrameToItsBank, Swapping, Arming
<1> QED BY BusInit, BusStep, <1>1, PTL DEF Spec

-----------------------------------------------------------------------------
(* What the writers leave behind. While the FLASH has the bus, its part of the
   system is FlashUpload, whose step lemmas say what is in the array; BootHeader
   and the PSRAM writer have invariants of their own. *)

NoByte   == CHOOSE n : n \notin Byte
Bytes(a) == {Payload(a)}
Image    == [a \in Addr |-> IF a \in sent THEN Payload(a) ELSE Erased]

Upload == INSTANCE FlashStoreProofs
            WITH image <- Image, session <- uploads, Payload <- Bytes,
                 MaxSessions <- MaxUploads, None <- NoByte

FlashInv == ~ram_select => Upload!ProtocolInv /\ Upload!StoreInv

\* The image for the slot is sequential: so far the addresses from its base on.
Last == Num(HeaderBase) + Cardinality(sent) - 1

OrderInv ==
  /\ IsFiniteSet(sent)
  /\ ~ram_select =>
       /\ \A a \in Addr : a \in sent => Num(a) <= Last
       /\ sent # {} => Num(IF w.valid THEN w.addr ELSE addr_latch) = Last

\* The port, and what the FLASH writer leaves when the bank is changed.
PortInv ==
  /\ w \in [valid : BOOLEAN, addr : Addr, data : Byte] /\ flush \in BOOLEAN /\ sent \subseteq Addr
  /\ w.valid => w.addr \in sent /\ w.data = Payload(w.addr)

RestInv ==
  ram_select => DeviceTypeOK /\ FsmTypeOK /\ ~block_valid /\ qi = <<>>

(* BootHeader. *)

HeaderCell(k) == [HeaderBase EXCEPT !.off = k - 1]

BetweenFrames == {"IDLE", "DONE", "READ_CMD", "WREN_E", "ERASE_CMD", "WREN_P", "PP_CMD", "POLL_CMD"}
Addressing    == [READ_ADDR |-> READ, ERASE_ADDR |-> SECTOR_ERASE, PP_ADDR |-> PAGE_PROGRAM]
WithAddress   == [READ_GET |-> READ, READ_CAP |-> READ, READ_DONE |-> READ,
                  ERASE_REL |-> SECTOR_ERASE, PP_DATA |-> PAGE_PROGRAM, PP_REL |-> PAGE_PROGRAM]
Polls         == {"POLL_CMD", "POLL_GET", "POLL_CAP", "POLL_REL"}
Programs1     == {"WREN_P", "WREN_P_REL", "PP_CMD", "PP_ADDR", "PP_DATA", "PP_REL"}
NeedsLatch    == {"ERASE_CMD", "ERASE_ADDR", "ERASE_REL", "PP_CMD", "PP_ADDR", "PP_DATA", "PP_REL"}

HeaderFrame ==
  /\ bh \in BetweenFrames => frame = <<>> /\ buf = EmptyBuf
  /\ bh \in {"WREN_E_REL", "WREN_P_REL"} => frame = <<WRITE_ENABLE>>
  /\ bh \in Polls \ {"POLL_CMD"} => frame = <<READ_STATUS>>
  /\ bh \in DOMAIN Addressing =>
       /\ bh_count \in 0 .. 2 /\ Len(frame) = bh_count + 1 /\ frame[1] = Addressing[bh]
       /\ bh_count > 0 => frame[2] = HeaderBase.blk
       /\ bh_count > 1 => frame[3] = HeaderBase.pg
  /\ bh \in DOMAIN WithAddress =>
       /\ Len(frame) = 4 /\ frame[1] = WithAddress[bh]
       /\ frame[2] = HeaderBase.blk /\ frame[3] = HeaderBase.pg

HeaderStatus ==
  /\ bh \in BetweenFrames \cup DOMAIN Addressing \cup DOMAIN WithAddress \cup Polls
            \cup {"WREN_E_REL", "WREN_P_REL"}
  /\ bh \in NeedsLatch => wel
  /\ bh \notin Polls => ~wip
  /\ bh = "POLL_REL" /\ ~bh_status => ~wip
  /\ bh = "POLL_CAP" => \E b \in BOOLEAN : bh_qi = <<b>> /\ (~b => ~wip)
  /\ bh = "READ_CAP" => bh_qi = <<mem[HeaderCell(idx + 1)]>>
  /\ bh \notin {"POLL_CAP", "READ_CAP"} => bh_qi = <<>>

Blanked == \A k \in 1 .. N : mem[HeaderCell(k)] = Erased

HeaderData ==
  /\ bh \in {"READ_GET", "READ_CAP", "PP_DATA"} => idx \in 0 .. N - 1
  /\ bh = "READ_CMD" => ~mismatch
  /\ bh \in {"READ_GET", "PP_DATA"} => col = idx
  /\ bh = "READ_CAP" => col = (idx + 1) % PageSize
  /\ bh \in {"READ_GET", "READ_CAP"} =>
       mismatch \/ \A k \in 1 .. idx : mem[HeaderCell(k)] = Header[k]
  /\ bh = "READ_DONE" => mismatch \/ HeaderPresent
  /\ bh \in Programs1 => Blanked
  /\ bh \in Polls => IF poll_ret = "PROGRAM" THEN Blanked ELSE HeaderPresent
  /\ bh = "PP_ADDR" => idx = 0 /\ buf = EmptyBuf
  /\ bh = "PP_DATA" => \A o \in 0 .. PageSize - 1 : buf[o] = IF o < idx THEN Header[o + 1] ELSE Erased
  /\ bh = "PP_REL" => \A o \in 0 .. PageSize - 1 : buf[o] = IF o < N THEN Header[o + 1] ELSE Erased
  /\ bh = "DONE" => HeaderPresent

HeaderRegs == bh_status \in BOOLEAN /\ mismatch \in BOOLEAN /\ (bh = "IDLE" => bh_qi = <<>>)

HeaderInv == HeaderRegs /\ (ram_select => HeaderFrame /\ HeaderStatus /\ HeaderData)

\* Once known, the header stays until an upload puts a byte on the FLASH: before
\* that, the FLASH writer has nothing of one.
KnownInv ==
  ~unchecked =>
    /\ header_done \/ ram # "IDLE" => HeaderPresent
    /\ ~ram_select => sent = {} /\ ~w.valid /\ state = "IDLE"

(* The PSRAM. *)

Given == IF w.valid THEN sent \ {w.addr} ELSE sent

Modes == {"X1", "X4"}

RamStates == Closed \cup OneOctet \cup Within \cup {"IDLE", "WRITE_ADDR", "WRITE_NEXT", "TCEM_CLOSE"}

\* The latched byte is still to be written.
RamLive == {"SWAP_ASSERT", "SWAP_RELEASE", "QPI_EXIT", "QPI_EXIT_RELEASE", "QPI_ENTER", "QPI_RELEASE",
            "WRITE_OPEN", "WRITE_ADDR", "WRITE_DATA", "REOPEN_CLOSE"}

InQpi == {"WRITE_OPEN", "WRITE_ADDR", "WRITE_DATA", "WRITE_NEXT", "REOPEN_CLOSE", "TCEM_CLOSE",
          "TCEM_WAIT", "DONE_CLOSE", "RAM_EXIT_QPI", "RAM_EXIT_RELEASE"}
InSpi == {"QPI_ENTER", "QPI_RELEASE", "ARM_FLASH_ASSERT", "ARM_FLASH_RELEASE", "ARM_RAM"}

Bursting == {"WRITE_DATA", "WRITE_NEXT", "REOPEN_CLOSE", "TCEM_CLOSE", "DONE_CLOSE"}

RamFrame ==
  /\ quad \in BOOLEAN /\ ram \in RamStates /\ ram_frame \in Seq(Modes \X Nat)
  /\ ram \in InQpi => quad
  /\ ram \in InSpi => ~quad
  /\ ram \in (Closed \cup {"SWAP_RELEASE", "ARM_FLASH_RELEASE"}) => ram_frame = <<>>
  /\ ram \in {"QPI_EXIT_RELEASE", "RAM_EXIT_RELEASE"} => ram_frame = <<<<"X4", EXIT_QPI>>>>
  /\ ram = "QPI_RELEASE" => ram_frame = <<<<"X1", ENTER_QPI>>>>
  /\ ram = "WRITE_ADDR" =>
       /\ ram_count \in 0 .. 2 /\ Len(ram_frame) = ram_count + 1
       /\ ram_frame[1] = <<"X4", WRITE>>
       /\ ram_count > 0 => ram_frame[2] = <<"X4", ram_addr.blk>>
       /\ ram_count > 1 => ram_frame[3] = <<"X4", ram_addr.pg>>
  /\ ram \in Bursting => Len(ram_frame) = 4 /\ ram_frame[1] = <<"X4", WRITE>>
  /\ ram = "WRITE_DATA" => ram_at = Num(ram_addr)
  /\ ram = "WRITE_NEXT" => ram_at = (Num(cur_addr) + 1) % RamSize

RamHolds ==
  /\ psram \in [Addr -> Byte] /\ ram_addr \in Addr /\ cur_addr \in Addr
  /\ ram_select /\ ram = "IDLE" => Given = {} \/ (flush /\ ~w.valid)
  /\ ram \in RamLive => ram_addr \in Given /\ ram_data = Payload(ram_addr)
  /\ ram # "IDLE" =>
       \A a \in Given : psram[a] = Payload(a) \/ (ram \in RamLive /\ a = ram_addr)

RamInv == RamFrame /\ RamHolds

BootInv ==
  booted => ~w.valid /\ bh = "IDLE" /\ IF ram_select THEN ram = "ARM_RAM" /\ target_bank = 1
                                                    ELSE flush /\ state = "IDLE"

WriterInv ==
  BusInv /\ PortInv /\ FlashInv /\ OrderInv /\ RestInv /\ HeaderInv /\ KnownInv /\ RamInv /\ BootInv

-----------------------------------------------------------------------------
(* The FLASH's part of a step is a step of FlashUpload. *)

LEMMA NoByteFresh == NoByte \notin Byte
<1>1. \E n : n \notin Byte BY NoSetContainsEverything
<1> QED BY <1>1 DEF NoByte

LEMMA PayloadBytes == \A a \in Upload!Addr : Bytes(a) \subseteq Byte
BY UploadAssumption DEF Upload!Addr, Addr, Bytes

LEMMA UploadStores ==
  Upload!ProtocolInv /\ Upload!StoreInv /\ [Upload!Next]_(Upload!core)
    => Upload!ProtocolInv' /\ Upload!StoreInv'
<1> USE NoByteFresh, PayloadBytes, GeometryAssumption, ByteAssumption, AndAssumption, UploadAssumption
    DEF Upload!Addr, Upload!Erased, Upload!WRITE_ENABLE, Upload!READ_STATUS, Upload!PAGE_PROGRAM,
        Upload!BLOCK_ERASE, Addr, Erased, WRITE_ENABLE, READ_STATUS, PAGE_PROGRAM, BLOCK_ERASE
<1>1. Upload!StoreInv /\ Upload!ProtocolInv /\ [Upload!Next]_(Upload!core) => Upload!StoreInv'
  BY Upload!StoreStep
<1>2. Upload!ProtocolInv /\ [Upload!Next]_(Upload!core) => Upload!ProtocolInv'
  BY Upload!ProtocolStep
<1> QED BY <1>1, <1>2

LEMMA UploadFlushes ==
  Upload!ProtocolInv /\ Upload!StoreInv /\ Upload!Flushed
    => ~wip /\ \A a \in Addr : (\E s \in sent : s.blk = a.blk) => mem[a] = Image[a]
<1> USE NoByteFresh, PayloadBytes, GeometryAssumption, ByteAssumption, AndAssumption, UploadAssumption
    DEF Upload!Addr, Upload!Erased, Upload!WRITE_ENABLE, Upload!READ_STATUS, Upload!PAGE_PROGRAM,
        Upload!BLOCK_ERASE, Addr, Erased, WRITE_ENABLE, READ_STATUS, PAGE_PROGRAM, BLOCK_ERASE
<1> QED BY Upload!FlushStores

LEMMA UploadCommands == Upload!ProtocolInv => Upload!CommandReady
<1> USE NoByteFresh, PayloadBytes, GeometryAssumption, ByteAssumption, AndAssumption, UploadAssumption
    DEF Upload!Addr, Upload!Erased, Upload!WRITE_ENABLE, Upload!READ_STATUS, Upload!PAGE_PROGRAM,
        Upload!BLOCK_ERASE, Addr, Erased, WRITE_ENABLE, READ_STATUS, PAGE_PROGRAM, BLOCK_ERASE
<1> QED BY Upload!CommandsMeant

\* An address and its number say the same, and numbers that follow each other
\* keep the port's contract.
LEMMA Numbers ==
  ASSUME NEW a \in Addr
  PROVE  Num(a) \in 0 .. RamSize - 1 /\ Num(a) \in Nat /\ Cell(Num(a)) = a
<1> USE NoByteFresh, PayloadBytes, GeometryAssumption, ByteAssumption, AndAssumption, UploadAssumption
    DEF Upload!Addr, Upload!Erased, Upload!WRITE_ENABLE, Upload!READ_STATUS, Upload!PAGE_PROGRAM,
        Upload!BLOCK_ERASE, Addr, Erased, WRITE_ENABLE, READ_STATUS, PAGE_PROGRAM, BLOCK_ERASE
<1>1. Upload!Number(a) = Num(a) /\ Upload!Capacity = RamSize /\ Upload!Cell(Num(a)) = Cell(Num(a))
  BY DEF Upload!Number, Num, Upload!Capacity, RamSize, Upload!Cell, Cell
<1>2. /\ Upload!Cell(Upload!Number(a)) = a
      /\ Upload!Number(a) \in 0 .. Upload!Capacity - 1 /\ Upload!Number(a) \in Nat
  BY Upload!CellOfNumber, Upload!Places
<1> QED BY <1>1, <1>2

LEMMA CountedFollows ==
  ASSUME NEW last \in Addr, NEW a \in Addr, Num(a) = Num(last) + 1,
         \A s \in sent : s \in Addr /\ Num(s) <= Num(last)
  PROVE  Upload!MayFollow(last, a)
<1> USE NoByteFresh, PayloadBytes, GeometryAssumption, ByteAssumption, AndAssumption, UploadAssumption
    DEF Upload!Addr, Upload!Erased, Upload!WRITE_ENABLE, Upload!READ_STATUS, Upload!PAGE_PROGRAM,
        Upload!BLOCK_ERASE, Addr, Erased, WRITE_ENABLE, READ_STATUS, PAGE_PROGRAM, BLOCK_ERASE
<1>1. Upload!Number(a) = Num(a) /\ Upload!Number(last) = Num(last)
      /\ \A s \in sent : Upload!Number(s) = Num(s)
  BY DEF Upload!Number, Num
<1> QED BY <1>1, Upload!SequentialFollows

LEMMA ShiftsType == ASSUME DeviceTypeOK, NEW b \in Byte, ShiftIn(b) PROVE DeviceTypeOK'
<1> USE NoByteFresh, PayloadBytes, GeometryAssumption, ByteAssumption, AndAssumption, UploadAssumption
    DEF Upload!Addr, Upload!Erased, Upload!WRITE_ENABLE, Upload!READ_STATUS, Upload!PAGE_PROGRAM,
        Upload!BLOCK_ERASE, Addr, Erased, WRITE_ENABLE, READ_STATUS, PAGE_PROGRAM, BLOCK_ERASE
<1>1. Upload!DeviceTypeOK /\ Upload!ShiftIn(b)
  BY DEF Upload!DeviceTypeOK, Upload!ShiftIn, DeviceTypeOK, ShiftIn
<1>2. Upload!DeviceTypeOK' BY <1>1, Upload!ShiftInType
<1> QED BY <1>2 DEF Upload!DeviceTypeOK, DeviceTypeOK

LEMMA RisesType == ASSUME DeviceTypeOK, ChipSelectRise PROVE DeviceTypeOK'
<1> USE NoByteFresh, PayloadBytes, GeometryAssumption, ByteAssumption, AndAssumption, UploadAssumption
    DEF Upload!Addr, Upload!Erased, Upload!WRITE_ENABLE, Upload!READ_STATUS, Upload!PAGE_PROGRAM,
        Upload!BLOCK_ERASE, Addr, Erased, WRITE_ENABLE, READ_STATUS, PAGE_PROGRAM, BLOCK_ERASE
<1>1. Upload!DeviceTypeOK /\ Upload!ChipSelectRise
  BY DEF Upload!DeviceTypeOK, Upload!ChipSelectRise, DeviceTypeOK, ChipSelectRise, Erases, Programs,
     Upload!Erases, Upload!Programs, HasAddress, Upload!HasAddress, Command, Upload!Command,
     FrameBlock, Upload!FrameBlock, FramePage, Upload!FramePage, Programmed, Upload!Programmed,
     EmptyBuf, Upload!EmptyBuf
<1>2. Upload!DeviceTypeOK' BY <1>1, Upload!ChipSelectRiseType
<1> QED BY <1>2 DEF Upload!DeviceTypeOK, DeviceTypeOK

\* The FSM's actions are the same formulas there.
LEMMA UploadTakes == TakesByte <=> Upload!TakesByte
BY DEF TakesByte, Idle, WriteNextByte, Accept, device, PageOf,
       Upload!TakesByte, Upload!Idle, Upload!WriteNextByte, Upload!Accept, Upload!device, Upload!PageOf

LEMMA UploadShifts == ASSUME NEW b PROVE ShiftIn(b) <=> Upload!ShiftIn(b)
BY DEF ShiftIn, Upload!ShiftIn

LEMMA UploadRises == ChipSelectRise <=> Upload!ChipSelectRise
BY DEF Upload!ChipSelectRise, ChipSelectRise, Erases, Programs, Upload!Erases, Upload!Programs,
       HasAddress, Upload!HasAddress, Command, Upload!Command, FrameBlock, Upload!FrameBlock,
       FramePage, Upload!FramePage, Programmed, Upload!Programmed, EmptyBuf, Upload!EmptyBuf,
       Addr, Upload!Addr, Erased, Upload!Erased, PAGE_PROGRAM, Upload!PAGE_PROGRAM, BLOCK_ERASE,
       Upload!BLOCK_ERASE, WRITE_ENABLE, Upload!WRITE_ENABLE

LEMMA UploadWorks == WorksAlone <=> Upload!WorksAlone
<1> USE UploadRises DEF device, Upload!device, regs, Upload!regs, PageOf, Upload!PageOf
<1>1. Wren <=> Upload!Wren
  BY UploadShifts DEF Wren, Upload!Wren, WRITE_ENABLE, Upload!WRITE_ENABLE
<1>2. WrenRelease <=> Upload!WrenRelease BY DEF WrenRelease, Upload!WrenRelease
<1>3. EraseCmd <=> Upload!EraseCmd
  BY UploadShifts DEF EraseCmd, Upload!EraseCmd, SendOpcode, Upload!SendOpcode, BLOCK_ERASE,
     Upload!BLOCK_ERASE
<1>4. EraseAddr <=> Upload!EraseAddr BY UploadShifts DEF EraseAddr, Upload!EraseAddr
<1>5. EraseRelease <=> Upload!EraseRelease BY DEF EraseRelease, Upload!EraseRelease
<1>6. WriteCmd <=> Upload!WriteCmd
  BY UploadShifts DEF WriteCmd, Upload!WriteCmd, SendOpcode, Upload!SendOpcode, PAGE_PROGRAM,
     Upload!PAGE_PROGRAM
<1>7. WriteAddr <=> Upload!WriteAddr BY UploadShifts DEF WriteAddr, Upload!WriteAddr
<1>8. WriteData <=> Upload!WriteData BY UploadShifts DEF WriteData, Upload!WriteData
<1>9. WriteNextFlush <=> Upload!WriteNextFlush BY DEF WriteNextFlush, Upload!WriteNextFlush
<1>10. WriteRelease <=> Upload!WriteRelease BY DEF WriteRelease, Upload!WriteRelease
<1>11. PollCmd <=> Upload!PollCmd
  BY UploadShifts DEF PollCmd, Upload!PollCmd, READ_STATUS, Upload!READ_STATUS
<1>12. PollRead <=> Upload!PollRead BY DEF PollRead, Upload!PollRead
<1>13. PollCapture <=> Upload!PollCapture BY DEF PollCapture, Upload!PollCapture
<1>14. PollRelease <=> Upload!PollRelease BY DEF PollRelease, Upload!PollRelease
<1> QED BY <1>1, <1>2, <1>3, <1>4, <1>5, <1>6, <1>7, <1>8, <1>9, <1>10, <1>11, <1>12, <1>13, <1>14
        DEF WorksAlone, Upload!WorksAlone

LEMMA UploadFsmStep == FlashStep => [Upload!Next]_(Upload!core)
<1> SUFFICES ASSUME FlashStep PROVE [Upload!Next]_(Upload!core) OBVIOUS
<1>1. Image' = Image /\ flush' = flush /\ sent' = sent BY DEF FlashStep, Image
<1>2. CASE TakesByte /\ w' = [w EXCEPT !.valid = FALSE]
  BY <1>1, <1>2, UploadTakes DEF Upload!Next, Upload!FsmStep, Upload!TakeByte
<1>3. CASE WorksAlone /\ UNCHANGED w
  BY <1>1, <1>3, UploadWorks DEF Upload!Next, Upload!FsmStep, Upload!port
<1> QED BY <1>2, <1>3 DEF FlashStep

\* The sequential image keeps FlashUpload's contract.
LEMMA SequentialFollows ==
  ASSUME PortInv, OrderInv, ~ram_select, addr_latch \in Addr, NEW a \in Addr, Offer(a)
  PROVE  Upload!MayFollow(addr_latch, a) /\ OrderInv'
<1>1. /\ ~w.valid /\ a \notin sent /\ sent' = sent \cup {a} /\ IsFiniteSet(sent)
      /\ w' = [valid |-> TRUE, addr |-> a, data |-> Payload(a)]
      /\ Num(a) = Num(HeaderBase) + Cardinality(sent) /\ ram_select' = ram_select
  BY DEF Offer, OrderInv
<1>2. /\ Num(HeaderBase) \in Nat /\ Num(a) \in Nat /\ \A s \in Addr : Num(s) \in Nat
  BY Numbers, HeaderAssumption
<1>3. /\ IsFiniteSet(sent') /\ Cardinality(sent') = Cardinality(sent) + 1
      /\ Cardinality(sent) \in Nat
  BY <1>1, FS_AddElement, FS_CardinalityType
<1>4. Num(a) = Last + 1 /\ Last' = Num(a) /\ Last \in Int BY <1>1, <1>2, <1>3 DEF Last
<1>5. \A s \in sent : s \in Addr /\ Num(s) <= Last BY DEF OrderInv, PortInv
<1>6. Upload!MayFollow(addr_latch, a)
  <2>1. CASE sent = {} BY <2>1 DEF Upload!MayFollow
  <2>2. CASE sent # {}
    <3>1. Num(addr_latch) = Last BY <1>1, <2>2 DEF OrderInv
    <3> QED BY <1>4, <1>5, <3>1, CountedFollows
  <2> QED BY <2>1, <2>2
<1>7. OrderInv'
  <2>1. \A s \in Addr : s \in sent' => Num(s) <= Last'
    BY <1>1, <1>2, <1>3, <1>4, <1>5 DEF Last
  <2>2. Num(IF w'.valid THEN w'.addr ELSE addr_latch') = Last' BY <1>1, <1>4
  <2> QED BY <1>3, <2>1, <2>2 DEF OrderInv
<1> QED BY <1>6, <1>7

LEMMA PortStep ==
  ASSUME PortInv, [Next]_vars
  PROVE  PortInv'
<1> USE DEF PortInv
<1>1. CASE FlashStep BY <1>1 DEF FlashStep
<1>2. CASE RamStep BY <1>2 DEF RamStep
<1>3. CASE \E a \in Addr : Offer(a) BY <1>3, UploadAssumption DEF Offer
<1>4. CASE RaiseFlush BY <1>4 DEF RaiseFlush
<1>5. CASE NextUpload BY <1>5 DEF NextUpload, BetweenUploads
<1>6. CASE UNCHANGED <<w, flush, sent>> BY <1>6
<1>7. CASE HeaderStart \/ HeaderStep \/ HeaderEnd \/ DeviceStep \/ SelectBank \/ Clear \/ Boot
           \/ UNCHANGED vars
  BY <1>6, <1>7 DEF HeaderStart, HeaderStep, HeaderEnd, DeviceStep, SelectBank, Clear, Boot, port, vars
<1> QED BY <1>1, <1>2, <1>3, <1>4, <1>5, <1>7 DEF Next

\* Nobody else moves the FLASH writer, its port or its device.
FlashAlone == UNCHANGED <<flash_vars, w, flush, ram_select, sent>>

LEMMA OtherSteps ==
  ASSUME BusInv, [Next]_vars, ~ram_select
  PROVE  \/ FlashStep \/ DeviceStep \/ \E a \in Addr : Offer(a)
         \/ RaiseFlush \/ NextUpload \/ SelectBank \/ FlashAlone
<1> USE DEF FlashAlone, flash_vars
<1>1. CASE RamStep BY <1>1 DEF RamStep, BusInv
<1>2. CASE HeaderStart \/ HeaderStep BY <1>2 DEF HeaderStart, HeaderStep, ensuring
<1>3. CASE HeaderEnd BY <1>3 DEF HeaderEnd, BhDone, BusInv
<1>4. CASE Clear \/ Boot \/ UNCHANGED vars BY <1>4 DEF Clear, Boot, vars, port
<1> QED BY <1>1, <1>2, <1>3, <1>4 DEF Next

LEMMA OrderStep ==
  ASSUME PortInv, OrderInv, BusInv, KnownInv, RestInv, FlashInv, [Next]_vars
  PROVE  OrderInv'
<1>1. CASE \E a \in Addr : Offer(a)
  <2> PICK a \in Addr : Offer(a) BY <1>1
  <2>1. CASE ~ram_select
    <3>1. addr_latch \in Addr
      BY <2>1 DEF FlashInv, Upload!ProtocolInv, Upload!TypeOK, Upload!FsmTypeOK, Upload!Addr, Addr
    <3> QED BY <2>1, <3>1, SequentialFollows
  <2>2. CASE ram_select
    BY <2>2, FS_AddElement DEF Offer, OrderInv
  <2> QED BY <2>1, <2>2
<1>2. CASE NextUpload
  <2>1. sent' = {} BY <1>2 DEF NextUpload
  <2> QED BY <2>1, FS_EmptySet DEF OrderInv
<1>3. CASE SelectBank
  <2>1. sent' = sent /\ w' = w /\ addr_latch' = addr_latch /\ (ram_select' \/ sent = {})
    BY <1>3 DEF SelectBank, flash_vars, fsm, regs
  <2> QED BY <2>1 DEF OrderInv, Last
<1>4. ASSUME UNCHANGED <<sent, ram_select>>,
             ~ram_select => (IF w'.valid THEN w'.addr ELSE addr_latch') = (IF w.valid THEN w.addr ELSE addr_latch)
      PROVE  OrderInv'
  BY <1>4 DEF OrderInv, Last
<1>5. CASE FlashStep
  <2>1. CASE TakesByte /\ w' = [w EXCEPT !.valid = FALSE]
    <3>1. w.valid /\ addr_latch' = w.addr /\ ~w'.valid
      BY <2>1 DEF TakesByte, Idle, WriteNextByte, Accept, PortInv
    <3> QED BY <1>5, <3>1, <1>4 DEF FlashStep
  <2>2. CASE WorksAlone /\ w' = w
    <3>1. addr_latch' = addr_latch
      BY <2>2 DEF WorksAlone, Wren, WrenRelease, EraseCmd, EraseAddr, EraseRelease, WriteCmd, WriteAddr,
         SendOpcode, WriteData, WriteNextFlush, WriteRelease, PollCmd, PollRead, PollCapture, PollRelease,
         regs
    <3> QED BY <1>5, <2>2, <3>1, <1>4 DEF FlashStep
  <2> QED BY <1>5, <2>1, <2>2 DEF FlashStep
<1>6. CASE RamStep
  BY <1>4, <1>6 DEF RamStep, BusInv, flash_vars, fsm, regs
<1>7. CASE HeaderStart \/ HeaderStep \/ HeaderEnd \/ DeviceStep \/ Clear \/ Boot
           \/ UNCHANGED vars \/ RaiseFlush
  <2>1. UNCHANGED <<sent, ram_select, w, addr_latch>>
    BY <1>7 DEF HeaderStart, HeaderStep, HeaderEnd, DeviceStep, Clear, Boot, RaiseFlush, port, vars,
       flash_vars, fsm, regs
  <2> QED BY <2>1, <1>4
<1> QED BY <1>1, <1>2, <1>3, <1>5, <1>6, <1>7 DEF Next

\* What SelectBank finds when it gives the bus back to the FLASH.
LEMMA UploadRests ==
  ASSUME DeviceTypeOK, FsmTypeOK, PortInv, state = "IDLE", ~block_valid, qi = <<>>, frame = <<>>,
         buf = EmptyBuf, ~wip, sent = {}
  PROVE  Upload!ProtocolInv /\ Upload!StoreInv
<1>1. Image = [a \in Addr |-> Erased] /\ ~w.valid
  BY DEF Image, PortInv
<1>2. Image \in [Addr -> Byte] BY <1>1, ByteAssumption
<1>3. Upload!DeviceTypeOK /\ Upload!FsmTypeOK
  BY DEF DeviceTypeOK, FsmTypeOK, Upload!DeviceTypeOK, Upload!FsmTypeOK, Addr, Upload!Addr,
     States, Upload!States
<1>4. Upload!TypeOK BY <1>2, <1>3 DEF Upload!TypeOK, PortInv, Addr, Upload!Addr
<1>5. Upload!ProtocolInv
  BY <1>4 DEF Upload!ProtocolInv, Upload!FrameShape, Upload!NotBusy, Upload!LatchSet, Upload!OneReply,
     Upload!AtBoundary, Upload!Addressed, Upload!Enabled, Upload!PollStates
<1>6. Upload!Accepted = {} BY DEF Upload!Accepted
<1>7. ~Upload!LatchLive /\ ~Upload!EraseDue
  BY DEF Upload!LatchLive, Upload!EraseDue, Upload!Polling
<1>8. Upload!PortHolds BY <1>1 DEF Upload!PortHolds, Erased, Upload!Erased, Addr, Upload!Addr
<1>9. Upload!Closes BY <1>6 DEF Upload!Closes
<1>10. Upload!LatchHolds BY <1>7 DEF Upload!LatchHolds
<1>11. Upload!FrameAddressed /\ Upload!PageHolds
  BY DEF Upload!FrameAddressed, Upload!PageHolds, Upload!Addressed
<1>12. Upload!BufHolds
  BY DEF Upload!BufHolds, Upload!InOpen, Upload!Addressed, EmptyBuf, Upload!EmptyBuf, Erased, Upload!Erased
<1>13. Upload!MemHolds BY <1>6 DEF Upload!MemHolds, Upload!Touched
<1> QED BY <1>5, <1>8, <1>9, <1>10, <1>11, <1>12, <1>13 DEF Upload!StoreInv

LEMMA FlashInvStep ==
  ASSUME PortInv, OrderInv, BusInv, RestInv, HeaderInv, FlashInv, [Next]_vars
  PROVE  FlashInv'
<1>1. CASE ~ram_select
  <2>1. Upload!ProtocolInv /\ Upload!StoreInv BY <1>1 DEF FlashInv
  <2>2. ASSUME [Upload!Next]_(Upload!core) PROVE FlashInv'
    BY <2>1, <2>2, UploadStores DEF FlashInv
  <2> USE DEF Upload!Next, Upload!core, Upload!port, Upload!device, Upload!fsm, Upload!regs,
              flash_vars, fsm, regs, device
  <2>3. CASE FlashStep BY <2>2, <2>3, UploadFsmStep
  <2>4. CASE DeviceStep
    <3>1. Image' = Image BY <2>4 DEF DeviceStep, port, Image
    <3> QED BY <2>2, <2>4, <3>1 DEF DeviceStep, WriteEnds, port, Upload!DeviceStep, Upload!WriteEnds
  <2>5. CASE \E a \in Addr : Offer(a)
    <3> PICK a \in Addr : Offer(a) BY <2>5
    <3>1. addr_latch \in Addr
      BY <2>1 DEF Upload!ProtocolInv, Upload!TypeOK, Upload!FsmTypeOK, Upload!Addr, Addr
    <3>2. Upload!MayFollow(addr_latch, a) BY <1>1, <3>1, SequentialFollows
    <3>3. Image' = [Image EXCEPT ![a] = Payload(a)] BY DEF Offer, Image
    <3>4. Upload!Put(addr_latch, a, Payload(a)) BY <3>2, <3>3 DEF Offer, Upload!Put
    <3>5. Upload!Offer(a, Payload(a)) BY <3>4 DEF Offer, Upload!Offer
    <3>6. Upload!WriterStep BY <3>5 DEF Upload!WriterStep, Bytes, Addr, Upload!Addr
    <3> QED BY <2>2, <3>6
  <2>6. CASE RaiseFlush
    <3>1. Image' = Image BY <2>6 DEF RaiseFlush, Image
    <3> QED BY <2>2, <2>6, <3>1 DEF RaiseFlush, Upload!WriterStep, Upload!RaiseFlush
  <2>7. CASE NextUpload
    <3>1. Image' = Upload!Blank
      BY <2>7 DEF NextUpload, Image, Upload!Blank, Upload!Addr, Addr, Erased, Upload!Erased
    <3>2. Upload!NextSession
      BY <2>7, <3>1 DEF NextUpload, BetweenUploads, Upload!NextSession, Upload!Flushed
    <3> QED BY <2>2, <3>2 DEF Upload!WriterStep
  <2>8. CASE SelectBank BY <1>1, <2>8 DEF SelectBank, FlashInv
  <2>9. CASE FlashAlone
    <3>1. Image' = Image BY <2>9 DEF FlashAlone, Image
    <3> QED BY <2>2, <2>9, <3>1 DEF FlashAlone
  <2> QED BY <1>1, <2>3, <2>4, <2>5, <2>6, <2>7, <2>8, <2>9, OtherSteps
<1>2. CASE ram_select /\ ~ram_select'
  <2>1. SelectBank
    BY <1>2 DEF Next, FlashStep, RamStep, HeaderStart, HeaderStep, HeaderEnd, DeviceStep, Offer, RaiseFlush,
       NextUpload, Clear, Boot, port, vars
  <2>2. bh = "IDLE" /\ sent = {} /\ state = "IDLE"
    BY <1>2, <2>1 DEF SelectBank, BetweenUploads, BusInv, ensuring
  <2>3. frame = <<>> /\ buf = EmptyBuf /\ ~wip
    BY <1>2, <2>2 DEF HeaderInv, HeaderFrame, HeaderStatus, BetweenFrames, Polls
  <2>4. Upload!ProtocolInv /\ Upload!StoreInv
    BY <1>2, <2>2, <2>3, UploadRests DEF RestInv
  <2>5. UNCHANGED Upload!core
    BY <2>1 DEF SelectBank, flash_vars, Upload!core, Upload!port, Upload!device, Upload!fsm, Upload!regs,
       fsm, regs, device, Image
  <2> QED BY <2>4, <2>5, UploadStores DEF FlashInv
<1>3. CASE ram_select' BY <1>3 DEF FlashInv
<1> QED BY <1>1, <1>2, <1>3

-----------------------------------------------------------------------------
(* BootHeader's frames, as the device sees them. *)

HeaderRun == HeaderRegs /\ HeaderFrame /\ HeaderStatus /\ HeaderData

LEMMA FirstOctet ==
  ASSUME frame = <<>>, NEW b, ShiftIn(b)
  PROVE  frame' = <<b>> /\ UNCHANGED <<mem, wel, wip, buf>>
BY DEF ShiftIn

LEMMA AddressOctet ==
  ASSUME frame \in Seq(Byte), NEW n \in 0 .. 2, Len(frame) = n + 1, NEW b \in Byte, ShiftIn(b)
  PROVE  /\ UNCHANGED <<mem, wel, wip, buf>>
         /\ Len(frame') = n + 2 /\ frame'[n + 2] = b /\ frame'[1] = frame[1]
         /\ n > 0 => frame'[2] = frame[2]
         /\ n > 1 => frame'[3] = frame[3]
         /\ n = 2 => col' = b % PageSize
<1>1. Len(frame) < 4 BY SMT
<1>2. frame' = Append(frame, b) /\ UNCHANGED <<mem, wel, wip, buf>> /\ (n = 2 => col' = b % PageSize)
  BY <1>1 DEF ShiftIn
<1> QED BY <1>2

\* A frame of one octet, or of a read, changes nothing; the latch's own sets it.
LEMMA PlainRise ==
  ASSUME HeaderRise,
         \/ Len(frame) = 1 /\ frame[1] \in {WRITE_ENABLE, READ_STATUS}
         \/ Len(frame) = 4 /\ frame[1] = READ
  PROVE  /\ frame' = <<>> /\ buf' = EmptyBuf /\ UNCHANGED <<mem>>
         /\ (wip \in BOOLEAN => wip' = wip)
         /\ (Len(frame) = 1 /\ frame[1] = WRITE_ENABLE => wel')
<1> USE DEF READ, WRITE_ENABLE, READ_STATUS, PAGE_PROGRAM, BLOCK_ERASE, SECTOR_ERASE
<1>1. ~(Command(SECTOR_ERASE) /\ wel /\ HasAddress) /\ ~Erases /\ ~Programs
  BY DEF Command, HasAddress, Erases, Programs
<1>2. ChipSelectRise BY <1>1 DEF HeaderRise
<1>3. Len(frame) = 1 => frame # <<>> OBVIOUS
<1> QED BY <1>1, <1>2, <1>3 DEF ChipSelectRise, Command

LEMMA CellsKept == ASSUME mem' = mem PROVE (Blanked' <=> Blanked) /\ (HeaderPresent' <=> HeaderPresent)
BY DEF Blanked, HeaderPresent

LEMMA HeaderBytes ==
  /\ HeaderBase.blk \in Byte /\ HeaderBase.pg \in Byte /\ HeaderBase.off = 0 /\ HeaderBase.off \in Byte
  /\ N \in 1 .. PageSize /\ \A k \in 1 .. N : Header[k] \in Byte
  /\ \A k \in 1 .. N : /\ HeaderCell(k) \in Addr /\ HeaderCell(k).blk = HeaderBase.blk
                       /\ HeaderCell(k).pg = HeaderBase.pg /\ HeaderCell(k).off = k - 1
  /\ PageSize \in Nat \ {0} /\ 0 % PageSize = 0 /\ N \in Nat
<1> USE HeaderAssumption, GeometryAssumption, ByteAssumption
<1>1. N \in 1 .. PageSize /\ \A k \in 1 .. N : Header[k] \in Byte BY DEF N
<1>2. HeaderBase.blk \in Byte /\ HeaderBase.pg \in Byte /\ HeaderBase.off \in Byte BY DEF Addr
<1>3. \A k \in 1 .. N : k - 1 \in 0 .. PageSize - 1 BY <1>1
<1>4. \A k \in 1 .. N : /\ HeaderCell(k) \in Addr /\ HeaderCell(k).blk = HeaderBase.blk
                        /\ HeaderCell(k).pg = HeaderBase.pg /\ HeaderCell(k).off = k - 1
  BY <1>3 DEF HeaderCell, Addr
<1> QED BY <1>1, <1>2, <1>4

LEMMA HeaderAddressed ==
  ASSUME frame[2] = HeaderBase.blk, frame[3] = HeaderBase.pg
  PROVE  FrameBlock = HeaderBase.blk /\ FramePage = HeaderBase.pg
<1>1. HeaderBase.blk \in 0 .. Blocks - 1 /\ HeaderBase.pg \in 0 .. Pages - 1
  BY HeaderAssumption DEF Addr
<1> QED BY <1>1, GeometryAssumption DEF FrameBlock, FramePage

LEMMA OpcodeBytes ==
  {READ, SECTOR_ERASE, WRITE_ENABLE, READ_STATUS, PAGE_PROGRAM, BLOCK_ERASE, Erased} \subseteq Byte
BY HeaderAssumption, ByteAssumption

\* The opcode of a frame.
LEMMA BhSendStep ==
  ASSUME HeaderRun, DeviceTypeOK, BhSend
  PROVE  HeaderRun' /\ DeviceTypeOK'
<1>1. PICK b, next :
        /\ b \in Byte /\ ShiftIn(b) /\ bh' = next
        /\ \/ bh = "READ_CMD" /\ b = READ /\ next = "READ_ADDR"
           \/ bh = "WREN_E" /\ b = WRITE_ENABLE /\ next = "WREN_E_REL"
           \/ bh = "ERASE_CMD" /\ b = SECTOR_ERASE /\ next = "ERASE_ADDR"
           \/ bh = "WREN_P" /\ b = WRITE_ENABLE /\ next = "WREN_P_REL"
           \/ bh = "PP_CMD" /\ b = PAGE_PROGRAM /\ next = "PP_ADDR"
           \/ bh = "POLL_CMD" /\ b = READ_STATUS /\ next = "POLL_GET"
  BY OpcodeBytes DEF BhSend, BhSends
<1>2. /\ bh_count' = 0 /\ (bh = "PP_CMD" => idx' = 0) /\ UNCHANGED <<mismatch, poll_ret, bh_status, bh_qi>>
  BY DEF BhSend
<1>3. frame = <<>> /\ buf = EmptyBuf BY <1>1 DEF HeaderRun, HeaderFrame, BetweenFrames
<1>4. frame' = <<b>> /\ UNCHANGED <<mem, wel, wip, buf>> BY <1>1, <1>3, FirstOctet
<1>5. HeaderRegs' BY <1>1, <1>2 DEF HeaderRun, HeaderRegs
<1>6. HeaderFrame'
  BY <1>1, <1>2, <1>4 DEF HeaderFrame, BetweenFrames, Polls, Addressing, WithAddress
<1>7. HeaderStatus'
  BY <1>1, <1>2, <1>4 DEF HeaderRun, HeaderStatus, BetweenFrames, Polls, Addressing, WithAddress, NeedsLatch
<1>8. HeaderData'
  BY <1>1, <1>2, <1>3, <1>4, CellsKept DEF HeaderRun, HeaderData, Polls, Programs1
<1>9. DeviceTypeOK' BY <1>1, ShiftsType
<1> QED BY <1>5, <1>6, <1>7, <1>8, <1>9 DEF HeaderRun

\* An octet of the address.
LEMMA BhAddrStep ==
  ASSUME HeaderRun, DeviceTypeOK, BhAddr
  PROVE  HeaderRun' /\ DeviceTypeOK'
<1>1. PICK b \in Byte :
        /\ ShiftIn(b)
        /\ bh_count = 0 => b = HeaderBase.blk
        /\ bh_count = 1 => b = HeaderBase.pg
        /\ bh_count = 2 => b = HeaderBase.off
  <2>1. bh_count \in 0 .. 2 BY DEF BhAddr, BhAddrs, HeaderRun, HeaderFrame, Addressing
  <2> QED BY <2>1, HeaderBytes DEF BhAddr
<1>2. /\ bh \in {"READ_ADDR", "ERASE_ADDR", "PP_ADDR"}
      /\ bh_count \in 0 .. 2 /\ Len(frame) = bh_count + 1 /\ frame[1] = Addressing[bh]
      /\ bh_count > 0 => frame[2] = HeaderBase.blk
      /\ bh_count > 1 => frame[3] = HeaderBase.pg
  BY DEF BhAddr, BhAddrs, HeaderRun, HeaderFrame, Addressing
<1>3. UNCHANGED <<mismatch, poll_ret, bh_status, bh_qi>> BY DEF BhAddr
<1>4. /\ UNCHANGED <<mem, wel, wip, buf>>
      /\ Len(frame') = bh_count + 2 /\ frame'[bh_count + 2] = b /\ frame'[1] = frame[1]
      /\ bh_count > 0 => frame'[2] = frame[2]
      /\ bh_count > 1 => frame'[3] = frame[3]
      /\ bh_count = 2 => col' = b % PageSize
  BY <1>1, <1>2, AddressOctet DEF DeviceTypeOK
<1>5. HeaderRegs' BY <1>2, <1>3 DEF BhAddr, BhAddrs, HeaderRun, HeaderRegs
<1>6. DeviceTypeOK' BY <1>1, ShiftsType
<1>7. CASE bh_count # 2
  <2>1. bh_count' = bh_count + 1 /\ bh' = bh /\ idx' = idx BY <1>7 DEF BhAddr
  <2>2. HeaderFrame'
    <3>1. /\ bh_count' \in 1 .. 2 /\ Len(frame') = bh_count' + 1 /\ frame'[1] = Addressing[bh']
          /\ frame'[2] = HeaderBase.blk /\ (bh_count' > 1 => frame'[3] = HeaderBase.pg)
      BY <1>1, <1>2, <1>4, <1>7, <2>1
    <3> QED BY <1>2, <2>1, <3>1 DEF HeaderFrame, BetweenFrames, Polls, Addressing, WithAddress
  <2>3. HeaderStatus' BY <1>2, <1>3, <1>4, <2>1 DEF HeaderRun, HeaderStatus, BetweenFrames, Polls, Addressing, WithAddress, NeedsLatch
  <2>4. HeaderData' BY <1>2, <1>3, <1>4, <2>1, CellsKept DEF HeaderRun, HeaderData, Polls, Programs1
  <2> QED BY <1>5, <1>6, <2>2, <2>3, <2>4 DEF HeaderRun
<1>8. CASE bh_count = 2
  <2>1. /\ \/ bh = "READ_ADDR" /\ bh' = "READ_GET" /\ idx' = 0
           \/ bh = "ERASE_ADDR" /\ bh' = "ERASE_REL" /\ idx' = idx
           \/ bh = "PP_ADDR" /\ bh' = "PP_DATA" /\ idx' = idx
    BY <1>2, <1>8 DEF BhAddr, BhAddrs
  <2>2. col' = 0 BY <1>1, <1>4, <1>8, HeaderBytes
  <2>3. HeaderFrame'
    <3>1. /\ Len(frame') = 4 /\ frame'[1] = Addressing[bh]
          /\ frame'[2] = HeaderBase.blk /\ frame'[3] = HeaderBase.pg
      BY <1>1, <1>2, <1>4, <1>8
    <3> QED BY <2>1, <3>1 DEF HeaderFrame, BetweenFrames, Polls, Addressing, WithAddress
  <2>4. HeaderStatus'
    BY <1>3, <1>4, <2>1 DEF HeaderRun, HeaderStatus, BetweenFrames, Polls, Addressing, WithAddress, NeedsLatch
  <2>5. HeaderData'
    <3>1. CASE bh = "READ_ADDR"
      BY <1>3, <1>4, <2>1, <2>2, <3>1, HeaderBytes DEF HeaderRun, HeaderRegs, HeaderData, Polls, Programs1
    <3>2. CASE bh = "ERASE_ADDR"
      BY <1>3, <1>4, <2>1, <2>2, <3>2 DEF HeaderRun, HeaderRegs, HeaderData, Polls, Programs1
    <3>3. CASE bh = "PP_ADDR"
      <4>1. idx = 0 /\ buf = EmptyBuf /\ Blanked BY <3>3 DEF HeaderRun, HeaderData, Programs1
      <4>2. \A o \in 0 .. PageSize - 1 : buf'[o] = IF o < idx' THEN Header[o + 1] ELSE Erased
        BY <1>4, <2>1, <3>3, <4>1 DEF EmptyBuf
      <4> QED BY <1>3, <1>4, <2>1, <2>2, <3>3, <4>1, <4>2, CellsKept, HeaderBytes
              DEF HeaderRun, HeaderRegs, HeaderData, Polls, Programs1
    <3> QED BY <1>2, <3>1, <3>2, <3>3
  <2> QED BY <1>5, <1>6, <2>3, <2>4, <2>5 DEF HeaderRun
<1> QED BY <1>2, <1>7, <1>8

\* An octet is asked for: of the header, or of the status register.
LEMMA BhGetStep ==
  ASSUME HeaderRun, DeviceTypeOK, BhGet
  PROVE  HeaderRun' /\ DeviceTypeOK'
<1>1. UNCHANGED <<mem, wel, wip, frame, buf, idx, bh_count, mismatch, poll_ret, bh_status>>
  BY DEF BhGet, ReadOut, device
<1>2. CASE bh = "READ_GET"
  <2>1. bh' = "READ_CAP" /\ ReadOut BY <1>2 DEF BhGet
  <2>2. /\ idx \in 0 .. N - 1 /\ col = idx /\ frame[2] = HeaderBase.blk /\ frame[3] = HeaderBase.pg
    BY <1>2 DEF HeaderRun, HeaderFrame, HeaderData, WithAddress
  <2>3. FrameBlock = HeaderBase.blk /\ FramePage = HeaderBase.pg
    BY <2>2, HeaderAddressed
  <2>4. [blk |-> FrameBlock, pg |-> FramePage, off |-> col] = HeaderCell(idx + 1)
    BY <2>2, <2>3, HeaderAssumption DEF HeaderCell, Addr
  <2>5. bh_qi' = <<mem[HeaderCell(idx + 1)]>> BY <2>1, <2>4 DEF ReadOut
  <2>6. col' = (idx + 1) % PageSize BY <2>1, <2>2 DEF ReadOut
  <2>7. HeaderRegs' BY <1>1, <2>1 DEF HeaderRun, HeaderRegs
  <2>8. HeaderFrame'
    BY <1>1, <1>2, <2>1 DEF HeaderRun, HeaderFrame, BetweenFrames, Polls, Addressing, WithAddress
  <2>9. HeaderStatus'
    BY <1>1, <1>2, <2>1, <2>5 DEF HeaderRun, HeaderStatus, BetweenFrames, Polls, Addressing, WithAddress, NeedsLatch
  <2>10. HeaderData'
    BY <1>1, <1>2, <2>1, <2>2, <2>6 DEF HeaderRun, HeaderData, Polls, Programs1
  <2>11. DeviceTypeOK'
    <3>1. col' \in 0 .. PageSize - 1
      <4>1. idx + 1 \in Nat BY <2>2, HeaderBytes
      <4> QED BY <2>6, <4>1, GeometryAssumption
    <3> QED BY <1>1, <3>1 DEF DeviceTypeOK
  <2> QED BY <2>7, <2>8, <2>9, <2>10, <2>11 DEF HeaderRun
<1>3. CASE bh = "POLL_GET"
  <2>1. bh_qi' = <<wip>> /\ bh' = "POLL_CAP" /\ col' = col BY <1>3 DEF BhGet, device
  <2>2. DeviceTypeOK' BY <1>1, <2>1 DEF DeviceTypeOK
  <2>3. HeaderRegs' BY <1>1, <2>1 DEF HeaderRun, HeaderRegs
  <2>4. HeaderFrame'
    BY <1>1, <1>3, <2>1 DEF HeaderRun, HeaderFrame, BetweenFrames, Polls, Addressing, WithAddress
  <2>5. HeaderStatus'
    BY <1>1, <1>3, <2>1 DEF HeaderRun, HeaderStatus, BetweenFrames, Polls, Addressing, WithAddress, NeedsLatch, DeviceTypeOK
  <2>6. HeaderData'
    BY <1>1, <1>3, <2>1, CellsKept DEF HeaderRun, HeaderData, Polls, Programs1
  <2> QED BY <2>2, <2>3, <2>4, <2>5, <2>6 DEF HeaderRun
<1> QED BY <1>2, <1>3 DEF BhGet

\* It arrives.
LEMMA BhCaptureStep ==
  ASSUME HeaderRun, DeviceTypeOK, BhCapture
  PROVE  HeaderRun' /\ DeviceTypeOK'
<1>1. UNCHANGED <<mem, wel, wip, frame, buf, col, bh_count, poll_ret>> /\ bh_qi' = <<>>
  BY DEF BhCapture, device
<1>2. DeviceTypeOK' BY <1>1 DEF DeviceTypeOK
<1>3. CASE bh = "READ_CAP"
  <2>1. /\ mismatch' = Mismatch /\ bh_status' = bh_status
        /\ IF idx = N - 1 THEN bh' = "READ_DONE" /\ idx' = idx
                          ELSE idx' = idx + 1 /\ bh' = "READ_GET"
    BY <1>3 DEF BhCapture
  <2>2. /\ idx \in 0 .. N - 1 /\ col = (idx + 1) % PageSize /\ N \in 1 .. PageSize
        /\ N \in Nat /\ PageSize \in Nat \ {0}
        /\ bh_qi = <<mem[HeaderCell(idx + 1)]>>
        /\ mismatch \/ \A k \in 1 .. idx : mem[HeaderCell(k)] = Header[k]
    BY <1>3, HeaderBytes DEF HeaderRun, HeaderStatus, HeaderData
  <2>3. mismatch' \in BOOLEAN /\ (mismatch' \/ \A k \in 1 .. idx + 1 : mem'[HeaderCell(k)] = Header[k])
    <3>1. mismatch' \in BOOLEAN BY <2>1 DEF Mismatch, HeaderRun, HeaderRegs
    <3>2. ASSUME ~mismatch' PROVE \A k \in 1 .. idx + 1 : mem'[HeaderCell(k)] = Header[k]
      <4>1. ~mismatch /\ mem[HeaderCell(idx + 1)] = Header[idx + 1] BY <2>1, <2>2, <3>2 DEF Mismatch
      <4> QED BY <1>1, <2>2, <4>1
    <3> QED BY <3>1, <3>2
  <2>4. HeaderRegs' BY <1>1, <2>1, <2>3 DEF HeaderRun, HeaderRegs
  <2>5. HeaderFrame'
    BY <1>1, <1>3, <2>1 DEF HeaderRun, HeaderFrame, BetweenFrames, Polls, Addressing, WithAddress
  <2>6. HeaderStatus'
    BY <1>1, <1>3, <2>1 DEF HeaderRun, HeaderStatus, BetweenFrames, Polls, Addressing, WithAddress, NeedsLatch
  <2>7. HeaderData'
    <3>1. CASE idx = N - 1
      <4>1. mismatch' \/ HeaderPresent'
        <5>1. idx + 1 = N BY <2>2, <3>1
        <5> QED BY <2>3, <5>1 DEF HeaderPresent, HeaderCell
      <4> QED BY <2>1, <3>1, <4>1 DEF HeaderData, Polls, Programs1
    <3>2. CASE idx # N - 1
      <4>1. idx' \in 0 .. N - 1 /\ col' = idx' /\ bh' = "READ_GET" /\ idx' = idx + 1
        BY <1>1, <2>1, <2>2, <3>2
      <4> QED BY <2>3, <4>1 DEF HeaderData, Polls, Programs1
    <3> QED BY <3>1, <3>2
  <2> QED BY <1>2, <2>4, <2>5, <2>6, <2>7 DEF HeaderRun
<1>4. CASE bh = "POLL_CAP"
  <2>1. bh_status' = bh_qi[1] /\ bh' = "POLL_REL" /\ mismatch' = mismatch /\ idx' = idx
    BY <1>4 DEF BhCapture
  <2>2. PICK b \in BOOLEAN : bh_qi = <<b>> /\ (~b => ~wip) BY <1>4 DEF HeaderRun, HeaderStatus
  <2>3. HeaderRegs' BY <1>1, <2>1, <2>2 DEF HeaderRun, HeaderRegs
  <2>4. HeaderFrame'
    BY <1>1, <1>4, <2>1 DEF HeaderRun, HeaderFrame, BetweenFrames, Polls, Addressing, WithAddress
  <2>5. HeaderStatus'
    BY <1>1, <1>4, <2>1, <2>2 DEF HeaderRun, HeaderStatus, BetweenFrames, Polls, Addressing, WithAddress, NeedsLatch
  <2>6. HeaderData' BY <1>1, <1>4, <2>1, CellsKept DEF HeaderRun, HeaderData, Polls, Programs1
  <2> QED BY <1>2, <2>3, <2>4, <2>5, <2>6 DEF HeaderRun
<1> QED BY <1>3, <1>4 DEF BhCapture

\* An octet of the header into the page buffer.
LEMMA BhDataStep ==
  ASSUME HeaderRun, DeviceTypeOK, BhData
  PROVE  HeaderRun' /\ DeviceTypeOK'
<1>1. /\ bh = "PP_DATA" /\ ShiftIn(Header[idx + 1])
      /\ IF idx = N - 1 THEN bh' = "PP_REL" /\ idx' = idx ELSE idx' = idx + 1 /\ bh' = bh
      /\ UNCHANGED <<bh_count, mismatch, poll_ret, bh_status, bh_qi>>
  BY DEF BhData
<1>2. /\ Len(frame) = 4 /\ idx \in 0 .. N - 1 /\ col = idx /\ Blanked /\ N \in 1 .. PageSize
      /\ N \in Nat /\ PageSize \in Nat \ {0}
      /\ \A o \in 0 .. PageSize - 1 : buf[o] = IF o < idx THEN Header[o + 1] ELSE Erased
      /\ Header[idx + 1] \in Byte
  <2>1. /\ Len(frame) = 4 /\ idx \in 0 .. N - 1 /\ col = idx /\ Blanked
        /\ \A o \in 0 .. PageSize - 1 : buf[o] = IF o < idx THEN Header[o + 1] ELSE Erased
    BY <1>1 DEF HeaderRun, HeaderFrame, HeaderData, WithAddress, Programs1
  <2>2. N \in 1 .. PageSize /\ N \in Nat /\ PageSize \in Nat \ {0} BY HeaderBytes
  <2>3. idx + 1 \in 1 .. N BY <2>1, <2>2
  <2> QED BY <2>1, <2>2, <2>3, HeaderBytes
<1>3. /\ buf' = [buf EXCEPT ![col] = BitAnd(@, Header[idx + 1])] /\ col' = (col + 1) % PageSize
      /\ UNCHANGED <<frame, mem, wel, wip>>
  BY <1>1, <1>2 DEF ShiftIn
<1>4. DeviceTypeOK' BY <1>1, <1>2, ShiftsType
<1>5. \A o \in 0 .. PageSize - 1 : buf'[o] = IF o < idx + 1 THEN Header[o + 1] ELSE Erased
  <2>1. buf \in [0 .. PageSize - 1 -> Byte] BY DEF DeviceTypeOK
  <2>2. buf[idx] = Erased BY <1>2
  <2>3. BitAnd(Erased, Header[idx + 1]) = Header[idx + 1] BY <1>2, AndAssumption
  <2>4. buf'[idx] = Header[idx + 1] BY <1>2, <1>3, <2>1, <2>2, <2>3
  <2>5. \A o \in (0 .. PageSize - 1) \ {idx} : buf'[o] = buf[o] BY <1>2, <1>3, <2>1
  <2> QED BY <1>2, <2>4, <2>5
<1>6. HeaderRegs' BY <1>1 DEF HeaderRun, HeaderRegs
<1>7. HeaderFrame'
  BY <1>1, <1>3 DEF HeaderRun, HeaderFrame, BetweenFrames, Polls, Addressing, WithAddress
<1>8. HeaderStatus'
  BY <1>1, <1>3 DEF HeaderRun, HeaderStatus, BetweenFrames, Polls, Addressing, WithAddress, NeedsLatch
<1>9. HeaderData'
  <2>1. CASE idx = N - 1
    BY <1>1, <1>2, <1>3, <1>5, <2>1, CellsKept DEF HeaderData, Polls, Programs1
  <2>2. CASE idx # N - 1
    <3>1. idx' \in 0 .. N - 1 /\ col' = idx' /\ bh' = "PP_DATA" /\ idx' = idx + 1
      BY <1>1, <1>2, <1>3, <2>2
    <3> QED BY <1>2, <1>3, <1>5, <3>1, CellsKept DEF HeaderData, Polls, Programs1
  <2> QED BY <2>1, <2>2
<1> QED BY <1>4, <1>6, <1>7, <1>8, <1>9 DEF HeaderRun

\* The frame is executed.
LEMMA BhReleaseStep ==
  ASSUME HeaderRun, DeviceTypeOK, BhRelease
  PROVE  HeaderRun' /\ DeviceTypeOK'
<1> USE DEF BhRelease, BhReleases
<1>1. /\ bh' = AfterRelease /\ UNCHANGED <<idx, mismatch, bh_status, bh_qi>> /\ HeaderRise
      /\ poll_ret' = CASE bh = "ERASE_REL" -> "PROGRAM" [] bh = "PP_REL" -> "DONE" [] OTHER -> poll_ret
  OBVIOUS
<1>2. frame' = <<>> /\ buf' = EmptyBuf BY DEF HeaderRise, ChipSelectRise
<1>3. HeaderRegs'
  <2>1. bh' # "IDLE" BY <1>1 DEF AfterRelease
  <2> QED BY <1>1, <2>1 DEF HeaderRun, HeaderRegs
<1>4. HeaderFrame'
  <2>1. bh' \in BetweenFrames BY <1>1 DEF AfterRelease, BetweenFrames
  <2> QED BY <1>2, <2>1 DEF HeaderFrame, BetweenFrames, Polls, Addressing, WithAddress
<1>5. CASE bh \in {"READ_DONE", "WREN_E_REL", "WREN_P_REL", "POLL_REL"}
  <2>1. \/ Len(frame) = 1 /\ frame[1] \in {WRITE_ENABLE, READ_STATUS}
        \/ Len(frame) = 4 /\ frame[1] = READ
    BY <1>5 DEF HeaderRun, HeaderFrame, Polls, WithAddress
  <2>2. /\ UNCHANGED <<mem, wip>> /\ (Len(frame) = 1 /\ frame[1] = WRITE_ENABLE => wel')
    BY <1>1, <2>1, PlainRise DEF DeviceTypeOK
  <2>3. bh \in {"WREN_E_REL", "WREN_P_REL"} => wel'
    BY <2>2 DEF HeaderRun, HeaderFrame
  <2>4. bh # "POLL_REL" \/ ~bh_status => ~wip'
    BY <1>5, <2>2 DEF HeaderRun, HeaderStatus, Polls
  <2>5. DeviceTypeOK'
    <3>1. ~(Command(SECTOR_ERASE) /\ wel /\ HasAddress)
      BY <2>1 DEF Command, HasAddress, SECTOR_ERASE, READ, WRITE_ENABLE, READ_STATUS
    <3> QED BY <1>1, <3>1, RisesType DEF HeaderRise
  <2>6. /\ bh' = "DONE" => HeaderPresent
        /\ bh' = "ERASE_CMD" => bh = "WREN_E_REL"
        /\ bh' = "PP_CMD" => bh = "WREN_P_REL"
        /\ bh' \in {"WREN_P", "PP_CMD"} => Blanked
        /\ bh' = "POLL_CMD" => IF poll_ret = "PROGRAM" THEN Blanked ELSE HeaderPresent
        /\ bh' # "POLL_CMD" => bh # "POLL_REL" \/ ~bh_status
        /\ bh' \in {"DONE", "WREN_E", "ERASE_CMD", "PP_CMD", "WREN_P", "POLL_CMD"}
        /\ poll_ret' = poll_ret /\ bh_qi = <<>>
    <3>1. CASE bh = "READ_DONE"
      BY <1>1, <3>1 DEF AfterRelease, HeaderRun, HeaderRegs, HeaderData, HeaderStatus
    <3>2. CASE bh = "WREN_E_REL"
      BY <1>1, <3>2 DEF AfterRelease, HeaderRun, HeaderStatus
    <3>3. CASE bh = "WREN_P_REL"
      BY <1>1, <3>3 DEF AfterRelease, HeaderRun, HeaderData, HeaderStatus, Programs1
    <3>4. CASE bh = "POLL_REL"
      <4>1. /\ bh_status \in BOOLEAN /\ (IF poll_ret = "PROGRAM" THEN Blanked ELSE HeaderPresent)
            /\ bh_qi = <<>>
        BY <3>4 DEF HeaderRun, HeaderRegs, HeaderData, HeaderStatus, Polls
      <4> QED BY <1>1, <3>4, <4>1 DEF AfterRelease
    <3> QED BY <1>5, <3>1, <3>2, <3>3, <3>4
  <2>7. HeaderStatus'
    <3>1. bh' = "POLL_CMD" \/ ~wip' BY <2>4, <2>6
    <3>2. bh' \in NeedsLatch => wel' BY <2>3, <2>6 DEF NeedsLatch
    <3> QED BY <1>1, <2>6, <3>1, <3>2 DEF HeaderStatus, BetweenFrames, Polls
  <2>8. HeaderData'
    BY <1>1, <2>2, <2>6, CellsKept DEF HeaderData, Polls, Programs1
  <2> QED BY <1>3, <1>4, <2>5, <2>7, <2>8 DEF HeaderRun
<1>6. CASE bh = "ERASE_REL"
  <2>1. /\ wel /\ Len(frame) = 4 /\ frame[1] = SECTOR_ERASE /\ bh_qi = <<>>
        /\ frame[2] = HeaderBase.blk /\ frame[3] = HeaderBase.pg
    BY <1>6 DEF HeaderRun, HeaderFrame, HeaderStatus, WithAddress, NeedsLatch
  <2>2. FrameBlock = HeaderBase.blk /\ FramePage = HeaderBase.pg
    BY <2>1, HeaderAddressed
  <2>3. Command(SECTOR_ERASE) /\ wel /\ HasAddress BY <2>1 DEF Command, HasAddress
  <2>4. /\ mem' = [a \in Addr |-> IF InSector(a) THEN Erased ELSE mem[a]]
        /\ wel' = FALSE /\ wip' = TRUE /\ col' = 0
    BY <1>1, <2>3 DEF HeaderRise
  <2>5. Blanked'
    <3>1. \A k \in 1 .. N : HeaderCell(k) \in Addr /\ InSector(HeaderCell(k))
      BY <2>2, HeaderBytes DEF InSector
    <3> QED BY <2>4, <3>1 DEF Blanked
  <2>6. DeviceTypeOK'
    <3>1. mem' \in [Addr -> Byte] BY <2>4, OpcodeBytes DEF DeviceTypeOK
    <3>2. buf' \in [0 .. PageSize - 1 -> Byte] BY <1>2, OpcodeBytes DEF EmptyBuf
    <3>3. frame' \in Seq(Byte) /\ Len(frame') <= 4 /\ col' \in 0 .. PageSize - 1
      BY <1>2, <2>4, GeometryAssumption
    <3> QED BY <2>4, <3>1, <3>2, <3>3 DEF DeviceTypeOK
  <2>7. bh' = "POLL_CMD" /\ poll_ret' = "PROGRAM" BY <1>1, <1>6 DEF AfterRelease
  <2>8. HeaderStatus'
    BY <1>1, <2>1, <2>7 DEF HeaderStatus, BetweenFrames, Polls, NeedsLatch
  <2>9. HeaderData' BY <2>5, <2>7 DEF HeaderData, Polls, Programs1
  <2> QED BY <1>3, <1>4, <2>6, <2>8, <2>9 DEF HeaderRun
<1>7. CASE bh = "PP_REL"
  <2>1. /\ wel /\ Len(frame) = 4 /\ frame[1] = PAGE_PROGRAM /\ bh_qi = <<>>
        /\ frame[2] = HeaderBase.blk /\ frame[3] = HeaderBase.pg
        /\ Blanked
        /\ \A o \in 0 .. PageSize - 1 : buf[o] = IF o < N THEN Header[o + 1] ELSE Erased
    BY <1>7 DEF HeaderRun, HeaderFrame, HeaderStatus, HeaderData, WithAddress, NeedsLatch, Programs1
  <2>2. FrameBlock = HeaderBase.blk /\ FramePage = HeaderBase.pg
    BY <2>1, HeaderAddressed
  <2>3. ChipSelectRise /\ Programs /\ ~Erases
    BY <1>1, <2>1 DEF HeaderRise, Command, HasAddress, Programs, Erases, SECTOR_ERASE, PAGE_PROGRAM, BLOCK_ERASE
  <2>4. mem' = [a \in Addr |-> Programmed(a)] BY <2>3 DEF ChipSelectRise
  <2>5. HeaderPresent'
    <3> SUFFICES ASSUME NEW k \in 1 .. N PROVE mem'[HeaderCell(k)] = Header[k]
      BY DEF HeaderPresent, HeaderCell
    <3>1. /\ HeaderCell(k) \in Addr /\ HeaderCell(k).blk = FrameBlock /\ HeaderCell(k).pg = FramePage
          /\ HeaderCell(k).off = k - 1 /\ Header[k] \in Byte /\ k - 1 \in 0 .. PageSize - 1 /\ k - 1 < N
          /\ k - 1 + 1 = k
      BY <2>2, HeaderBytes
    <3>2. mem[HeaderCell(k)] = Erased /\ buf[k - 1] = Header[k] BY <2>1, <3>1 DEF Blanked
    <3>3. BitAnd(Erased, Header[k]) = Header[k] BY <3>1, AndAssumption
    <3> QED BY <2>4, <3>1, <3>2, <3>3 DEF Programmed
  <2>6. DeviceTypeOK' BY <2>3, RisesType
  <2>7. bh' = "POLL_CMD" /\ poll_ret' = "DONE" BY <1>1, <1>7 DEF AfterRelease
  <2>8. HeaderStatus'
    BY <1>1, <2>1, <2>7 DEF HeaderStatus, BetweenFrames, Polls, NeedsLatch
  <2>9. HeaderData' BY <2>5, <2>7 DEF HeaderData, Polls, Programs1
  <2> QED BY <1>3, <1>4, <2>6, <2>8, <2>9 DEF HeaderRun
<1> QED BY <1>5, <1>6, <1>7

LEMMA BhStepKeeps ==
  ASSUME HeaderRun, DeviceTypeOK, BhStep
  PROVE  HeaderRun' /\ DeviceTypeOK'
BY BhSendStep, BhAddrStep, BhGetStep, BhCaptureStep, BhReleaseStep, BhDataStep DEF BhStep

LEMMA HeaderStepInv ==
  ASSUME BusInv, RestInv, FlashInv, HeaderInv, PortInv, [Next]_vars
  PROVE  HeaderInv' /\ RestInv'
<1>1. CASE HeaderStep
  <2>1. ram_select /\ HeaderRun /\ DeviceTypeOK BY <1>1 DEF HeaderStep, ensuring, HeaderInv, HeaderRun, RestInv
  <2>2. HeaderRun' /\ DeviceTypeOK' BY <1>1, <2>1, BhStepKeeps DEF HeaderStep
  <2>3. FsmTypeOK' /\ ~block_valid' /\ qi' = <<>>
    BY <1>1, <2>1 DEF HeaderStep, fsm, regs, RestInv, FsmTypeOK
  <2> QED BY <2>2, <2>3 DEF HeaderInv, HeaderRun, RestInv
<1>2. ASSUME UNCHANGED <<mem, wel, frame, buf, col, idx, bh_count, mismatch, poll_ret, bh_status, bh_qi, fsm, ram_select>>,
             wip' = wip \/ ~wip', wip' \in BOOLEAN,
             \/ bh' = bh
             \/ bh = "DONE" /\ bh' = "IDLE" /\ bh_qi = <<>>
      PROVE  HeaderInv' /\ RestInv'
  <2>1. RestInv' BY <1>2 DEF RestInv, DeviceTypeOK, FsmTypeOK, fsm, regs
  <2>2. HeaderRegs' BY <1>2 DEF HeaderInv, HeaderRegs
  <2>3. ASSUME ram_select' PROVE HeaderFrame' /\ HeaderStatus' /\ HeaderData'
    <3>1. HeaderFrame /\ HeaderStatus /\ HeaderData BY <1>2, <2>3 DEF HeaderInv
    <3>2. HeaderFrame' BY <1>2, <3>1 DEF HeaderFrame, BetweenFrames, Polls, Addressing, WithAddress
    <3>3. HeaderStatus' BY <1>2, <3>1 DEF HeaderStatus, BetweenFrames, Polls, Addressing, WithAddress, NeedsLatch
    <3>4. HeaderData' BY <1>2, <3>1, CellsKept DEF HeaderData, Polls, Programs1
    <3> QED BY <3>2, <3>3, <3>4
  <2> QED BY <2>1, <2>2, <2>3 DEF HeaderInv
<1>3. CASE HeaderStart
  <2>1. /\ ram_select /\ bh = "IDLE" /\ bh' = "READ_CMD" /\ mismatch' = FALSE
        /\ UNCHANGED <<device, fsm, poll_ret, bh_status, bh_qi, ram_select>>
    BY <1>3 DEF HeaderStart, BhStart, ensuring, port
  <2>2. HeaderFrame' BY <2>1 DEF device, HeaderInv, HeaderFrame, BetweenFrames, Polls, Addressing, WithAddress
  <2>3. HeaderStatus' BY <2>1 DEF device, HeaderInv, HeaderStatus, BetweenFrames, Polls, Addressing, WithAddress, NeedsLatch
  <2>4. HeaderData' BY <2>1 DEF HeaderData, Polls, Programs1
  <2>5. RestInv' BY <2>1 DEF RestInv, DeviceTypeOK, FsmTypeOK, fsm, regs, device
  <2> QED BY <2>1, <2>2, <2>3, <2>4, <2>5 DEF HeaderInv, HeaderRegs
<1>4. CASE SelectBank
  <2>1. UNCHANGED <<flash_vars, bh_vars, w, sent>> /\ ram_select' = ~ram_select /\ state = "IDLE"
    BY <1>4 DEF SelectBank, BetweenUploads
  <2>2. HeaderRegs' BY <2>1 DEF HeaderInv, HeaderRegs, bh_vars
  <2>3. CASE ram_select BY <2>1, <2>2, <2>3 DEF HeaderInv, RestInv
  <2>4. CASE ~ram_select
    <3>1. bh = "IDLE" /\ Upload!ProtocolInv /\ Upload!StoreInv BY <2>4 DEF BusInv, FlashInv
    <3>2. DeviceTypeOK /\ FsmTypeOK
      BY <3>1 DEF Upload!ProtocolInv, Upload!TypeOK, DeviceTypeOK, FsmTypeOK, Upload!DeviceTypeOK, Upload!FsmTypeOK,
         Addr, Upload!Addr, States, Upload!States
    <3>3. frame = <<>> /\ ~wip /\ qi = <<>>
      BY <2>1, <3>1 DEF Upload!ProtocolInv, Upload!FrameShape, Upload!NotBusy, Upload!OneReply, Upload!AtBoundary,
         Upload!PollStates
    <3>4. ~block_valid /\ buf = EmptyBuf
      BY <2>1, <3>1 DEF Upload!StoreInv, Upload!Closes, Upload!BufHolds, Upload!Addressed, EmptyBuf, Upload!EmptyBuf,
         Erased, Upload!Erased
    <3>5. RestInv' BY <2>1, <3>2, <3>3, <3>4 DEF RestInv, DeviceTypeOK, FsmTypeOK, flash_vars, fsm, regs, device
    <3>6. bh' = "IDLE" /\ frame' = <<>> /\ buf' = EmptyBuf /\ ~wip' /\ bh_qi' = <<>>
      BY <2>1, <3>1, <3>3, <3>4 DEF flash_vars, device, bh_vars, HeaderInv, HeaderRegs
    <3>7. HeaderFrame' BY <3>6 DEF HeaderFrame, BetweenFrames, Polls, Addressing, WithAddress
    <3>8. HeaderStatus' BY <3>6 DEF HeaderStatus, BetweenFrames, Polls, Addressing, WithAddress, NeedsLatch
    <3>9. HeaderData' BY <3>6 DEF HeaderData, Polls, Programs1
    <3> QED BY <2>2, <3>5, <3>7, <3>8, <3>9 DEF HeaderInv
  <2> QED BY <2>3, <2>4 DEF BusInv
<1>5. CASE ~ram_select /\ ~SelectBank
  <2>1. ASSUME Next PROVE UNCHANGED bh_vars /\ ram_select' = ram_select
    BY <1>5, <2>1 DEF Next, FlashStep, RamStep, HeaderStart, HeaderStep, HeaderEnd, BhDone, DeviceStep, Offer,
       RaiseFlush, NextUpload, Clear, Boot, BusInv, port, ensuring
  <2>2. ASSUME UNCHANGED vars PROVE UNCHANGED bh_vars /\ ram_select' = ram_select
    BY <2>2 DEF vars, port
  <2>3. UNCHANGED bh_vars /\ ram_select' = ram_select BY <2>1, <2>2
  <2> QED BY <1>5, <2>3 DEF HeaderInv, HeaderRegs, RestInv, bh_vars
<1>6. CASE ram_select /\ (HeaderEnd \/ DeviceStep \/ RamStep \/ (\E a \in Addr : Offer(a)) \/ RaiseFlush
           \/ NextUpload \/ Clear \/ Boot \/ UNCHANGED vars)
  <2>1. wip \in BOOLEAN /\ (bh = "DONE" => bh_qi = <<>>)
    BY <1>6 DEF RestInv, DeviceTypeOK, HeaderInv, HeaderStatus
  <2> QED BY <1>2, <1>6, <2>1 DEF HeaderEnd, BhDone, DeviceStep, WriteEnds, RamStep, Offer, RaiseFlush, NextUpload,
       Clear, Boot, vars, port, flash_vars, device, bh_vars
<1>7. CASE FlashStep /\ ram_select BY <1>7 DEF FlashStep
<1> QED BY <1>1, <1>3, <1>4, <1>5, <1>6, <1>7 DEF Next

-----------------------------------------------------------------------------
(* The header, once known, and the PSRAM's bytes. *)

LEMMA KnownStep ==
  ASSUME BusInv, PortInv, HeaderInv, KnownInv, [Next]_vars
  PROVE  KnownInv'
<1>1. CASE FlashStep
  <2>1. ~ram_select /\ unchecked' = unchecked BY <1>1 DEF FlashStep
  <2>2. unchecked
    BY <1>1, <2>1 DEF KnownInv, FlashStep, TakesByte, Idle, WriteNextByte, Accept, WorksAlone, Wren, WrenRelease,
       EraseCmd, EraseAddr, EraseRelease, WriteCmd, WriteAddr, SendOpcode, WriteData, WriteNextFlush,
       WriteRelease, PollCmd, PollRead, PollCapture, PollRelease
  <2> QED BY <2>1, <2>2 DEF KnownInv
<1>2. CASE RamStep
  <2>1. UNCHANGED <<mem, state, header_done, ram_select, sent, unchecked>> /\ ram_select
    BY <1>2 DEF RamStep, flash_vars, fsm, device, BusInv
  <2>2. header_done \/ ram # "IDLE" BY <1>2 DEF RamStep, ensuring
  <2> QED BY <2>1, <2>2, CellsKept DEF KnownInv
<1>3. CASE HeaderStep
  <2>1. /\ ~header_done /\ UNCHANGED <<header_done, ram, ram_select>> /\ ram_select
    BY <1>3 DEF HeaderStep, ensuring, LatchBank, port
  <2>2. ram = "IDLE"
    BY <1>3 DEF BusInv, HeaderStep, BhStep, BhSend, BhSends, BhAddr, BhAddrs, BhGet, BhCapture, BhRelease, BhReleases, BhData
  <2> QED BY <2>1, <2>2 DEF KnownInv
<1>4. CASE HeaderEnd
  <2>1. ram_select /\ bh = "DONE" /\ UNCHANGED <<mem, ram_select>>
    BY <1>4 DEF HeaderEnd, BhDone, BusInv, device
  <2>2. HeaderPresent BY <2>1 DEF HeaderInv, HeaderData
  <2> QED BY <2>1, <2>2, CellsKept DEF KnownInv
<1>5. CASE \E a \in Addr : Offer(a)
  <2>1. /\ UNCHANGED <<mem, state, ram, header_done, ram_select>>
        /\ unchecked' = (unchecked \/ ~ram_select)
    BY <1>5 DEF Offer, flash_vars, fsm, device, ram_vars
  <2> QED BY <2>1, CellsKept DEF KnownInv
<1>6. CASE SelectBank
  <2>1. UNCHANGED <<mem, state, ram, header_done, sent, w, unchecked>>
    BY <1>6 DEF SelectBank, flash_vars, fsm, device, ram_vars
  <2>2. ~ram_select' => sent = {} /\ ~w.valid /\ state = "IDLE"
    BY <1>6 DEF SelectBank, BetweenUploads
  <2> QED BY <2>1, <2>2, CellsKept DEF KnownInv
<1>7. CASE NextUpload
  BY <1>7, CellsKept DEF NextUpload, KnownInv, flash_vars, fsm, device, ram_vars
<1>8. CASE HeaderStart \/ DeviceStep \/ RaiseFlush \/ Clear \/ Boot \/ UNCHANGED vars
  <2>1. UNCHANGED <<mem, state, ram, ram_select, sent, w, unchecked>> /\ (header_done' => header_done)
    BY <1>8 DEF HeaderStart, BhStart, DeviceStep, WriteEnds, RaiseFlush, Clear, Boot, vars, port, flash_vars, fsm,
       device, ram_vars
  <2> QED BY <2>1, CellsKept DEF KnownInv
<1> QED BY <1>1, <1>2, <1>3, <1>4, <1>5, <1>6, <1>7, <1>8 DEF Next

\* What the PSRAM makes of an octet.
LEMMA PsramFirst ==
  ASSUME ram_frame = <<>>, NEW m, NEW b, PsramShift(m, b)
  PROVE  ram_frame' = <<<<m, b>>>> /\ psram' = psram /\ quad' = quad
BY DEF PsramShift

LEMMA PsramAddress ==
  ASSUME NEW n \in 0 .. 2, Len(ram_frame) = n + 1, ram_frame[1] = <<"X4", WRITE>>,
         NEW b, PsramShift("X4", b), ram_frame \in Seq(Modes \X Nat)
  PROVE  /\ psram' = psram /\ quad' = quad
         /\ Len(ram_frame') = n + 2 /\ ram_frame'[n + 2] = <<"X4", b>>
         /\ ram_frame'[1] = ram_frame[1]
         /\ n > 0 => ram_frame'[2] = ram_frame[2]
         /\ n > 1 => ram_frame'[3] = ram_frame[3]
         /\ n = 2 => ram_at' = Num([blk |-> ram_frame[2][2], pg |-> ram_frame[3][2], off |-> b]) % RamSize
<1>1. Len(ram_frame) < 4 /\ Len(ram_frame) # 4 BY SMT
<1>2. /\ ram_frame' = Append(ram_frame, <<"X4", b>>) /\ psram' = psram /\ quad' = quad
      /\ n = 2 => ram_at' = Num([blk |-> ram_frame[2][2], pg |-> ram_frame[3][2], off |-> b]) % RamSize
  BY <1>1 DEF PsramShift
<1> QED BY <1>2

LEMMA PsramData ==
  ASSUME quad, Len(ram_frame) = 4, ram_frame[1] = <<"X4", WRITE>>, NEW b, PsramShift("X4", b)
  PROVE  /\ psram' = [psram EXCEPT ![Cell(ram_at)] = b]
         /\ ram_at' = (ram_at + 1) % RamSize
         /\ ram_frame' = ram_frame /\ quad' = quad
BY DEF PsramShift

LEMMA PsramPlainRise ==
  ASSUME PsramRise, Len(ram_frame) = 4 \/ ram_frame = <<>>
  PROVE  quad' = quad /\ ram_frame' = <<>> /\ psram' = psram /\ ram_at' = ram_at
<1>1. ram_frame # <<<<"X4", EXIT_QPI>>>> /\ ram_frame # <<<<"X1", ENTER_QPI>>>>
  <2>1. \A x : Len(<<x>>) = 1 /\ <<x>> # <<>> OBVIOUS
  <2> QED BY <2>1
<1> QED BY <1>1 DEF PsramRise

LEMMA RamNumbers ==
  ASSUME NEW a \in Addr
  PROVE  /\ Num(a) % RamSize = Num(a) /\ Cell(Num(a)) = a /\ Num(a) \in Nat
         /\ a.blk \in Nat /\ a.pg \in Nat /\ a.off \in Nat
         /\ [blk |-> a.blk, pg |-> a.pg, off |-> a.off] = a
<1>1. Num(a) \in 0 .. RamSize - 1 /\ Cell(Num(a)) = a /\ Num(a) \in Nat BY Numbers
<1>2. RamSize \in Nat
  <2>1. \A x, y, z \in Nat : x * y * z \in Nat BY SMT
  <2> QED BY <2>1, GeometryAssumption DEF RamSize
<1> DEFINE n == Num(a)
           R == RamSize
<1>3. n % R = n
  <2>1. n \in 0 .. R - 1 /\ R \in Nat BY <1>1, <1>2
  <2> HIDE DEF n, R
  <2> QED BY <2>1
<1>4. a.blk \in Nat /\ a.pg \in Nat /\ a.off \in Nat BY GeometryAssumption DEF Addr
<1>5. [blk |-> a.blk, pg |-> a.pg, off |-> a.off] = a BY DEF Addr
<1> QED BY <1>1, <1>3, <1>4, <1>5

\* Bytes are where they were, and the latched one is still waiting or is not.
LEMMA HoldsKept ==
  ASSUME RamHolds, ram # "IDLE", ram' # "IDLE", ram' \in RamLive <=> ram \in RamLive,
         Given' = Given, UNCHANGED <<psram, ram_addr, ram_data, cur_addr>>
  PROVE  RamHolds'
BY DEF RamHolds

LEMMA HoldsTaken ==
  ASSUME PortInv, RamHolds, w.valid, w' = [w EXCEPT !.valid = FALSE], sent' = sent,
         ram_select, ram \notin RamLive, ram' \in RamLive, ram' # "IDLE",
         ram_addr' = w.addr, ram_data' = w.data, UNCHANGED <<psram, cur_addr>>
  PROVE  RamHolds'
<1>1. w.addr \in Addr /\ w.data = Payload(w.addr) /\ w.addr \in sent /\ ~w'.valid BY DEF PortInv
<1>2. Given' = Given \cup {w.addr} BY <1>1 DEF Given
<1>3. \A a \in Given : psram[a] = Payload(a)
  <2>1. CASE ram = "IDLE" BY <2>1 DEF RamHolds
  <2>2. CASE ram # "IDLE" BY <2>2 DEF RamHolds
  <2> QED BY <2>1, <2>2
<1> QED BY <1>1, <1>2, <1>3 DEF RamHolds

LEMMA RamTakes ==
  ASSUME PortInv, BusInv, RamInv, ram_select, RamTakesByte(RamPort),
         w' = [w EXCEPT !.valid = FALSE], sent' = sent
  PROVE  RamInv'
<1>1. /\ w.valid /\ ram_addr' = w.addr /\ ram_data' = w.data /\ UNCHANGED <<ram_chip, cur_addr, ram_count>>
      /\ RamPort.addr = w.addr
  <2>1. PICK i : i = RamPort /\ RamAccept(i) /\ UNCHANGED <<ram_chip, cur_addr, ram_count>>
    BY DEF RamTakesByte, RamIdle, RamNextByte, RamTcemByte, RamAccept
  <2>2. w.valid /\ RamPort.addr = w.addr /\ RamPort.data = w.data BY <2>1 DEF RamPort, RamAccept, PortInv
  <2> QED BY <2>1, <2>2 DEF RamAccept
<1>2. w.addr \in Addr BY DEF PortInv
<1>3. /\ ram \in {"IDLE", "WRITE_NEXT", "TCEM_WAIT"}
      /\ ram = "IDLE" => ram' = "SWAP_ASSERT"
      /\ ram = "TCEM_WAIT" => ram' = "WRITE_OPEN"
      /\ ram = "WRITE_NEXT" => \/ ram' = "WRITE_DATA" /\ Num(w.addr) = Num(cur_addr) + 1
                               \/ ram' = "REOPEN_CLOSE"
  BY <1>1 DEF RamTakesByte, RamIdle, RamNextByte, RamTcemByte
<1>4. RamHolds' BY <1>1, <1>3, HoldsTaken DEF RamInv, RamLive, ram_chip
<1>5. ram' = "WRITE_DATA" => ram_at' = Num(ram_addr')
  BY <1>1, <1>2, <1>3, RamNumbers DEF RamInv, RamFrame, ram_chip
<1>6. RamFrame'
  <2>1. CASE ram \in {"IDLE", "TCEM_WAIT"}
    BY <1>1, <1>3, <2>1 DEF RamInv, RamFrame, RamStates, Closed, OneOctet, Within, InQpi, InSpi, Bursting, ram_chip
  <2>2. CASE ram = "WRITE_NEXT"
    BY <1>1, <1>3, <1>5, <2>2 DEF RamInv, RamFrame, RamStates, Closed, OneOctet, Within, InQpi, InSpi, Bursting, ram_chip
  <2> QED BY <1>3, <2>1, <2>2
<1> QED BY <1>4, <1>6 DEF RamInv

LEMMA PsramLeavesQpi ==
  ASSUME PsramRise, quad \in BOOLEAN, ram_frame = <<<<"X4", EXIT_QPI>>>>
  PROVE  ram_frame' = <<>> /\ quad' = FALSE
<1>1. CASE quad BY <1>1 DEF PsramRise
<1>2. CASE ~quad
  <2>1. ram_frame[1][1] = "X4" OBVIOUS
  <2>2. ram_frame # <<<<"X1", ENTER_QPI>>>>
    <3> SUFFICES ASSUME ram_frame = <<<<"X1", ENTER_QPI>>>> PROVE FALSE OBVIOUS
    <3>1. ram_frame[1][1] = "X1" OBVIOUS
    <3> QED BY <2>1, <3>1
  <2> QED BY <1>2, <2>2 DEF PsramRise
<1> QED BY <1>1, <1>2

LEMMA RamReleases ==
  ASSUME BusInv, RamInv, RamRelease, Given' = Given
  PROVE  RamInv'
<1>0. /\ ram' = Releases[ram] /\ UNCHANGED <<ram_addr, ram_data, cur_addr, ram_count>>
      /\ IF latch = 1 THEN PsramRise ELSE UNCHANGED ram_chip
      /\ ram \in DOMAIN Releases
  BY DEF RamRelease, ram_regs
<1>1. psram' = psram /\ quad \in BOOLEAN /\ ram_frame' \in Seq(Modes \X Nat)
  <2>1. quad \in BOOLEAN /\ ram_frame \in Seq(Modes \X Nat) BY DEF RamInv, RamFrame
  <2>2. CASE latch = 1
    <3>1. psram' = psram /\ ram_frame' = <<>> BY <1>0, <2>2 DEF PsramRise
    <3>2. <<>> \in Seq(Modes \X Nat) OBVIOUS
    <3> QED BY <2>1, <3>1, <3>2
  <2>3. CASE latch # 1 BY <1>0, <2>1, <2>3 DEF ram_chip
  <2> QED BY <2>2, <2>3
<1>2. ASSUME ram # "IDLE", ram' # "IDLE", ram' \in RamLive <=> ram \in RamLive, RamFrame' PROVE RamInv'
  BY <1>0, <1>1, <1>2, HoldsKept DEF RamInv
<1> USE DEF RamFrame, RamStates, Closed, OneOctet, Within, InQpi, InSpi, Bursting
<1>3. CASE ram = "SWAP_RELEASE"
  <2>1. latch = 0 /\ ram' = "QPI_EXIT" BY <1>0, <1>3 DEF BusInv, Swapping, Arming, Releases
  <2>2. UNCHANGED ram_chip /\ ram_frame = <<>> BY <1>0, <1>3, <2>1 DEF RamInv
  <2>3. RamFrame' BY <1>1, <2>1, <2>2 DEF RamInv, ram_chip
  <2> QED BY <1>2, <1>3, <2>1, <2>3 DEF RamLive
<1>4. CASE ram = "QPI_EXIT_RELEASE"
  <2>1. latch = 1 /\ ram' = "QPI_ENTER" BY <1>0, <1>4 DEF BusInv, Swapping, Arming, Releases
  <2>2. ram_frame' = <<>> /\ quad' = FALSE
    <3>1. ram_frame = <<<<"X4", EXIT_QPI>>>> /\ PsramRise BY <1>0, <1>4, <2>1 DEF RamInv
    <3> QED BY <1>1, <3>1, PsramLeavesQpi
  <2>3. RamFrame' BY <1>1, <2>1, <2>2 DEF RamInv
  <2> QED BY <1>2, <1>4, <2>1, <2>3 DEF RamLive
<1>5. CASE ram = "QPI_RELEASE"
  <2>1. latch = 1 /\ ram' = "WRITE_OPEN" BY <1>0, <1>5 DEF BusInv, Swapping, Arming, Releases
  <2>2. ram_frame' = <<>> /\ quad' = TRUE
    BY <1>0, <1>1, <1>5, <2>1 DEF RamInv, PsramRise
  <2>3. RamFrame' BY <1>1, <2>1, <2>2 DEF RamInv
  <2> QED BY <1>2, <1>5, <2>1, <2>3 DEF RamLive
<1>6. CASE ram = "RAM_EXIT_RELEASE"
  <2>1. latch = 1 /\ ram' = "ARM_FLASH_ASSERT" BY <1>0, <1>6 DEF BusInv, Swapping, Arming, Releases
  <2>2. ram_frame' = <<>> /\ quad' = FALSE
    <3>1. ram_frame = <<<<"X4", EXIT_QPI>>>> /\ PsramRise BY <1>0, <1>6, <2>1 DEF RamInv
    <3> QED BY <1>1, <3>1, PsramLeavesQpi
  <2>3. RamFrame' BY <1>1, <2>1, <2>2 DEF RamInv
  <2> QED BY <1>2, <1>6, <2>1, <2>3 DEF RamLive
<1>7. CASE ram \in {"TCEM_CLOSE", "REOPEN_CLOSE", "DONE_CLOSE", "ARM_FLASH_RELEASE"}
  <2>1. /\ latch = 1
        /\ \/ ram = "TCEM_CLOSE" /\ ram' = "TCEM_WAIT"
           \/ ram = "REOPEN_CLOSE" /\ ram' = "WRITE_OPEN"
           \/ ram = "DONE_CLOSE" /\ ram' = "RAM_EXIT_QPI"
           \/ ram = "ARM_FLASH_RELEASE" /\ ram' = "ARM_RAM"
    BY <1>0, <1>7 DEF BusInv, Swapping, Arming, Releases
  <2>2. Len(ram_frame) = 4 \/ ram_frame = <<>> BY <1>7 DEF RamInv
  <2>3. quad' = quad /\ ram_frame' = <<>> BY <1>0, <2>1, <2>2, PsramPlainRise
  <2>4. RamFrame' BY <1>1, <1>7, <2>1, <2>3 DEF RamInv
  <2> QED BY <1>2, <1>7, <2>1, <2>4 DEF RamLive
<1> QED BY <1>0, <1>3, <1>4, <1>5, <1>6, <1>7 DEF Releases

LEMMA RamSends ==
  ASSUME BusInv, RamInv, RamSend, Given' = Given
  PROVE  RamInv'
<1>1. PICK m, b, next :
        /\ PsramShift(m, b) /\ ram' = next
        /\ \/ ram = "QPI_EXIT" /\ m = "X4" /\ b = EXIT_QPI /\ next = "QPI_EXIT_RELEASE"
           \/ ram = "QPI_ENTER" /\ m = "X1" /\ b = ENTER_QPI /\ next = "QPI_RELEASE"
           \/ ram = "WRITE_OPEN" /\ m = "X4" /\ b = WRITE /\ next = "WRITE_ADDR"
           \/ ram = "RAM_EXIT_QPI" /\ m = "X4" /\ b = EXIT_QPI /\ next = "RAM_EXIT_RELEASE"
  BY DEF RamSend, Sends
<1>2. /\ UNCHANGED <<ram_addr, ram_data, cur_addr>> /\ (ram = "WRITE_OPEN" => ram_count' = 0)
  BY DEF RamSend
<1>3. ram_frame = <<>> BY <1>1 DEF RamInv, RamFrame, Closed
<1>4. ram_frame' = <<<<m, b>>>> /\ psram' = psram /\ quad' = quad BY <1>1, <1>3, PsramFirst
<1>5. ram_frame' \in Seq(Modes \X Nat)
  <2>1. m \in Modes /\ b \in Nat BY <1>1 DEF Modes, EXIT_QPI, ENTER_QPI, WRITE
  <2>2. <<m, b>> \in Modes \X Nat BY <2>1
  <2> QED BY <1>4, <2>2
<1>6. RamFrame'
  BY <1>1, <1>2, <1>4, <1>5 DEF RamInv, RamFrame, RamStates, Closed, OneOctet, Within, InQpi, InSpi, Bursting
<1>7. RamHolds' BY <1>1, <1>2, <1>4, HoldsKept DEF RamInv, RamLive
<1> QED BY <1>6, <1>7 DEF RamInv

LEMMA RamAddresses ==
  ASSUME RamInv, RamWriteAddr, Given' = Given
  PROVE  RamInv'
<1>1. /\ ram = "WRITE_ADDR" /\ ram_count \in 0 .. 2 /\ Len(ram_frame) = ram_count + 1
      /\ ram_frame[1] = <<"X4", WRITE>> /\ ram_frame \in Seq(Modes \X Nat)
      /\ ram_count > 0 => ram_frame[2] = <<"X4", ram_addr.blk>>
      /\ ram_count > 1 => ram_frame[3] = <<"X4", ram_addr.pg>>
      /\ quad /\ ram_addr \in Addr
  BY DEF RamWriteAddr, RamInv, RamFrame, RamHolds, InQpi
<1>2. UNCHANGED <<ram_addr, ram_data, cur_addr>> BY DEF RamWriteAddr
<1>3. ram_addr.blk \in Nat /\ ram_addr.pg \in Nat /\ ram_addr.off \in Nat BY <1>1, RamNumbers
<1>4. PICK b \in Nat : /\ PsramShift("X4", b)
                       /\ ram_count = 0 => b = ram_addr.blk
                       /\ ram_count = 1 => b = ram_addr.pg
                       /\ ram_count = 2 => b = ram_addr.off
  BY <1>1, <1>3 DEF RamWriteAddr
<1>5. /\ psram' = psram /\ quad' = quad
      /\ Len(ram_frame') = ram_count + 2 /\ ram_frame'[ram_count + 2] = <<"X4", b>>
      /\ ram_frame'[1] = ram_frame[1]
      /\ ram_count > 0 => ram_frame'[2] = ram_frame[2]
      /\ ram_count > 1 => ram_frame'[3] = ram_frame[3]
      /\ ram_count = 2 =>
           ram_at' = Num([blk |-> ram_frame[2][2], pg |-> ram_frame[3][2], off |-> b]) % RamSize
  BY <1>1, <1>4, PsramAddress
<1>6. ram_frame' \in Seq(Modes \X Nat)
  <2>1. ram_frame' = Append(ram_frame, <<"X4", b>>)
    <3>1. Len(ram_frame) < 4 /\ Len(ram_frame) # 4 BY <1>1
    <3> QED BY <1>4, <3>1 DEF PsramShift
  <2> QED BY <1>1, <2>1
<1>7. CASE ram_count # 2
  <2>1. ram' = ram /\ ram_count' = ram_count + 1 BY <1>7 DEF RamWriteAddr
  <2>2. /\ ram_count' \in 0 .. 2 /\ Len(ram_frame') = ram_count' + 1 /\ ram_frame'[1] = <<"X4", WRITE>>
        /\ ram_count' > 0 => ram_frame'[2] = <<"X4", ram_addr'.blk>>
        /\ ram_count' > 1 => ram_frame'[3] = <<"X4", ram_addr'.pg>>
    BY <1>1, <1>2, <1>4, <1>5, <1>7, <2>1
  <2>3. RamFrame'
    BY <1>1, <1>5, <1>6, <2>1, <2>2 DEF RamInv, RamFrame, RamStates, Closed, OneOctet, Within, InQpi, InSpi, Bursting
  <2>4. RamHolds' BY <1>1, <1>2, <1>5, <2>1, HoldsKept DEF RamInv
  <2> QED BY <2>3, <2>4 DEF RamInv
<1>8. CASE ram_count = 2
  <2>1. ram' = "WRITE_DATA" BY <1>8 DEF RamWriteAddr
  <2>2. ram_at' = Num(ram_addr)
    <3>1. ram_frame[2][2] = ram_addr.blk /\ ram_frame[3][2] = ram_addr.pg /\ b = ram_addr.off BY <1>1, <1>4, <1>8
    <3> QED BY <1>1, <1>5, <1>8, <3>1, RamNumbers
  <2>3. Len(ram_frame') = 4 /\ ram_frame'[1] = <<"X4", WRITE>> BY <1>1, <1>5, <1>8
  <2>4. RamFrame'
    BY <1>1, <1>2, <1>5, <1>6, <2>1, <2>2, <2>3 DEF RamFrame, RamStates, Closed, OneOctet, Within, InQpi, InSpi, Bursting
  <2>5. RamHolds' BY <1>1, <1>2, <1>5, <2>1, HoldsKept DEF RamInv, RamLive
  <2> QED BY <2>4, <2>5 DEF RamInv
<1> QED BY <1>7, <1>8

LEMMA RamWrites ==
  ASSUME PortInv, RamInv, RamWriteData, Given' = Given
  PROVE  RamInv'
<1>1. /\ ram = "WRITE_DATA" /\ ram' = "WRITE_NEXT" /\ PsramShift("X4", ram_data) /\ cur_addr' = ram_addr
      /\ UNCHANGED <<ram_addr, ram_data, ram_count>>
  BY DEF RamWriteData
<1>2. /\ quad /\ Len(ram_frame) = 4 /\ ram_frame[1] = <<"X4", WRITE>> /\ ram_at = Num(ram_addr)
      /\ ram_frame \in Seq(Modes \X Nat)
  BY <1>1 DEF RamInv, RamFrame, InQpi, Bursting
<1>3. /\ psram \in [Addr -> Byte] /\ ram_addr \in Addr /\ ram_data = Payload(ram_addr)
      /\ \A a \in Given : psram[a] = Payload(a) \/ a = ram_addr
  BY <1>1 DEF RamInv, RamHolds, RamLive
<1>4. /\ psram' = [psram EXCEPT ![Cell(ram_at)] = ram_data] /\ ram_at' = (ram_at + 1) % RamSize
      /\ ram_frame' = ram_frame /\ quad' = quad
  BY <1>1, <1>2, PsramData
<1>5. Cell(ram_at) = ram_addr BY <1>2, <1>3, RamNumbers
<1>6. RamHolds'
  <2>1. psram' \in [Addr -> Byte] BY <1>3, <1>4, <1>5, UploadAssumption
  <2>2. \A a \in Given' : psram'[a] = Payload(a)
    <3>1. Given \subseteq Addr BY DEF Given, PortInv
    <3> QED BY <1>3, <1>4, <1>5, <3>1
  <2> QED BY <1>1, <1>3, <2>1, <2>2 DEF RamHolds, RamLive
<1>7. RamFrame'
  <2>1. ram_at' = (Num(cur_addr') + 1) % RamSize BY <1>1, <1>2, <1>4
  <2> QED BY <1>1, <1>2, <1>4, <2>1 DEF RamInv, RamFrame, RamStates, Closed, OneOctet, Within, InQpi, InSpi, Bursting
<1> QED BY <1>6, <1>7 DEF RamInv

LEMMA RamRests ==
  ASSUME RamInv, RamPulse \/ RamNextElse(RamPort, flush) \/ RamTcemDone(RamPort, flush) \/ RamArmed,
         Given' = Given
  PROVE  RamInv'
<1>1. /\ UNCHANGED <<ram_chip, ram_addr, ram_data, cur_addr, ram_count>>
      /\ \/ ram = "SWAP_ASSERT" /\ ram' = "SWAP_RELEASE"
         \/ ram = "ARM_FLASH_ASSERT" /\ ram' = "ARM_FLASH_RELEASE"
         \/ ram = "WRITE_NEXT" /\ ram' = "TCEM_CLOSE"
         \/ ram = "WRITE_NEXT" /\ ram' = "DONE_CLOSE"
         \/ ram = "WRITE_NEXT" /\ ram' = "WRITE_NEXT"
         \/ ram = "TCEM_WAIT" /\ ram' = "RAM_EXIT_QPI"
         \/ ram = "ARM_RAM" /\ ram' = "ARM_RAM"
  BY DEF RamPulse, Pulses, RamNextElse, RamTcemDone, RamArmed, ram_regs
<1>2. RamHolds' BY <1>1, HoldsKept DEF RamInv, RamLive, ram_chip
<1>3. RamFrame'
  BY <1>1 DEF RamInv, RamFrame, RamStates, Closed, OneOctet, Within, InQpi, InSpi, Bursting, ram_chip
<1> QED BY <1>2, <1>3 DEF RamInv

LEMMA RamInvStep ==
  ASSUME BusInv, PortInv, RamInv, ~booted, [Next]_vars
  PROVE  RamInv'
<1>1. CASE RamStep
  <2>1. ram_select /\ sent' = sent BY <1>1 DEF RamStep, BusInv
  <2>2. CASE RamTakesByte(RamPort) /\ w' = [w EXCEPT !.valid = FALSE]
    BY <2>1, <2>2, RamTakes
  <2>3. CASE RamWorksAlone(RamPort, flush) /\ w' = w
    <3>1. Given' = Given BY <2>1, <2>3 DEF Given
    <3> QED BY <2>3, <3>1, RamReleases, RamSends, RamAddresses, RamWrites, RamRests DEF RamWorksAlone
  <2> QED BY <1>1, <2>2, <2>3 DEF RamStep
<1>2. ASSUME UNCHANGED <<ram, ram_addr, ram_data, cur_addr, ram_count, ram_chip>>, RamHolds' PROVE RamInv'
  <2>1. RamFrame'
    BY <1>2 DEF RamInv, RamFrame, RamStates, Closed, OneOctet, Within, InQpi, InSpi, Bursting, ram_chip
  <2> QED BY <1>2, <2>1 DEF RamInv
<1>3. CASE FlashStep
  <2>1. /\ ~ram_select /\ ~ram_select' /\ ram = "IDLE"
        /\ UNCHANGED <<ram, ram_addr, ram_data, cur_addr, ram_count, ram_chip>>
    BY <1>3 DEF FlashStep, LatchBank, BusInv, ram_regs
  <2>2. RamHolds' BY <2>1 DEF RamInv, RamHolds, RamLive, ram_chip
  <2> QED BY <1>2, <2>1, <2>2
<1>4. CASE \E a \in Addr : Offer(a)
  <2> PICK a \in Addr : Offer(a) BY <1>4
  <2>1. /\ ~w.valid /\ ~flush /\ a \notin sent /\ sent' = sent \cup {a} /\ ram_select' = ram_select
        /\ w' = [valid |-> TRUE, addr |-> a, data |-> Payload(a)]
        /\ UNCHANGED <<ram, ram_addr, ram_data, cur_addr, ram_count, ram_chip, flush>>
    BY DEF Offer, ram_vars, ram_regs
  <2>2. Given' = Given BY <2>1 DEF Given
  <2>3. RamHolds' BY <2>1, <2>2 DEF RamInv, RamHolds, ram_chip
  <2> QED BY <1>2, <2>1, <2>3
<1>5. CASE NextUpload
  <2>1. /\ sent' = {} /\ ~w.valid /\ w' = w /\ ram = "IDLE"
        /\ UNCHANGED <<ram, ram_addr, ram_data, cur_addr, ram_count, ram_chip>>
    BY <1>5 DEF NextUpload, BetweenUploads, ram_vars, ram_regs
  <2>2. Given' = {} BY <2>1 DEF Given
  <2>3. RamHolds' BY <2>1, <2>2 DEF RamInv, RamHolds, RamLive, ram_chip
  <2> QED BY <1>2, <2>1, <2>3
<1>6. CASE SelectBank
  <2>1. /\ ~w.valid /\ ram = "IDLE" /\ (ram_select' => sent = {} \/ flush)
        /\ UNCHANGED <<w, flush, sent, ram, ram_addr, ram_data, cur_addr, ram_count, ram_chip>>
    BY <1>6 DEF SelectBank, BetweenUploads, ram_vars, ram_regs
  <2>2. Given' = sent BY <2>1 DEF Given
  <2>3. RamHolds' BY <2>1, <2>2 DEF RamInv, RamHolds, RamLive, ram_chip
  <2> QED BY <1>2, <2>1, <2>3
<1>7. CASE RaiseFlush \/ HeaderStart \/ HeaderStep \/ HeaderEnd \/ DeviceStep \/ Clear \/ Boot \/ UNCHANGED vars
  <2>1. /\ UNCHANGED <<w, sent, ram_select, ram, ram_addr, ram_data, cur_addr, ram_count, ram_chip>>
        /\ flush' = flush \/ (~flush /\ flush')
    BY <1>7 DEF RaiseFlush, HeaderStart, HeaderStep, HeaderEnd, DeviceStep, Clear, Boot, LatchBank, vars, port,
       ram_vars, ram_regs
  <2>2. Given' = Given BY <2>1 DEF Given
  <2>3. RamHolds' BY <2>1, <2>2 DEF RamInv, RamHolds, ram_chip
  <2> QED BY <1>2, <2>1, <2>3
<1> QED BY <1>1, <1>3, <1>4, <1>5, <1>6, <1>7 DEF Next

LEMMA BootStep == BootInv /\ [Next]_vars => BootInv'
<1> SUFFICES ASSUME BootInv, [Next]_vars PROVE BootInv' OBVIOUS
<1>1. CASE UNCHANGED vars
  BY <1>1 DEF BootInv, vars, port, flash_vars, fsm, bh_vars, ram_vars, ram_regs
<1>2. CASE Boot
  BY <1>2 DEF Boot, arm, boot_ready, Quiet, BootInv, port, flash_vars, fsm, bh_vars, ram_vars, ram_regs
<1>3. CASE Next /\ ~Boot
  <2>1. ~booted' BY <1>3 DEF Next, FlashStep, RamStep, HeaderStart, HeaderStep, HeaderEnd, DeviceStep, Offer,
                  RaiseFlush, NextUpload, SelectBank, Clear
  <2> QED BY <2>1 DEF BootInv
<1> QED BY <1>1, <1>2, <1>3

-----------------------------------------------------------------------------
(* The invariant of the whole. *)

LEMMA WriterInit == Init => WriterInv
<1> SUFFICES ASSUME Init PROVE WriterInv OBVIOUS
<1>1. BusInv BY BusInit
<1>2. AddrZero \in Addr /\ 0 \in Byte
  BY GeometryAssumption, ByteAssumption DEF AddrZero, Addr
<1>3. PortInv BY <1>2 DEF Init, PortInv
<1>4. OrderInv BY FS_EmptySet DEF Init, OrderInv
<1>5. FlashInv
  <2>1. DeviceTypeOK
    <3>1. mem \in [Addr -> Byte] BY UploadAssumption DEF Init, DeviceInit
    <3>2. buf \in [0 .. PageSize - 1 -> Byte] BY OpcodeBytes DEF Init, DeviceInit, EmptyBuf
    <3>3. frame \in Seq(Byte) /\ Len(frame) <= 4 /\ col \in 0 .. PageSize - 1
      BY GeometryAssumption DEF Init, DeviceInit
    <3> QED BY <3>1, <3>2, <3>3 DEF Init, DeviceInit, DeviceTypeOK
  <2>2. FsmTypeOK
    <3>1. current_page \in (0 .. Blocks - 1) \X (0 .. Pages - 1) /\ 0 \in 0 .. Blocks - 1
      BY GeometryAssumption DEF Init, FsmInit
    <3>2. state \in States /\ addr_count \in 0 .. 2 BY DEF Init, FsmInit, States
    <3>3. qi \in Seq(BOOLEAN) BY DEF Init, FsmInit
    <3> QED BY <1>2, <3>1, <3>2, <3>3 DEF Init, FsmInit, FsmTypeOK
  <2> QED BY <1>3, <2>1, <2>2, UploadRests DEF Init, DeviceInit, FsmInit, FlashInv
<1>6. RestInv /\ HeaderInv BY DEF Init, BhInit, RestInv, HeaderInv, HeaderRegs
<1>7. KnownInv BY DEF Init, RamInit, FsmInit, KnownInv
<1>8. RamInv
  <2>1. Cell(0) \in Addr
    <3>1. Num(AddrZero) = 0 BY GeometryAssumption DEF Num, AddrZero
    <3> QED BY <1>2, <3>1, RamNumbers
  <2>2. psram \in [Addr -> Byte] BY <1>2 DEF Init, RamInit
  <2>3. Given = {} BY DEF Init, Given
  <2>4. RamHolds BY <2>1, <2>2, <2>3 DEF Init, RamInit, RamHolds, RamLive
  <2>5. RamFrame
    BY DEF Init, RamInit, RamFrame, RamStates, Closed, OneOctet, Within, InQpi, InSpi, Bursting
  <2> QED BY <2>4, <2>5 DEF RamInv
<1>9. BootInv BY DEF Init, BootInv
<1> QED BY <1>1, <1>3, <1>4, <1>5, <1>6, <1>7, <1>8, <1>9 DEF WriterInv

LEMMA WriterStep == WriterInv /\ [Next]_vars => WriterInv'
<1> SUFFICES ASSUME WriterInv, [Next]_vars PROVE WriterInv' OBVIOUS
<1> USE DEF WriterInv
<1>1. BusInv' /\ BootInv' BY BusStep, BootStep
<1>2. PortInv' BY PortStep
<1>3. OrderInv' BY OrderStep
<1>4. FlashInv' BY FlashInvStep
<1>5. HeaderInv' /\ RestInv' BY HeaderStepInv
<1>6. KnownInv' BY KnownStep
<1>7. RamInv'
  <2>1. CASE ~booted BY <2>1, RamInvStep
  <2>2. CASE UNCHANGED vars
    BY <2>2 DEF RamInv, RamFrame, RamHolds, Given, vars, port, ram_vars, ram_regs, ram_chip
  <2> QED BY <2>1, <2>2 DEF Next
<1> QED BY <1>1, <1>2, <1>3, <1>4, <1>5, <1>6, <1>7

LEMMA WriterCorrect == Spec => []WriterInv
BY WriterInit, WriterStep, PTL DEF Spec

(* An erase or a program, of the header or of an image, finds the device idle and
   write-enabled: boot_header.py's and flash.py's WREN before and poll after each,
   with the bus changing hands between them. *)
THEOREM CommandsReady == Spec => []CommandReady
<1>1. WriterInv => CommandReady
  <2> SUFFICES ASSUME WriterInv, NEW op \in {SECTOR_ERASE, BLOCK_ERASE, PAGE_PROGRAM}, Command(op)
               PROVE  wel /\ ~wip
    BY DEF CommandReady
  <2> USE DEF SECTOR_ERASE, BLOCK_ERASE, PAGE_PROGRAM, WRITE_ENABLE, READ_STATUS, READ
  <2>1. CASE ram_select
    <3>1. HeaderFrame /\ HeaderStatus BY <2>1 DEF WriterInv, HeaderInv
    <3>2. bh \notin BetweenFrames \cup Polls \cup {"WREN_E_REL", "WREN_P_REL"}
      BY <3>1 DEF HeaderFrame, Command, BetweenFrames, Polls
    <3>3. bh \in {"ERASE_ADDR", "ERASE_REL", "PP_ADDR", "PP_DATA", "PP_REL"}
      BY <3>1, <3>2 DEF HeaderFrame, HeaderStatus, Command, Addressing, WithAddress
    <3> QED BY <3>1, <3>3 DEF HeaderStatus, NeedsLatch, Polls
  <2>2. CASE ~ram_select
    <3>1. Upload!ProtocolInv BY <2>2 DEF WriterInv, FlashInv
    <3>2. Upload!CommandReady BY <3>1, UploadCommands
    <3>3. op # SECTOR_ERASE
      BY <3>1 DEF Upload!ProtocolInv, Upload!TypeOK, Upload!FsmTypeOK, Upload!States, Upload!FrameShape,
         Upload!AtBoundary, Upload!Addressed, Upload!PollStates, Upload!WRITE_ENABLE, Upload!READ_STATUS,
         Upload!BLOCK_ERASE, Upload!PAGE_PROGRAM, Command
    <3> QED BY <3>2, <3>3 DEF Upload!CommandReady, Upload!Command, Upload!BLOCK_ERASE, Upload!PAGE_PROGRAM, Command
  <2> QED BY <2>1, <2>2
<1> QED BY <1>1, WriterCorrect, PTL

(* An image in the PSRAM is booted only with the header in the FLASH slot, for any
   header, contents of the slot, bus resets and order of uploads and banks, unless
   bytes have been put on the FLASH since BootHeader last looked: as far as
   dual_bank_writer.py keeps its promise. KnownInv is what header_done is worth. *)
THEOREM HeaderKnownAtBoot == Spec => []HeaderAtBoot
<1>1. WriterInv => HeaderAtBoot BY DEF WriterInv, BootInv, KnownInv, HeaderAtBoot
<1> QED BY <1>1, WriterCorrect, PTL

(* What is booted is what was uploaded, with both chips at rest and the bank
   output where the configuration engine needs it. *)
THEOREM BankReadyAtBoot == Spec => []ReadyAtBoot
<1>1. WriterInv => ReadyAtBoot
  <2> SUFFICES ASSUME WriterInv, booted PROVE ReadyAtBoot BY DEF ReadyAtBoot
  <2>1. CASE ram_select
    <3>1. /\ ram = "ARM_RAM" /\ target_bank = 1 /\ ~w.valid /\ bh = "IDLE" /\ state = "IDLE"
      BY <2>1 DEF WriterInv, BootInv, BusInv
    <3>2. latch = 0 /\ frame = <<>> BY <3>1 DEF WriterInv, BusInv, Swapping, Arming
    <3>3. ~wip BY <2>1, <3>1 DEF WriterInv, HeaderInv, HeaderStatus, Polls
    <3>4. ram_frame = <<>> /\ ~quad BY <3>1 DEF WriterInv, RamInv, RamFrame, Closed, InSpi
    <3>5. \A a \in sent : Payload(a) = psram[a]
      BY <3>1 DEF WriterInv, RamInv, RamHolds, Given, RamLive
    <3> QED BY <2>1, <3>1, <3>2, <3>3, <3>4, <3>5 DEF ReadyAtBoot
  <2>2. CASE ~ram_select
    <3>1. ~w.valid /\ bh = "IDLE" /\ flush /\ state = "IDLE" /\ ram = "IDLE"
      BY <2>2 DEF WriterInv, BootInv, BusInv
    <3>2. latch = 0 /\ frame = <<>> /\ ram_frame = <<>> /\ target_bank = 0
      BY <3>1 DEF WriterInv, BusInv, Swapping, Arming
    <3>3. Upload!ProtocolInv /\ Upload!StoreInv /\ Upload!Flushed
      BY <2>2, <3>1 DEF WriterInv, FlashInv, Upload!Flushed
    <3>4. ~wip /\ \A a \in Addr : (\E s \in sent : s.blk = a.blk) => mem[a] = Image[a]
      BY <3>3, UploadFlushes
    <3>5. \A a \in sent : Payload(a) = mem[a] BY <3>4 DEF Image, WriterInv, PortInv
    <3> QED BY <2>2, <3>1, <3>2, <3>4, <3>5 DEF ReadyAtBoot
  <2> QED BY <2>1, <2>2
<1> QED BY <1>1, WriterCorrect, PTL

=============================================================================
