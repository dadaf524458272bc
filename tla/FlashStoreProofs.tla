--------------------------- MODULE FlashStoreProofs ---------------------------
(***************************************************************************)
(* Theorems about FlashUpload for every geometry of the array and every    *)
(* writer that keeps the port's contract: its types, the readiness of each *)
(* erase and program command, what an upload leaves in the array, and that *)
(* it implements ImageStore.                                               *)
(***************************************************************************)
EXTENDS FlashUploadStore, TLAPS

-----------------------------------------------------------------------------
(* Types, and the device's answers to octets and to chip select. *)

\* What a remainder is: the device's address decoding stays in range.
LEMMA RemainderInRange ==
  ASSUME NEW n \in Nat, NEW k \in Nat \ {0}
  PROVE  n % k \in 0 .. k - 1
OBVIOUS

\* A shifted octet keeps the device well typed.
LEMMA ShiftInType ==
  ASSUME DeviceTypeOK, NEW b \in Byte, ShiftIn(b)
  PROVE  DeviceTypeOK'
<1> USE GeometryAssumption, ByteAssumption
<1>1. CASE Len(frame) < 4
  <2>1. b % PageSize \in 0 .. PageSize - 1
    BY RemainderInRange
  <2>0. frame \in Seq(Byte) /\ Len(frame) \in Nat /\ frame' = Append(frame, b)
    BY <1>1 DEF DeviceTypeOK, ShiftIn
  <2>2. frame' \in Seq(Byte) /\ Len(frame') <= 4
    BY <1>1, <2>0, SMTT(30)
  <2> QED BY <1>1, <2>1, <2>2 DEF DeviceTypeOK, ShiftIn
<1>2. CASE ~(Len(frame) < 4)
  <2>0. col + 1 \in Nat /\ PageSize \in Nat \ {0}
    BY DEF DeviceTypeOK
  <2>1. (col + 1) % PageSize \in 0 .. PageSize - 1
    BY <2>0, RemainderInRange
  <2>2. BitAnd(buf[col], b) \in Byte
    BY AndAssumption DEF DeviceTypeOK
  <2> QED BY <1>2, <2>1, <2>2 DEF DeviceTypeOK, ShiftIn
<1> QED BY <1>1, <1>2

\* So does the end of a frame.
LEMMA ChipSelectRiseType ==
  ASSUME DeviceTypeOK, ChipSelectRise
  PROVE  DeviceTypeOK'
<1> USE GeometryAssumption, ByteAssumption
<1>1. \A a \in Addr : Programmed(a) \in Byte
  BY AndAssumption DEF DeviceTypeOK, Programmed, Addr
<1>2. mem' \in [Addr -> Byte]
  BY <1>1 DEF DeviceTypeOK, ChipSelectRise, Erased
<1>3. wel' \in BOOLEAN /\ wip' \in BOOLEAN
  BY DEF DeviceTypeOK, ChipSelectRise, Erases, Programs, Command
<1>4. frame' \in Seq(Byte) /\ Len(frame') <= 4 /\ col' \in 0 .. PageSize - 1
  BY DEF ChipSelectRise
<1>5. buf' \in [0 .. PageSize - 1 -> Byte]
  BY DEF ChipSelectRise, EmptyBuf, Erased
<1> QED BY <1>2, <1>3, <1>4, <1>5 DEF DeviceTypeOK

-----------------------------------------------------------------------------
\* Type correctness, for every geometry and every writer.

PortTypeOK ==
  /\ w \in [valid : BOOLEAN, addr : Addr, data : Byte]
  /\ flush \in BOOLEAN
  /\ image \in [Addr -> Byte] /\ sent \subseteq Addr

LEMMA PutType ==
  ASSUME TypeOK, UNCHANGED flush, NEW last, NEW a \in Addr, NEW d \in Payload(a), Put(last, a, d)
  PROVE  PortTypeOK'
BY WriterAssumption DEF Put, TypeOK, PortTypeOK

LEMMA TakeType == ASSUME TypeOK, TakeByte PROVE PortTypeOK'
<1>1. CASE w' = [w EXCEPT !.valid = FALSE] /\ UNCHANGED <<image, sent>>
  BY <1>1 DEF TakeByte, TypeOK, PortTypeOK
<1>2. CASE \E a \in Addr : \E d \in Payload(a) : Put(w.addr, a, d)
  BY <1>2, PutType DEF TakeByte
<1> QED BY <1>1, <1>2 DEF TakeByte

LEMMA TypeOKStep == TypeOK /\ [Next]_core => TypeOK'
<1> SUFFICES ASSUME TypeOK, [Next]_core PROVE TypeOK'
  OBVIOUS
<1> USE GeometryAssumption, ByteAssumption, WriterAssumption
<1>0. AddrZero \in Addr /\ Blank \in [Addr -> Byte] /\ 0 \in Byte
  BY DEF AddrZero, Addr, Blank, Erased
<1>a. \A a \in Addr : a.blk \in 0 .. Blocks - 1 /\ a.pg \in 0 .. Pages - 1
                      /\ a.off \in 0 .. PageSize - 1
  BY DEF Addr
<1>1. CASE UNCHANGED core
  BY <1>1 DEF core, TypeOK, FsmTypeOK, DeviceTypeOK, device, fsm, regs, port
<1>2. CASE WriterStep
  <2>1. ASSUME NEW a \in Addr, NEW d \in Payload(a), Offer(a, d) PROVE TypeOK'
    <3>1. PortTypeOK'
      BY <2>1, PutType DEF Offer
    <3> QED BY <2>1, <3>1 DEF Offer, PortTypeOK, TypeOK, FsmTypeOK, DeviceTypeOK, device, fsm, regs
  <2>2. CASE RaiseFlush
    BY <2>2 DEF RaiseFlush, TypeOK, FsmTypeOK, DeviceTypeOK, device, fsm, regs
  <2>3. CASE NextSession
    <3>1. DeviceTypeOK'
      BY <2>3 DEF NextSession, TypeOK, FsmTypeOK, DeviceTypeOK, device
    <3> QED BY <2>3, <3>1, <1>0 DEF NextSession, TypeOK, FsmTypeOK, fsm, regs
  <2> QED BY <1>2, <2>1, <2>2, <2>3 DEF WriterStep
<1>3. CASE DeviceStep
  BY <1>3 DEF DeviceStep, WriteEnds, TypeOK, FsmTypeOK, DeviceTypeOK, fsm, regs, port
<1>4. CASE Idle /\ TakeByte
  BY <1>4, TakeType DEF Idle, Accept, PortTypeOK, TypeOK, FsmTypeOK, DeviceTypeOK, device, States
<1>5. CASE Wren /\ UNCHANGED port
  BY <1>5, ShiftInType DEF Wren, TypeOK, FsmTypeOK, regs, port, States
<1>6. CASE WrenRelease /\ UNCHANGED port
  BY <1>6, ChipSelectRiseType DEF WrenRelease, TypeOK, FsmTypeOK, regs, port, States
<1>7. CASE EraseCmd /\ UNCHANGED port
  <2>1. DeviceTypeOK'
    BY <1>7, ShiftInType DEF EraseCmd, SendOpcode, TypeOK, FsmTypeOK
  <2> QED BY <1>7, <2>1 DEF EraseCmd, SendOpcode, TypeOK, FsmTypeOK, port, States
<1>8. CASE WriteCmd /\ UNCHANGED port
  <2>1. DeviceTypeOK'
    BY <1>8, ShiftInType DEF WriteCmd, SendOpcode, TypeOK, FsmTypeOK
  <2> QED BY <1>8, <2>1 DEF WriteCmd, SendOpcode, TypeOK, FsmTypeOK, port, States
<1>9. CASE EraseAddr /\ UNCHANGED port
  <2>1. (IF addr_count = 0 THEN addr_latch.blk ELSE 0) \in Byte
    BY <1>a DEF TypeOK, FsmTypeOK
  <2>2. DeviceTypeOK'
    BY <1>9, <2>1, ShiftInType DEF EraseAddr, TypeOK, FsmTypeOK
  <2> QED BY <1>9, <2>2 DEF EraseAddr, TypeOK, FsmTypeOK, port, States
<1>10. CASE EraseRelease /\ UNCHANGED port
  <2>1. DeviceTypeOK'
    BY <1>10, ChipSelectRiseType DEF EraseRelease, TypeOK, FsmTypeOK
  <2> QED BY <1>10, <1>a, <2>1 DEF EraseRelease, TypeOK, FsmTypeOK, port, States
<1>11. CASE WriteAddr /\ UNCHANGED port
  <2>1. (CASE addr_count = 0 -> addr_latch.blk
           [] addr_count = 1 -> addr_latch.pg
           [] OTHER -> addr_latch.off) \in Byte
    BY <1>a DEF TypeOK, FsmTypeOK
  <2>2. DeviceTypeOK'
    BY <1>11, <2>1, ShiftInType DEF WriteAddr, TypeOK, FsmTypeOK
  <2>3. current_page' \in (0 .. Blocks - 1) \X (0 .. Pages - 1)
    <3>1. PageOf(addr_latch) \in (0 .. Blocks - 1) \X (0 .. Pages - 1)
      BY <1>a DEF TypeOK, FsmTypeOK, PageOf
    <3> QED BY <1>11, <3>1 DEF WriteAddr, TypeOK, FsmTypeOK
  <2>4. addr_count' \in 0 .. 2 /\ state' \in States
    <3>1. CASE addr_count = 2
      BY <1>11, <3>1 DEF WriteAddr, States
    <3>2. CASE addr_count # 2
      <4>1. addr_count' = addr_count + 1 /\ state' = state
        BY <1>11, <3>2 DEF WriteAddr
      <4> QED BY <4>1, <3>2 DEF TypeOK, FsmTypeOK
    <3> QED BY <3>1, <3>2
  <2> QED BY <1>11, <2>2, <2>3, <2>4 DEF WriteAddr, TypeOK, FsmTypeOK, port
<1>12. CASE WriteData /\ UNCHANGED port
  <2>1. data_latch \in Byte
    BY DEF TypeOK, FsmTypeOK
  <2> QED BY <1>12, <2>1, ShiftInType DEF WriteData, TypeOK, FsmTypeOK, regs, port, States
<1>13. CASE WriteNextByte /\ TakeByte
  BY <1>13, TakeType DEF WriteNextByte, Accept, PortTypeOK, TypeOK, FsmTypeOK, DeviceTypeOK,
     device, States
<1>14. CASE WriteNextFlush /\ UNCHANGED port
  BY <1>14 DEF WriteNextFlush, TypeOK, FsmTypeOK, DeviceTypeOK, device, port, States
<1>15. CASE WriteRelease /\ UNCHANGED port
  BY <1>15, ChipSelectRiseType DEF WriteRelease, TypeOK, FsmTypeOK, port, States
<1>16. CASE PollCmd /\ UNCHANGED port
  BY <1>16, ShiftInType DEF PollCmd, TypeOK, FsmTypeOK, regs, port, States
<1>17. CASE PollRead /\ UNCHANGED port
  BY <1>17 DEF PollRead, TypeOK, FsmTypeOK, DeviceTypeOK, device, fsm, regs, port, States
<1>18. CASE PollCapture /\ UNCHANGED port
  BY <1>18 DEF PollCapture, TypeOK, FsmTypeOK, DeviceTypeOK, device, port, States
<1>19. CASE PollRelease /\ UNCHANGED port
  BY <1>19, ChipSelectRiseType DEF PollRelease, TypeOK, FsmTypeOK, port, States
<1> QED
  BY <1>1, <1>2, <1>3, <1>4, <1>5, <1>6, <1>7, <1>8, <1>9, <1>10, <1>11, <1>12,
     <1>13, <1>14, <1>15, <1>16, <1>17, <1>18, <1>19 DEF Next, FsmStep, TakeByte, TakesByte, WorksAlone

\* The initial state is well typed, whatever the array holds.
LEMMA TypeCorrectInit == Init => TypeOK
<1>1. ASSUME Init PROVE TypeOK
  <2> USE <1>1, GeometryAssumption, ByteAssumption, WriterAssumption
  <2>1. mem \in [Addr -> Byte] /\ buf \in [0 .. PageSize - 1 -> Byte]
    BY DEF Init, DeviceInit, EmptyBuf, Erased
  <2>2. frame \in Seq(Byte) /\ Len(frame) <= 4 /\ col \in 0 .. PageSize - 1
    BY DEF Init, DeviceInit
  <2>3. DeviceTypeOK
    BY <2>1, <2>2 DEF Init, DeviceInit, DeviceTypeOK
  <2>4. AddrZero \in Addr /\ Blank \in [Addr -> Byte] /\ 0 \in Byte
    BY DEF AddrZero, Addr, Blank, Erased
  <2>5. current_page \in (0 .. Blocks - 1) \X (0 .. Pages - 1)
    BY DEF Init, FsmInit
  <2>6. w \in [valid : BOOLEAN, addr : Addr, data : Byte] /\ qi \in Seq(BOOLEAN)
    BY <2>4 DEF Init, FsmInit
  <2>7. state \in States /\ addr_count \in 0 .. 2
    BY DEF Init, FsmInit, States
  <2> QED BY <2>3, <2>4, <2>5, <2>6, <2>7 DEF Init, FsmInit, TypeOK, FsmTypeOK
<1> QED BY <1>1

\* The bounds of Count aside.
LEMMA CoreStep == [Next /\ Count]_vars => [Next]_core
BY DEF vars

\* Every variable of the backing and of the device stays in its type.
THEOREM TypeCorrect == Spec => []TypeOK
BY TypeCorrectInit, TypeOKStep, CoreStep, PTL DEF Spec


-----------------------------------------------------------------------------
(* The protocol invariant, one conjunct per lemma. *)

\* The frame is the one the state says: which octets are in it, and how many.
LEMMA FrameShapeStep == TypeOK /\ FrameShape /\ [Next]_core => FrameShape'
<1> SUFFICES ASSUME TypeOK, FrameShape, [Next]_core PROVE FrameShape'
  OBVIOUS
<1> USE DEF FrameShape, AtBoundary, Addressed, PollStates
<1>1. CASE UNCHANGED core
  BY <1>1 DEF core, device, fsm, regs
<1>2. CASE WriterStep
  BY <1>2 DEF WriterStep, Offer, RaiseFlush, NextSession, device, fsm, regs
<1>3. CASE DeviceStep
  BY <1>3 DEF DeviceStep, WriteEnds, fsm, regs
<1>4. CASE Idle
  BY <1>4 DEF Idle, device
<1>5. CASE Wren
  BY <1>5 DEF Wren, ShiftIn, regs
<1>6. CASE WrenRelease
  BY <1>6 DEF WrenRelease, ChipSelectRise, regs
<1>7. CASE EraseCmd
  <2>1. frame' = <<BLOCK_ERASE>>
    BY <1>7 DEF EraseCmd, SendOpcode, ShiftIn
  <2> QED BY <1>7, <2>1 DEF EraseCmd, SendOpcode
<1>8. CASE WriteCmd
  <2>1. frame' = <<PAGE_PROGRAM>>
    BY <1>8 DEF WriteCmd, SendOpcode, ShiftIn
  <2> QED BY <1>8, <2>1 DEF WriteCmd, SendOpcode
<1>9. CASE EraseAddr
  <2>1. /\ addr_count \in 0 .. 2 /\ frame \in Seq(Byte)
        /\ Len(frame) = addr_count + 1 /\ frame[1] = BLOCK_ERASE
    BY <1>9 DEF EraseAddr, TypeOK, FsmTypeOK, DeviceTypeOK
  <2>2. PICK b : frame' = Append(frame, b)
    BY <1>9, <2>1 DEF EraseAddr, ShiftIn
  <2>3. Len(frame') = addr_count + 2 /\ frame'[1] = BLOCK_ERASE
    BY <2>1, <2>2
  <2> QED BY <1>9, <2>1, <2>3 DEF EraseAddr
<1>10. CASE EraseRelease
  BY <1>10 DEF EraseRelease, ChipSelectRise
<1>11. CASE WriteAddr
  <2>1. /\ addr_count \in 0 .. 2 /\ frame \in Seq(Byte)
        /\ Len(frame) = addr_count + 1 /\ frame[1] = PAGE_PROGRAM
    BY <1>11 DEF WriteAddr, TypeOK, FsmTypeOK, DeviceTypeOK
  <2>2. PICK b : frame' = Append(frame, b)
    BY <1>11, <2>1 DEF WriteAddr, ShiftIn
  <2>3. Len(frame') = addr_count + 2 /\ frame'[1] = PAGE_PROGRAM
    BY <2>1, <2>2
  <2> QED BY <1>11, <2>1, <2>3 DEF WriteAddr
<1>12. CASE WriteData
  <2>1. state = "WRITE_DATA" /\ Len(frame) = 4 /\ frame[1] = PAGE_PROGRAM
    BY <1>12 DEF WriteData
  <2>2. frame' = frame /\ state' = "WRITE_NEXT"
    BY <1>12, <2>1 DEF WriteData, ShiftIn
  <2> QED BY <2>1, <2>2
<1>13. CASE WriteNextByte
  BY <1>13 DEF WriteNextByte, device
<1>14. CASE WriteNextFlush
  BY <1>14 DEF WriteNextFlush, device
<1>15. CASE WriteRelease
  BY <1>15 DEF WriteRelease, ChipSelectRise
<1>16. CASE PollCmd
  BY <1>16 DEF PollCmd, ShiftIn, regs
<1>17. CASE PollRead
  BY <1>17 DEF PollRead, device, regs
<1>18. CASE PollCapture
  BY <1>18 DEF PollCapture, device
<1>19. CASE PollRelease
  BY <1>19 DEF PollRelease, ChipSelectRise
<1> QED
  BY <1>1, <1>2, <1>3, <1>4, <1>5, <1>6, <1>7, <1>8, <1>9, <1>10, <1>11, <1>12,
     <1>13, <1>14, <1>15, <1>16, <1>17, <1>18, <1>19 DEF Next, FsmStep, TakeByte, TakesByte, WorksAlone

\* A frame of a single octet has no address: at most it sets the latch.
LEMMA OneOctetFrame ==
  ASSUME NEW op, frame = <<op>>, ChipSelectRise, wip \in BOOLEAN
  PROVE  wip' = wip /\ (op = WRITE_ENABLE => wel')
<1>1. Len(frame) = 1 /\ frame[1] = op /\ frame # <<>>
  OBVIOUS
<1>2. ~Erases /\ ~Programs
  BY <1>1 DEF Erases, Programs, HasAddress
<1> QED BY <1>1, <1>2 DEF ChipSelectRise, Command

\* A status reply is in flight exactly while it is waited for, and what it
\* says of the device cannot become wrong: only the FSM starts a write.
LEMMA PollStep ==
  TypeOK /\ FrameShape /\ NotBusy /\ OneReply /\ [Next]_core => NotBusy' /\ OneReply'
<1> SUFFICES ASSUME TypeOK, FrameShape, NotBusy, OneReply, [Next]_core
             PROVE  NotBusy' /\ OneReply'
  OBVIOUS
<1> USE DEF NotBusy, OneReply, PollStates
<1>0. wip \in BOOLEAN
  BY DEF TypeOK, FsmTypeOK, DeviceTypeOK
<1>1. CASE UNCHANGED core
  BY <1>1 DEF core, device, fsm, regs
<1>2. CASE WriterStep
  BY <1>2 DEF WriterStep, Offer, RaiseFlush, NextSession, device, fsm, regs
<1>3. CASE DeviceStep
  BY <1>3 DEF DeviceStep, WriteEnds, fsm, regs
<1>4. CASE Idle
  BY <1>4 DEF Idle, device
<1>5. CASE Wren
  BY <1>5 DEF Wren, ShiftIn, regs
<1>6. CASE WrenRelease
  BY <1>0, <1>6, OneOctetFrame DEF WrenRelease, FrameShape
<1>7. CASE EraseCmd
  BY <1>7 DEF EraseCmd, SendOpcode, ShiftIn
<1>8. CASE WriteCmd
  BY <1>8 DEF WriteCmd, SendOpcode, ShiftIn
<1>9. CASE EraseAddr
  BY <1>9 DEF EraseAddr, ShiftIn
<1>10. CASE EraseRelease
  BY <1>10 DEF EraseRelease
<1>11. CASE WriteAddr
  BY <1>11 DEF WriteAddr, ShiftIn
<1>12. CASE WriteData
  BY <1>12 DEF WriteData, ShiftIn, regs
<1>13. CASE WriteNextByte
  BY <1>13 DEF WriteNextByte, device
<1>14. CASE WriteNextFlush
  BY <1>14 DEF WriteNextFlush, device
<1>15. CASE WriteRelease
  BY <1>15 DEF WriteRelease
<1>16. CASE PollCmd
  BY <1>16 DEF PollCmd, ShiftIn, regs
<1>17. CASE PollRead
  BY <1>17 DEF PollRead, device, regs, TypeOK, FsmTypeOK, DeviceTypeOK
<1>18. CASE PollCapture
  <2>1. Len(qi) = 1 /\ (~qi[1] => ~wip) /\ qi \in Seq(BOOLEAN)
    BY <1>18 DEF PollCapture, TypeOK, FsmTypeOK
  <2>2. status' = qi[1] /\ qi' = <<>> /\ wip' = wip
    BY <1>18, <2>1 DEF PollCapture, device
  <2> QED BY <1>18, <2>1, <2>2 DEF PollCapture
<1>19. CASE PollRelease
  BY <1>0, <1>19, OneOctetFrame DEF PollRelease, FrameShape
<1> QED
  BY <1>1, <1>2, <1>3, <1>4, <1>5, <1>6, <1>7, <1>8, <1>9, <1>10, <1>11, <1>12,
     <1>13, <1>14, <1>15, <1>16, <1>17, <1>18, <1>19 DEF Next, FsmStep, TakeByte, TakesByte, WorksAlone

\* Write enable is set by the frame before every erase and program, and
\* nothing in between clears it.
LEMMA LatchSetStep ==
  TypeOK /\ FrameShape /\ LatchSet /\ [Next]_core => LatchSet'
<1> SUFFICES ASSUME TypeOK, FrameShape, LatchSet, [Next]_core PROVE LatchSet'
  OBVIOUS
<1> USE DEF LatchSet, Enabled, Addressed
<1>0. wip \in BOOLEAN
  BY DEF TypeOK, FsmTypeOK, DeviceTypeOK
<1>1. CASE UNCHANGED core
  BY <1>1 DEF core, device, fsm, regs
<1>2. CASE WriterStep
  BY <1>2 DEF WriterStep, Offer, RaiseFlush, NextSession, device, fsm, regs
<1>3. CASE DeviceStep
  BY <1>3 DEF DeviceStep, WriteEnds, fsm, regs
<1>4. CASE WrenRelease
  BY <1>0, <1>4, OneOctetFrame DEF WrenRelease, FrameShape
<1>5. CASE EraseCmd \/ EraseAddr \/ WriteCmd \/ WriteAddr \/ WriteData
  BY <1>5 DEF EraseCmd, EraseAddr, WriteCmd, WriteAddr, WriteData, SendOpcode, ShiftIn
<1>6. CASE WriteNextByte \/ WriteNextFlush
  BY <1>6 DEF WriteNextByte, WriteNextFlush, device
<1>7. CASE Idle \/ Wren \/ EraseRelease \/ WriteRelease
           \/ PollCmd \/ PollRead \/ PollCapture \/ PollRelease
  BY <1>7 DEF Idle, Wren, EraseRelease, WriteRelease, PollCmd, PollRead, PollCapture,
              PollRelease
<1> QED
  BY <1>1, <1>2, <1>3, <1>4, <1>5, <1>6, <1>7 DEF Next, FsmStep, TakeByte, TakesByte, WorksAlone

LEMMA ProtocolInit == Init => ProtocolInv
<1>1. Init => TypeOK
  BY TypeCorrectInit
<1> QED BY <1>1 DEF Init, DeviceInit, FsmInit, ProtocolInv, FrameShape, NotBusy, LatchSet, OneReply,
       AtBoundary, Addressed, Enabled, PollStates

LEMMA ProtocolStep == ProtocolInv /\ [Next]_core => ProtocolInv'
BY TypeOKStep, FrameShapeStep, PollStep, LatchSetStep DEF ProtocolInv

\* The inductive invariant of the command protocol.
THEOREM ProtocolCorrect == Spec => []ProtocolInv
BY ProtocolInit, ProtocolStep, CoreStep, PTL DEF Spec

LEMMA CommandsMeant == ProtocolInv => CommandReady
BY DEF ProtocolInv, TypeOK, FsmTypeOK, FrameShape, NotBusy, LatchSet, AtBoundary, Addressed, Enabled,
       PollStates, States, CommandReady, Command, WRITE_ENABLE, READ_STATUS, BLOCK_ERASE,
       PAGE_PROGRAM

\* No erase and no program is ever sent to a busy or a locked device.
THEOREM CommandsReady == Spec => []CommandReady
BY CommandsMeant, ProtocolCorrect, PTL

-----------------------------------------------------------------------------
(* A writer that counts: the address of its nth byte, and that an image sent in
   that order keeps the contract. *)

Number(a) == (a.blk * Pages + a.pg) * PageSize + a.off
Cell(n)   == [blk |-> n \div (Pages * PageSize), pg |-> (n \div PageSize) % Pages,
              off |-> n % PageSize]
Capacity  == Blocks * Pages * PageSize

LEMMA Quotient ==
  ASSUME NEW m \in Nat \ {0}, NEW q \in Nat, NEW r \in 0 .. m - 1, NEW a \in Nat,
         a = m * q + r
  PROVE  a % m = r /\ a \div m = q
<1> DEFINE d == a \div m
           e == a % m
<1>1. d \in Nat /\ e \in 0 .. m - 1 /\ a = m * d + e BY SMT
<1> HIDE DEF d, e
<1>2. CASE d > q
  <2>1. PICK x \in Nat : d = q + 1 + x BY <1>1, <1>2, SMT
  <2>2. m * d = m * q + m + m * x BY <2>1, SMT
  <2>3. m * x >= 0 BY SMT
  <2> QED BY <1>1, <2>2, <2>3, SMT
<1>3. CASE q > d
  <2>1. PICK x \in Nat : q = d + 1 + x BY <1>1, <1>3, SMT
  <2>2. m * q = m * d + m + m * x BY <2>1, <1>1, SMT
  <2>3. m * x >= 0 BY SMT
  <2> QED BY <1>1, <2>2, <2>3, SMT
<1>4. CASE d = q BY <1>1, <1>4, SMT DEF d, e
<1> QED BY <1>1, <1>2, <1>3, <1>4

\* The page's number, and the number's place in the page.
Row(a) == a.blk * Pages + a.pg

LEMMA Places ==
  ASSUME NEW a \in Addr
  PROVE  /\ a.blk \in 0 .. Blocks - 1 /\ a.pg \in 0 .. Pages - 1 /\ a.off \in 0 .. PageSize - 1
         /\ a.blk \in Nat /\ Row(a) \in Nat /\ Number(a) \in Nat /\ Number(a) = PageSize * Row(a) + a.off
         /\ Row(a) = Pages * a.blk + a.pg
         /\ PageSize * Row(a) \in Nat
<1>1. a.blk \in 0 .. Blocks - 1 /\ a.pg \in 0 .. Pages - 1 /\ a.off \in 0 .. PageSize - 1
  BY DEF Addr
<1>2. a.blk \in Nat /\ a.pg \in Nat /\ a.off \in Nat /\ Pages \in Nat /\ PageSize \in Nat
  BY <1>1, GeometryAssumption
<1>3. Pages * a.blk \in Nat /\ a.blk * Pages = Pages * a.blk BY <1>2
<1>4. Row(a) \in Nat /\ Row(a) = Pages * a.blk + a.pg BY <1>2, <1>3 DEF Row
<1>5. PageSize * Row(a) \in Nat /\ Row(a) * PageSize = PageSize * Row(a) BY <1>2, <1>4
<1>6. Number(a) = Row(a) * PageSize + a.off BY DEF Number, Row
<1> QED BY <1>1, <1>2, <1>4, <1>5, <1>6

LEMMA RowParts ==
  ASSUME NEW a \in Addr
  PROVE  Row(a) % Pages = a.pg /\ Row(a) \div Pages = a.blk
<1> DEFINE b == a.blk
           p == a.pg
           x == Row(a)
<1>1. b \in Nat /\ p \in 0 .. Pages - 1 /\ x \in Nat /\ x = Pages * b + p BY Places
<1> HIDE DEF b, p, x
<1>2. x % Pages = p /\ x \div Pages = b BY <1>1, Quotient, GeometryAssumption
<1> QED BY <1>2 DEF b, p, x

\* Products by the same factor are as their other factors are.
LEMMA Scaled ==
  ASSUME NEW m \in Nat, NEW p \in Nat, NEW q \in Nat, p < q
  PROVE  m * p + m <= m * q
<1>1. PICK x \in Nat : q = p + 1 + x BY SMT
<1>2. m * q = m * p + m + m * x BY <1>1, SMT
<1>3. m * x >= 0 /\ m * p \in Nat BY SMT
<1> QED BY <1>2, <1>3, SMT

LEMMA CellOfNumber ==
  ASSUME NEW a \in Addr
  PROVE  Cell(Number(a)) = a /\ Number(a) \in 0 .. Capacity - 1
<1> USE GeometryAssumption
<1>1. /\ a.blk \in 0 .. Blocks - 1 /\ a.pg \in 0 .. Pages - 1 /\ a.off \in 0 .. PageSize - 1
      /\ a.blk \in Nat /\ Row(a) \in Nat /\ Number(a) \in Nat
      /\ Number(a) = PageSize * Row(a) + a.off /\ Row(a) = Pages * a.blk + a.pg
  BY Places
<1>2. Number(a) % PageSize = a.off /\ Number(a) \div PageSize = Row(a) BY <1>1, Quotient
<1>3. Row(a) % Pages = a.pg BY RowParts
<1> DEFINE P == Pages * PageSize
           r == PageSize * a.pg + a.off
<1>4. P \in Nat \ {0}
  <2>1. \A x, y \in Nat \ {0} : x * y \in Nat \ {0} BY SMT
  <2> QED BY <2>1
<1>5. Number(a) = P * a.blk + r
  <2>1. \A x, y, z, t \in Nat : x * (y * z + t) = (y * x) * z + x * t BY SMT
  <2> QED BY <1>1, <2>1
<1>6. r \in 0 .. P - 1
  <2>1. PageSize * a.pg + PageSize <= PageSize * Pages BY <1>1, Scaled
  <2>2. PageSize * Pages = P BY SMT
  <2>3. PageSize * a.pg \in Nat BY <1>1, SMT
  <2> QED BY <1>1, <1>4, <2>1, <2>2, <2>3
<1>7. Number(a) \div P = a.blk
  <2> DEFINE b == a.blk
             n == Number(a)
  <2>1. b \in Nat /\ n \in Nat /\ n = P * b + r BY <1>1, <1>5
  <2> HIDE DEF P, r, b, n
  <2>2. n \div P = b BY <1>4, <1>6, <2>1, Quotient
  <2> QED BY <2>2 DEF b, n
<1>8. Cell(Number(a)) = [blk |-> a.blk, pg |-> a.pg, off |-> a.off]
  BY <1>2, <1>3, <1>7 DEF Cell
<1>9. Capacity \in Nat
  <2>1. \A x, y, z \in Nat : x * y * z \in Nat BY SMT
  <2> QED BY <2>1 DEF Capacity
<1>10. Number(a) < Capacity
  <2>1. P * a.blk + P <= P * Blocks
    <3> DEFINE b == a.blk
    <3>1. b \in Nat /\ b < Blocks BY <1>1
    <3> HIDE DEF P, b
    <3>2. P * b + P <= P * Blocks BY <1>4, <3>1, Scaled
    <3> QED BY <3>2 DEF b
  <2>2. P * Blocks = Capacity
    <3>1. \A x, y, z \in Nat : (x * y) * z = z * x * y BY SMT
    <3> QED BY <3>1 DEF Capacity
  <2>3. P * a.blk \in Nat BY <1>1, <1>4, SMT
  <2> DEFINE q == P * a.blk
             n == Number(a)
             R == Capacity
  <2>4. /\ n = q + r /\ n \in Nat /\ q \in Nat /\ r \in 0 .. P - 1
        /\ q + P <= R /\ P \in Nat /\ R \in Nat
    BY <1>1, <1>4, <1>5, <1>6, <1>9, <2>1, <2>2, <2>3
  <2> HIDE DEF P, q, r, n, R
  <2>5. n < R BY <2>4
  <2> QED BY <2>5 DEF n, R
<1>11. a = [blk |-> a.blk, pg |-> a.pg, off |-> a.off] BY DEF Addr
<1>12. Number(a) \in 0 .. Capacity - 1 BY <1>1, <1>9, <1>10
<1> QED BY <1>8, <1>11, <1>12

\* The address after l is in l's page, or at the start of the next page or block.
LEMMA NextAddress ==
  ASSUME NEW l \in Addr, NEW a \in Addr, Number(a) = Number(l) + 1
  PROVE  \/ PageOf(a) = PageOf(l) /\ a.off = l.off + 1
         \/ a.off = 0 /\ (a.blk = l.blk \/ a.pg = 0)
<1> USE GeometryAssumption
<1>1. /\ \A x \in {l, a} : /\ x.blk \in 0 .. Blocks - 1 /\ x.pg \in 0 .. Pages - 1
                           /\ x.off \in 0 .. PageSize - 1 /\ Row(x) \in Nat /\ x.blk \in Nat
                           /\ Number(x) = PageSize * Row(x) + x.off /\ Row(x) = Pages * x.blk + x.pg
                           /\ PageSize * Row(x) \in Nat
  BY Places
<1> DEFINE ra == Row(a)
           rl == Row(l)
<1>2. /\ a.off \in 0 .. PageSize - 1 /\ l.off \in 0 .. PageSize - 1 /\ ra \in Nat /\ rl \in Nat
      /\ PageSize * ra + a.off = PageSize * rl + l.off + 1
      /\ PageSize * ra \in Nat /\ PageSize * rl \in Nat
  BY <1>1
<1>3. ra = Pages * a.blk + a.pg /\ rl = Pages * l.blk + l.pg BY <1>1
<1> HIDE DEF ra, rl
<1>4. CASE ra = rl
  <2>1. a.off = l.off + 1 BY <1>2, <1>4
  <2>2. l.pg = a.pg /\ l.blk = a.blk BY <1>4, RowParts DEF ra, rl
  <2> QED BY <2>1, <2>2 DEF PageOf
<1>5. CASE ra < rl
  <2>1. PageSize * ra + PageSize <= PageSize * rl BY <1>2, <1>5, Scaled
  <2> QED BY <1>2, <2>1
<1>6. CASE ra > rl
  <2>1. PageSize * rl + PageSize <= PageSize * ra BY <1>2, <1>6, Scaled
  <2>2. a.off = 0 BY <1>2, <2>1
  <2>3. ra = rl + 1
    <3>1. CASE ra > rl + 1
      <4>1. PageSize * (rl + 1) + PageSize <= PageSize * ra BY <1>2, <3>1, Scaled
      <4>2. PageSize * (rl + 1) = PageSize * rl + PageSize BY <1>2, SMT
      <4> QED BY <1>2, <2>2, <4>1, <4>2
    <3> QED BY <1>2, <1>6, <3>1
  <2>4. CASE l.pg + 1 < Pages
    <3>1. l.pg + 1 \in 0 .. Pages - 1 /\ ra = Pages * l.blk + (l.pg + 1) BY <1>1, <1>3, <2>3, <2>4
    <3> DEFINE b == l.blk
               p == l.pg + 1
    <3>2. b \in Nat /\ p \in 0 .. Pages - 1 /\ ra = Pages * b + p BY <1>1, <3>1
    <3> HIDE DEF b, p
    <3>3. ra \div Pages = b BY <1>2, <3>2, Quotient
    <3>4. ra \div Pages = a.blk BY RowParts DEF ra
    <3> QED BY <2>2, <3>3, <3>4 DEF b
  <2>5. CASE l.pg + 1 = Pages
    <3>1. ra = Pages * (l.blk + 1) + 0
      <4>1. \A x, y \in Nat : x * y + x = x * (y + 1) BY SMT
      <4> QED BY <1>1, <1>3, <2>3, <2>5, <4>1
    <3> DEFINE b == l.blk + 1
               z == 0
    <3>2. b \in Nat /\ z \in 0 .. Pages - 1 /\ ra = Pages * b + z /\ ra \in Nat
          /\ Pages \in Nat \ {0}
      BY <1>1, <1>2, <3>1
    <3> HIDE DEF b, z
    <3>3. ra % Pages = z /\ ra \div Pages = b BY ONLY <3>2, Quotient
    <3>4. ra % Pages = a.pg BY RowParts DEF ra
    <3> QED BY <2>2, <3>3, <3>4 DEF z
  <2> QED BY <1>1, <2>4, <2>5
<1> QED BY <1>2, <1>4, <1>5, <1>6

\* Nothing of a page comes before its start, and nothing of a block before the block's.
LEMMA PageStart ==
  ASSUME NEW a \in Addr, NEW s \in Addr, a.off = 0, Number(s) < Number(a)
  PROVE  PageOf(s) # PageOf(a) /\ (a.pg = 0 => s.blk # a.blk)
<1> USE GeometryAssumption
<1>1. /\ \A x \in {s, a} : /\ x.blk \in 0 .. Blocks - 1 /\ x.pg \in 0 .. Pages - 1
                           /\ x.off \in 0 .. PageSize - 1 /\ Row(x) \in Nat /\ x.blk \in Nat
                           /\ Number(x) = PageSize * Row(x) + x.off /\ Row(x) = Pages * x.blk + x.pg
                           /\ PageSize * Row(x) \in Nat
  BY Places
<1>2. Row(s) < Row(a)
  <2> SUFFICES ASSUME ~(Row(s) < Row(a)) PROVE FALSE BY <1>1
  <2>1. CASE Row(s) = Row(a) BY <1>1, <2>1
  <2>2. CASE Row(a) < Row(s)
    <3>1. PageSize * Row(a) + PageSize <= PageSize * Row(s) BY <1>1, <2>2, Scaled
    <3> QED BY <1>1, <3>1
  <2> QED BY <1>1, <2>1, <2>2
<1>3. PageOf(s) # PageOf(a) BY <1>1, <1>2 DEF PageOf
<1>4. a.pg = 0 => s.blk # a.blk BY <1>1, <1>2
<1> QED BY <1>3, <1>4

LEMMA NumberOfCell ==
  ASSUME NEW n \in 0 .. Capacity - 1
  PROVE  Cell(n) \in Addr /\ Number(Cell(n)) = n
<1> USE GeometryAssumption
<1> DEFINE B == Pages * PageSize
           q == n \div PageSize
           r == n % PageSize
           b == q \div Pages
           p == q % Pages
<1>1. Capacity \in Nat /\ B \in Nat \ {0} /\ Capacity = B * Blocks
  <2>1. \A x, y, z \in Nat \ {0} : x * y * z \in Nat /\ x * y \in Nat \ {0} /\ x * y * z = (y * z) * x
    BY SMT
  <2> QED BY <2>1 DEF Capacity
<1>2. n \in Nat /\ n < Capacity BY <1>1
<1>3. q \in Nat /\ r \in 0 .. PageSize - 1 /\ n = PageSize * q + r BY <1>2
<1> HIDE DEF q, r
<1>4. b \in Nat /\ p \in 0 .. Pages - 1 /\ q = Pages * b + p BY <1>3
<1> HIDE DEF b, p
<1>5. n = B * b + (PageSize * p + r)
  <2>1. \A x, y, z, t, u \in Nat : x * (y * z + t) + u = (y * x) * z + (x * t + u) BY SMT
  <2> QED BY <1>3, <1>4, <2>1
<1>6. PageSize * p + r \in 0 .. B - 1
  <2>1. PageSize * p + PageSize <= PageSize * Pages BY <1>4, Scaled
  <2>2. PageSize * Pages = B BY SMT
  <2>3. PageSize * p \in Nat BY <1>4, SMT
  <2> HIDE DEF B
  <2> QED BY <1>1, <1>3, <2>1, <2>2, <2>3
<1> DEFINE e == PageSize * p + r
<1>7. n \div B = b
  <2>1. e \in 0 .. B - 1 /\ n = B * b + e BY <1>5, <1>6
  <2> HIDE DEF B, e
  <2> QED BY <1>1, <1>2, <1>4, <2>1, Quotient
<1>8. b < Blocks
  <2> SUFFICES ASSUME ~(b < Blocks) PROVE FALSE OBVIOUS
  <2>1. B * Blocks <= B * b
    <3>1. CASE b = Blocks BY <3>1, <1>1
    <3>2. CASE Blocks < b
      <4> HIDE DEF B
      <4>1. B * Blocks + B <= B * b BY <1>1, <1>4, <3>2, Scaled
      <4>2. B * Blocks \in Nat /\ B * b \in Nat BY <1>1, <1>4, SMT
      <4> QED BY <1>1, <4>1, <4>2
    <3> QED BY <1>4, <3>1, <3>2
  <2>2. e \in Nat /\ n = B * b + e BY <1>5, <1>6
  <2>3. B * b \in Nat BY <1>1, <1>4, SMT
  <2>4. n < B * Blocks BY <1>1, <1>2
  <2> DEFINE u == B * b
             v == B * Blocks
  <2>5. v <= u /\ e \in Nat /\ n = u + e /\ u \in Nat /\ n < v /\ v \in Nat
    BY <1>1, <2>1, <2>2, <2>3, <2>4
  <2> HIDE DEF u, v, e, B
  <2> QED BY ONLY <2>5
<1>9. Cell(n) = [blk |-> b, pg |-> p, off |-> r] BY <1>7 DEF Cell, b, p, q, r
<1>10. Cell(n) \in Addr BY <1>3, <1>4, <1>8, <1>9 DEF Addr
<1>11. Number(Cell(n)) = n
  <2>1. Number(Cell(n)) = (b * Pages + p) * PageSize + r BY <1>9 DEF Number
  <2>2. \A x, y, z, t \in Nat : (x * y + z) * t = t * (y * x + z) BY SMT
  <2> QED BY <1>3, <1>4, <2>1, <2>2
<1> QED BY <1>10, <1>11

LEMMA SequentialFollows ==
  ASSUME NEW last \in Addr, NEW a \in Addr, Number(a) = Number(last) + 1,
         \A s \in sent : s \in Addr /\ Number(s) <= Number(last)
  PROVE  MayFollow(last, a) /\ a \notin sent
<1>1. Number(last) \in Nat /\ \A s \in sent : Number(s) \in Nat BY Places
<1>2. a \notin sent BY <1>1
<1>3. CASE PageOf(a) = PageOf(last) /\ a.off = last.off + 1 BY <1>2, <1>3 DEF MayFollow
<1>4. CASE a.off = 0 /\ (a.blk = last.blk \/ a.pg = 0)
  <2>1. \A s \in sent : PageOf(s) # PageOf(a) /\ (a.pg = 0 => s.blk # a.blk)
    <3> SUFFICES ASSUME NEW s \in sent
                 PROVE  PageOf(s) # PageOf(a) /\ (a.pg = 0 => s.blk # a.blk)
      OBVIOUS
    <3>1. s \in Addr /\ Number(s) < Number(a) BY <1>1
    <3> QED BY <1>4, <3>1, PageStart
  <2> QED BY <1>2, <1>4, <2>1 DEF MayFollow
<1> QED BY <1>3, <1>4, NextAddress

\* Rows, and so blocks, come in the order of the numbers.
LEMMA RowsAscend ==
  ASSUME NEW s \in Addr, NEW a \in Addr, Number(s) <= Number(a)
  PROVE  Row(s) <= Row(a) /\ s.blk <= a.blk
<1> USE GeometryAssumption
<1> DEFINE rs == Row(s)
           ra == Row(a)
           so == s.off
           ao == a.off
           sb == s.blk
           ab == a.blk
           sp == s.pg
           ap == a.pg
<1>1. /\ rs \in Nat /\ ra \in Nat /\ so \in 0 .. PageSize - 1 /\ ao \in 0 .. PageSize - 1
      /\ PageSize * rs + so <= PageSize * ra + ao
      /\ PageSize * rs \in Nat /\ PageSize * ra \in Nat
  BY Places
<1>2. /\ sb \in Nat /\ ab \in Nat /\ sp \in 0 .. Pages - 1 /\ ap \in 0 .. Pages - 1
      /\ rs = Pages * sb + sp /\ ra = Pages * ab + ap
  BY Places
<1> HIDE DEF rs, ra, so, ao, sb, ab, sp, ap
<1>3. rs <= ra
  <2> SUFFICES ASSUME ra < rs PROVE FALSE BY <1>1
  <2>1. PageSize * ra + PageSize <= PageSize * rs BY <1>1, Scaled
  <2> QED BY <1>1, <2>1
<1>4. sb <= ab
  <2> SUFFICES ASSUME ab < sb PROVE FALSE BY <1>2
  <2>1. Pages * ab + Pages <= Pages * sb BY <1>2, Scaled
  <2>2. Pages * ab \in Nat /\ Pages * sb \in Nat BY <1>2, SMT
  <2> QED BY <1>2, <1>3, <2>1, <2>2
<1> QED BY <1>3, <1>4 DEF rs, ra, sb, ab

\* A writer that leaves a gap keeps the contract when the gap ends in another page.
LEMMA AscendingFollows ==
  ASSUME NEW last \in Addr, NEW a \in Addr, Number(last) < Number(a), Row(last) # Row(a),
         \A s \in sent : s \in Addr /\ Number(s) <= Number(last)
  PROVE  MayFollow(last, a)
<1>1. Row(last) < Row(a) /\ last.blk <= a.blk /\ Row(last) \in Nat /\ Row(a) \in Nat
      /\ last.blk \in Nat /\ a.blk \in Nat
  <2>1. Row(last) \in Nat /\ Row(a) \in Nat /\ last.blk \in Nat /\ a.blk \in Nat
        /\ Number(last) \in Nat /\ Number(a) \in Nat
    BY Places
  <2>2. Number(last) <= Number(a) BY <2>1
  <2>3. Row(last) <= Row(a) /\ last.blk <= a.blk BY <2>2, RowsAscend
  <2> QED BY <2>1, <2>3
<1>2. ASSUME NEW s \in sent PROVE PageOf(s) # PageOf(a) /\ s.blk <= last.blk /\ s.blk \in Nat
  <2>1. s \in Addr /\ Number(s) <= Number(last) OBVIOUS
  <2>2. Row(s) <= Row(last) /\ s.blk <= last.blk BY <2>1, RowsAscend
  <2>3. Row(s) \in Nat /\ s.blk \in Nat BY <2>1, Places
  <2>4. Row(s) # Row(a) BY <1>1, <2>2, <2>3
  <2>5. PageOf(s) # PageOf(a) BY <2>4 DEF PageOf, Row
  <2> QED BY <2>2, <2>3, <2>5
<1>3. CASE a.blk = last.blk BY <1>2, <1>3 DEF MayFollow
<1>4. CASE a.blk # last.blk
  <2>1. last.blk < a.blk BY <1>1, <1>4
  <2>2. \A s \in sent : s.blk # a.blk BY <1>1, <1>2, <2>1
  <2> QED BY <1>2, <2>2 DEF MayFollow
<1> QED BY <1>3, <1>4

-----------------------------------------------------------------------------
(* FlushedImage speaks of the state after a flush alone. The invariant says at
   every moment where each accepted byte is: in the latch, in the page buffer of
   the open program, or in the array; and that a block or a page a byte waits to
   open holds no other. *)

Shifted == Accepted \ (IF LatchLive THEN {addr_latch} ELSE {})  \* given to the device
InOpen(a) == state \in Addressed /\ PageOf(a) = current_page
Stored(a) == a \in Shifted /\ ~InOpen(a)               \* in the array

\* The blocks that are erased in this upload.
Touched(b) == (\E s \in Accepted : s.blk = b) /\ ~(EraseDue /\ b = addr_latch.blk)

\* The writer's contract, for the byte that waits on the port.
Follows(a) ==
  \/ Accepted = {}
  \/ PageOf(a) = PageOf(addr_latch) /\ a.off = addr_latch.off + 1
  \/ /\ \A s \in Accepted : PageOf(s) # PageOf(a)
     /\ a.blk = addr_latch.blk \/ \A s \in Accepted : s.blk # a.blk

PortHolds ==
  /\ w.valid => w.addr \in sent /\ w.data = image[w.addr] /\ Follows(w.addr)
  /\ \A a \in Addr \ sent : image[a] = Erased

\* Without a byte in the latch the FSM closes the page, for the flush, or rests.
Closes ==
  /\ state = "IDLE" => ~block_valid /\ ((flush /\ ~w.valid) \/ Accepted = {})
  /\ ~LatchLive /\ state \notin {"IDLE", "WRITE_NEXT"} => flush /\ ~w.valid

LatchHolds ==
  /\ state # "IDLE" => addr_latch \in Accepted
  /\ LatchLive => data_latch = image[addr_latch]
  /\ LatchLive /\ state # "WRITE_DATA" =>
       \A s \in Accepted : PageOf(s) = PageOf(addr_latch) => s = addr_latch
  /\ EraseDue => \A s \in Accepted : s.blk = addr_latch.blk => s = addr_latch
  /\ state # "IDLE" /\ ~EraseDue => addr_latch.blk = current_block

\* The address octets of the open frame.
FrameAddressed ==
  /\ state = "ERASE_ADDR" /\ addr_count > 0 => frame[2] = addr_latch.blk
  /\ state = "ERASE_RELEASE" => frame[2] = addr_latch.blk
  /\ state = "WRITE_ADDR" /\ addr_count > 0 => frame[2] = addr_latch.blk
  /\ state = "WRITE_ADDR" /\ addr_count > 1 => frame[3] = addr_latch.pg
  /\ state \in Addressed => frame[2] = current_page[1] /\ frame[3] = current_page[2]

PageHolds ==
  /\ state \in Addressed =>
       current_page[1] = current_block /\ \E s \in Accepted : PageOf(s) = current_page
  /\ state \in {"WRITE_DATA", "WRITE_NEXT"} => PageOf(addr_latch) = current_page
  /\ state = "WRITE_RELEASE" /\ has_next => PageOf(addr_latch) # current_page
  /\ state = "WRITE_DATA" => col = addr_latch.off
  /\ state = "WRITE_NEXT" => col = (addr_latch.off + 1) % PageSize

BufHolds ==
  /\ state \notin Addressed => buf = EmptyBuf
  /\ \A a \in Addr : InOpen(a) => buf[a.off] = IF a \in Shifted THEN image[a] ELSE Erased

MemHolds ==
  \A a \in Addr : Touched(a.blk) => mem[a] = IF Stored(a) THEN image[a] ELSE Erased

StoreInv ==
  PortHolds /\ Closes /\ LatchHolds /\ FrameAddressed /\ PageHolds /\ BufHolds /\ MemHolds

\* Where the bytes are, and what has been erased, as before; and with one byte more.
SamePlaces ==
  /\ mem' = mem
  /\ \A a \in Addr : (Stored(a)' <=> Stored(a)) /\ (Touched(a.blk)' <=> Touched(a.blk))
Same    == SamePlaces /\ Accepted' = Accepted /\ \A a \in Accepted : image'[a] = image[a]
Accepts(x) ==
  /\ SamePlaces
  /\ x \in sent \ Accepted /\ Accepted' = Accepted \cup {x}
  /\ \A a \in sent : image'[a] = image[a]

-----------------------------------------------------------------------------
(* The FSM between two bytes. *)

\* A frame without its whole address leaves the array as it is.
LEMMA ShortFrame ==
  ASSUME Len(frame) = 1, ChipSelectRise
  PROVE  mem' = mem /\ buf' = EmptyBuf
<1>1. ~Erases /\ ~Programs BY DEF Erases, Programs, HasAddress
<1> QED BY <1>1 DEF ChipSelectRise

\* An octet of the opcode or the address leaves the page buffer as it is.
LEMMA HeaderOctet ==
  ASSUME NEW b, Len(frame) < 4, ShiftIn(b)
  PROVE  mem' = mem /\ buf' = buf /\ frame' = Append(frame, b)
BY DEF ShiftIn

\* With every byte where it was, the array is as right as it was.
LEMMA SameMem ==
  ASSUME StoreInv, Same
  PROVE  MemHolds'
<1> SUFFICES ASSUME NEW a \in Addr, Touched(a.blk)'
             PROVE  mem'[a] = IF Stored(a)' THEN image'[a] ELSE Erased
  BY DEF MemHolds
<1>1. Touched(a.blk) /\ (Stored(a)' <=> Stored(a)) /\ mem' = mem BY DEF Same, SamePlaces
<1>2. Stored(a) => image'[a] = image[a] BY DEF Same, Stored, Shifted
<1> QED BY <1>1, <1>2 DEF StoreInv, MemHolds

LEMMA AcceptsMem ==
  ASSUME StoreInv, NEW x, Accepts(x)
  PROVE  MemHolds'
<1> SUFFICES ASSUME NEW a \in Addr, Touched(a.blk)'
             PROVE  mem'[a] = IF Stored(a)' THEN image'[a] ELSE Erased
  BY DEF MemHolds
<1>1. Touched(a.blk) /\ (Stored(a)' <=> Stored(a)) /\ mem' = mem BY DEF Accepts, SamePlaces
<1>2. Stored(a) => image'[a] = image[a] BY DEF Accepts, Stored, Shifted, Accepted
<1> QED BY <1>1, <1>2 DEF StoreInv, MemHolds

\* The FSM on its way from one state without an open program to another.
LEMMA QuietStep ==
  ASSUME StoreInv, FrameAddressed',
         UNCHANGED <<port, mem, addr_latch, data_latch, current_block, block_valid>>,
         state \notin Addressed, state' \notin Addressed, state # "IDLE", state' # "IDLE",
         LatchLive' = LatchLive, EraseDue' = EraseDue, buf' = EmptyBuf
  PROVE  StoreInv' /\ Same
<1> USE DEF port
<1>1. Accepted' = Accepted /\ Shifted' = Shifted BY DEF Accepted, Shifted
<1>2. PortHolds' BY <1>1 DEF StoreInv, PortHolds, Follows
<1>3. Closes' BY DEF StoreInv, Closes, Addressed
<1>4. LatchHolds' BY <1>1 DEF StoreInv, LatchHolds, Addressed
<1>5. PageHolds' BY DEF PageHolds, Addressed
<1>6. BufHolds' BY DEF BufHolds, InOpen
<1>7. Same
  <2>1. \A a \in Addr : Touched(a.blk)' <=> Touched(a.blk) BY <1>1 DEF Touched
  <2>2. \A a \in Addr : Stored(a)' <=> Stored(a) BY <1>1 DEF Stored, InOpen
  <2> QED BY <1>1, <2>1, <2>2 DEF Same, SamePlaces
<1> QED BY <1>2, <1>3, <1>4, <1>5, <1>6, <1>7, SameMem DEF StoreInv

LEMMA SendQuiet ==
  ASSUME StoreInv, ProtocolInv, UNCHANGED port, Wren \/ EraseCmd \/ WriteCmd \/ PollCmd
  PROVE  StoreInv' /\ Same
<1> USE DEF Wren, EraseCmd, WriteCmd, PollCmd, SendOpcode, regs
<1>1. frame = <<>> BY DEF ProtocolInv, FrameShape, AtBoundary
<1>2. mem' = mem /\ buf' = buf BY <1>1, HeaderOctet
<1>3. buf = EmptyBuf BY DEF StoreInv, BufHolds, Addressed
<1>4. state' \in {"WREN_RELEASE", "ERASE_ADDR", "WRITE_ADDR", "POLL_READ"} OBVIOUS
<1>5. state' \in {"ERASE_ADDR", "WRITE_ADDR"} => addr_count' = 0 OBVIOUS
<1>6. FrameAddressed' BY <1>4, <1>5 DEF FrameAddressed, Addressed
<1>7. LatchLive' = LatchLive /\ EraseDue' = EraseDue BY DEF LatchLive, EraseDue, Polling
<1> QED BY <1>2, <1>3, <1>4, <1>6, <1>7, QuietStep DEF Addressed

LEMMA ReleaseQuiet ==
  ASSUME StoreInv, ProtocolInv, UNCHANGED port,
         WrenRelease \/ (PollRelease /\ state' # "IDLE")
  PROVE  StoreInv' /\ Same
<1> USE DEF WrenRelease, PollRelease, regs
<1>1. Len(frame) = 1 BY DEF ProtocolInv, FrameShape, PollStates
<1>2. mem' = mem /\ buf' = EmptyBuf BY <1>1, ShortFrame
<1>3. state' \in {"ERASE_CMD", "WRITE_CMD", "POLL_CMD", "WREN"} OBVIOUS
<1>4. FrameAddressed' BY <1>3 DEF FrameAddressed, Addressed
<1>5. /\ poll_return \in {"WREN_ERASE", "WREN_WRITE", "IDLE"}
      /\ wren_target \in {"ERASE", "WRITE"} /\ status \in BOOLEAN
  BY DEF ProtocolInv, TypeOK, FsmTypeOK
<1>6. LatchLive' = LatchLive /\ EraseDue' = EraseDue
  <2>1. CASE WrenRelease BY <1>5, <2>1 DEF LatchLive, EraseDue, Polling
  <2>2. CASE PollRelease /\ status BY <1>5, <2>2 DEF LatchLive, EraseDue, Polling
  <2>3. CASE PollRelease /\ ~status /\ state' # "IDLE"
    <3>1. /\ state' = "WREN" /\ poll_return # "IDLE" /\ state = "POLL_RELEASE"
          /\ wren_target' = IF poll_return = "WREN_ERASE" THEN "ERASE" ELSE "WRITE"
      BY <2>3
    <3> QED BY <1>5, <3>1 DEF LatchLive, EraseDue, Polling
  <2> QED BY <1>5, <2>1, <2>2, <2>3
<1>7. /\ state \notin Addressed /\ state' \notin Addressed
      /\ state # "IDLE" /\ state' # "IDLE"
      /\ UNCHANGED <<addr_latch, data_latch, current_block>>
  BY <1>3 DEF Addressed
<1>8. block_valid' = block_valid
  <2>1. CASE WrenRelease BY <2>1
  <2>2. CASE PollRelease /\ state' # "IDLE" BY <1>5, <2>2
  <2> QED BY <2>1, <2>2
<1> QED BY <1>2, <1>4, <1>6, <1>7, <1>8, QuietStep

LEMMA PollQuiet ==
  ASSUME StoreInv, ProtocolInv, UNCHANGED port, PollRead \/ PollCapture
  PROVE  StoreInv' /\ Same
<1> USE DEF PollRead, PollCapture, regs, device
<1>1. buf = EmptyBuf BY DEF StoreInv, BufHolds, Addressed
<1>2. FrameAddressed' BY DEF FrameAddressed, Addressed
<1>3. LatchLive' = LatchLive /\ EraseDue' = EraseDue BY DEF LatchLive, EraseDue, Polling
<1> QED BY <1>1, <1>2, <1>3, QuietStep DEF Addressed

LEMMA AddrQuiet ==
  ASSUME StoreInv, ProtocolInv, UNCHANGED port, EraseAddr \/ (WriteAddr /\ addr_count # 2)
  PROVE  StoreInv' /\ Same
<1>1. /\ addr_count \in 0 .. 2 /\ frame \in Seq(Byte) /\ Len(frame) = addr_count + 1
      /\ state \in {"ERASE_ADDR", "WRITE_ADDR"}
  BY DEF EraseAddr, WriteAddr, ProtocolInv, FrameShape, TypeOK, FsmTypeOK, DeviceTypeOK
<1>2. PICK b : ShiftIn(b) /\ (addr_count = 0 => b = addr_latch.blk)
                         /\ (addr_count = 1 /\ state = "WRITE_ADDR" => b = addr_latch.pg)
  BY <1>1 DEF EraseAddr, WriteAddr
<1>3. mem' = mem /\ buf' = buf /\ frame' = Append(frame, b) BY <1>1, <1>2, HeaderOctet
<1>4. buf = EmptyBuf BY <1>1 DEF StoreInv, BufHolds, Addressed
<1>5. Len(frame') = addr_count + 2 /\ frame'[addr_count + 2] = b
  BY <1>1, <1>3
<1>6. addr_count = 1 => frame'[2] = frame[2] BY <1>1, <1>3
<1>7. addr_count = 2 => frame'[2] = frame[2] BY <1>1, <1>3
<1>8. CASE EraseAddr
  <2> USE <1>8 DEF EraseAddr
  <2>1. frame'[2] = addr_latch.blk
    <3>1. CASE addr_count = 0 BY <1>2, <1>5, <3>1
    <3>2. CASE addr_count > 0
      BY <1>1, <1>6, <1>7, <3>2 DEF StoreInv, FrameAddressed
    <3> QED BY <1>1, <3>1, <3>2
  <2>2. state' \in {"ERASE_ADDR", "ERASE_RELEASE"} OBVIOUS
  <2>3. FrameAddressed' BY <2>1, <2>2 DEF FrameAddressed, Addressed
  <2>4. LatchLive' = LatchLive /\ EraseDue' = EraseDue
    BY <2>2 DEF LatchLive, EraseDue, Polling
  <2> QED BY <1>3, <1>4, <2>2, <2>3, <2>4, QuietStep DEF Addressed
<1>9. CASE WriteAddr /\ addr_count # 2
  <2> USE <1>9 DEF WriteAddr
  <2>1. state' = "WRITE_ADDR" /\ addr_count' = addr_count + 1 /\ addr_count \in {0, 1}
    BY <1>1
  <2>2. frame'[2] = addr_latch.blk
    <3>1. CASE addr_count = 0 BY <1>2, <1>5, <3>1
    <3>2. CASE addr_count = 1
      BY <1>6, <3>2 DEF StoreInv, FrameAddressed
    <3> QED BY <2>1, <3>1, <3>2
  <2>3. addr_count = 1 => frame'[3] = addr_latch.pg BY <1>2, <1>5
  <2>4. FrameAddressed' BY <2>1, <2>2, <2>3 DEF FrameAddressed, Addressed
  <2>5. LatchLive' = LatchLive /\ EraseDue' = EraseDue
    BY <2>1 DEF LatchLive, EraseDue, Polling
  <2> QED BY <1>3, <1>4, <2>1, <2>4, <2>5, QuietStep DEF Addressed
<1> QED BY <1>8, <1>9

-----------------------------------------------------------------------------
(* The writer, and the device on its own. *)

\* Nothing the FSM or the device holds changes, and the accepted bytes stay what they are.
LEMMA WriterQuiet ==
  ASSUME StoreInv, UNCHANGED <<device, fsm>>, Accepted' = Accepted, PortHolds',
         \A a \in Accepted : image'[a] = image[a],
         Closes'
  PROVE  StoreInv' /\ Same
<1> USE DEF device, fsm, regs
<1>1. LatchLive' = LatchLive /\ EraseDue' = EraseDue BY DEF LatchLive, EraseDue, Polling
<1>2. Shifted' = Shifted /\ Shifted \subseteq Accepted BY <1>1 DEF Shifted
<1>3. LatchHolds'
  <2>1. LatchLive => addr_latch \in Accepted BY DEF StoreInv, LatchHolds, LatchLive
  <2>2. LatchLive' => data_latch' = image'[addr_latch'] BY <1>1, <2>1 DEF StoreInv, LatchHolds
  <2> QED BY <1>1, <2>2 DEF StoreInv, LatchHolds
<1>4. FrameAddressed' /\ PageHolds' BY DEF StoreInv, FrameAddressed, PageHolds
<1>5. BufHolds' BY <1>2 DEF StoreInv, BufHolds, InOpen
<1>6. Same
  <2>1. \A a \in Addr : Touched(a.blk)' <=> Touched(a.blk) BY <1>1 DEF Touched
  <2>2. \A a \in Addr : Stored(a)' <=> Stored(a) BY <1>2 DEF Stored, InOpen
  <2> QED BY <2>1, <2>2 DEF Same, SamePlaces
<1> QED BY <1>3, <1>4, <1>5, <1>6, SameMem DEF StoreInv

LEMMA OfferStep ==
  ASSUME StoreInv, ProtocolInv, NEW a \in Addr, NEW d \in Payload(a), Offer(a, d)
  PROVE  StoreInv' /\ Same
<1> USE DEF Offer, Put
<1>1. Accepted = sent /\ Accepted' = sent BY DEF Accepted
<1>2. image \in [Addr -> Byte] BY DEF ProtocolInv, TypeOK
<1>3. \A s \in Addr : image'[s] = IF s = a THEN d ELSE image[s] BY <1>2
<1>4. UNCHANGED addr_latch BY DEF fsm, regs
<1>5. Follows(a)' BY <1>1, <1>4 DEF MayFollow, Follows
<1>6. PortHolds' BY <1>3, <1>5 DEF StoreInv, PortHolds
<1>7. \A s \in Accepted : image'[s] = image[s]
  BY <1>1, <1>3 DEF ProtocolInv, TypeOK
<1>8. LatchLive' = LatchLive BY DEF LatchLive, Polling, fsm, regs
<1>9. Closes' BY <1>1, <1>8 DEF StoreInv, Closes, fsm, regs
<1> QED BY <1>1, <1>6, <1>7, <1>9, WriterQuiet

LEMMA RaiseFlushStep == ASSUME StoreInv, RaiseFlush PROVE StoreInv' /\ Same
<1> USE DEF RaiseFlush
<1>1. Accepted' = Accepted BY DEF Accepted
<1>2. PortHolds' BY <1>1 DEF StoreInv, PortHolds, Follows, fsm, regs
<1>3. LatchLive' = LatchLive BY DEF LatchLive, Polling, fsm, regs
<1>4. Closes' BY <1>1, <1>3 DEF StoreInv, Closes, fsm, regs
<1> QED BY <1>1, <1>2, <1>4, WriterQuiet

LEMMA NextSessionStep == ASSUME StoreInv, NextSession PROVE StoreInv'
<1> USE DEF NextSession
<1>1. state' = "IDLE" /\ state = "IDLE" /\ w' = w /\ ~w.valid
  BY DEF fsm, Flushed
<1>2. Accepted' = {} BY DEF Accepted
<1>3. Shifted' = {} BY <1>2 DEF Shifted
<1>4. ~LatchLive' /\ ~EraseDue' BY <1>1 DEF LatchLive, EraseDue, Polling
<1>5. PortHolds' BY <1>1 DEF PortHolds, Blank
<1>6. Closes' BY <1>1, <1>2 DEF StoreInv, Closes, fsm, regs
<1>7. LatchHolds' BY <1>1, <1>4 DEF LatchHolds
<1>8. FrameAddressed' /\ PageHolds' BY <1>1 DEF FrameAddressed, PageHolds, Addressed
<1>9. BufHolds' BY <1>1 DEF StoreInv, BufHolds, InOpen, Addressed, device
<1>10. MemHolds' BY <1>2 DEF MemHolds, Touched
<1> QED BY <1>5, <1>6, <1>7, <1>8, <1>9, <1>10 DEF StoreInv

LEMMA WriteEndsStep ==
  ASSUME StoreInv, WriteEnds, UNCHANGED <<fsm, port>>
  PROVE  StoreInv' /\ Same
<1> USE DEF WriteEnds, fsm, regs, port
<1>1. LatchLive' = LatchLive /\ EraseDue' = EraseDue BY DEF LatchLive, EraseDue, Polling
<1>2. Accepted' = Accepted /\ Shifted' = Shifted BY <1>1 DEF Accepted, Shifted
<1>3. PortHolds' BY <1>2 DEF StoreInv, PortHolds, Follows
<1>4. Closes' /\ LatchHolds' BY <1>1, <1>2 DEF StoreInv, Closes, LatchHolds
<1>5. FrameAddressed' /\ PageHolds' BY <1>2 DEF StoreInv, FrameAddressed, PageHolds
<1>6. BufHolds' BY <1>2 DEF StoreInv, BufHolds, InOpen
<1>7. Same BY <1>1, <1>2 DEF Same, SamePlaces, Stored, InOpen, Touched
<1> QED BY <1>3, <1>4, <1>5, <1>6, <1>7, SameMem DEF StoreInv

LEMMA StutterStep == ASSUME StoreInv, UNCHANGED core PROVE StoreInv' /\ Same
<1> USE DEF core, port
<1>1. Accepted' = Accepted BY DEF Accepted
<1>2. PortHolds' BY <1>1 DEF StoreInv, PortHolds, Follows, fsm, regs
<1>3. Closes' BY <1>1 DEF StoreInv, Closes, LatchLive, Polling, fsm, regs
<1> QED BY <1>1, <1>2, <1>3, WriterQuiet

-----------------------------------------------------------------------------
(* The steps that move a byte, or the contents of a frame. *)

\* The byte on the port is taken, and the next one follows it.
LEMMA TakesFromPort ==
  ASSUME StoreInv, ProtocolInv, TakeByte
  PROVE  /\ Accepted' = Accepted \cup {w.addr} /\ w.addr \in sent \ Accepted
         /\ w.valid /\ w.data = image[w.addr] /\ Follows(w.addr)
         /\ addr_latch' = w.addr /\ data_latch' = w.data
         /\ \A s \in sent : image'[s] = image[s]
         /\ PortHolds'
<1> USE DEF TakeByte
<1>1. /\ w.valid /\ addr_latch' = w.addr /\ data_latch' = w.data
  BY DEF TakesByte, Idle, WriteNextByte, Accept
<1>2. /\ w.addr \in sent /\ w.data = image[w.addr] /\ Follows(w.addr)
  BY <1>1 DEF StoreInv, PortHolds
<1>3. w.addr \notin Accepted /\ sent = Accepted \cup {w.addr} BY <1>1, <1>2 DEF Accepted
<1>4. image \in [Addr -> Byte] /\ sent \subseteq Addr BY DEF ProtocolInv, TypeOK
<1>5. CASE w' = [w EXCEPT !.valid = FALSE] /\ UNCHANGED <<image, sent>>
  <2>1. ~w'.valid BY <1>5 DEF ProtocolInv, TypeOK
  <2>2. Accepted' = sent BY <1>5, <2>1 DEF Accepted
  <2> QED BY <1>1, <1>2, <1>3, <1>5, <2>1, <2>2 DEF StoreInv, PortHolds
<1>6. ASSUME NEW a \in Addr, NEW d \in Payload(a), Put(w.addr, a, d)
      PROVE  Accepted' = sent /\ PortHolds' /\ \A s \in sent : image'[s] = image[s]
  <2> USE <1>6 DEF Put
  <2>1. w'.valid /\ w'.addr = a /\ w'.data = d /\ Accepted' = sent BY DEF Accepted
  <2>2. Follows(a)' BY <1>1, <2>1 DEF MayFollow, Follows
  <2>3. \A s \in Addr : image'[s] = IF s = a THEN d ELSE image[s] BY <1>4
  <2>4. \A s \in Addr \ sent' : image'[s] = Erased BY <2>3 DEF StoreInv, PortHolds
  <2> QED BY <1>4, <2>1, <2>2, <2>3, <2>4 DEF PortHolds
<1> QED BY <1>1, <1>2, <1>3, <1>5, <1>6

\* The first byte of an upload: its block has to be erased.
LEMMA IdleStep ==
  ASSUME StoreInv, ProtocolInv, TakeByte, Idle
  PROVE  StoreInv' /\ Accepts(w.addr)
<1> USE DEF Idle
<1>1. /\ state = "IDLE" /\ state' = "WREN" /\ w.valid
      /\ addr_latch' = w.addr /\ data_latch' = w.data /\ Accepted = {}
      /\ wren_target' = "ERASE" /\ data_latch' = image'[w.addr] /\ PortHolds'
  BY TakesFromPort DEF StoreInv, Closes
<1>2. Accepted' = {w.addr} BY <1>1, TakesFromPort
<1>3. LatchLive' /\ EraseDue' BY <1>1 DEF LatchLive, EraseDue, Polling
<1>5. Closes' BY <1>1, <1>3 DEF Closes
<1>6. LatchHolds' BY <1>1, <1>2, <1>3 DEF LatchHolds
<1>7. FrameAddressed' /\ PageHolds' BY <1>1 DEF FrameAddressed, PageHolds, Addressed
<1>8. BufHolds' BY <1>1 DEF StoreInv, BufHolds, InOpen, Addressed, device
<1>9. SamePlaces
  <2>1. mem' = mem /\ Shifted = {} /\ Shifted' = {}
    BY <1>1, <1>2, <1>3 DEF device, Shifted
  <2>2. \A a \in Addr : ~Touched(a.blk) /\ ~Touched(a.blk)' BY <1>1, <1>2, <1>3 DEF Touched
  <2> QED BY <2>1, <2>2 DEF SamePlaces, Stored
<1>10. Accepts(w.addr) BY <1>9, TakesFromPort DEF Accepts
<1> QED BY <1>1, <1>5, <1>6, <1>7, <1>8, <1>10, AcceptsMem DEF StoreInv

\* A byte that follows, in the open page or out of it.
LEMMA WriteNextByteStep ==
  ASSUME StoreInv, ProtocolInv, TakeByte, WriteNextByte
  PROVE  StoreInv' /\ Accepts(w.addr)
<1> USE DEF WriteNextByte
<1>1. /\ state = "WRITE_NEXT" /\ w.addr \in sent
      /\ addr_latch' = w.addr /\ data_latch' = w.data /\ has_next' = TRUE
      /\ w.data = image'[w.addr] /\ Follows(w.addr)
      /\ \A s \in sent : image'[s] = image[s]
      /\ state' = IF PageOf(w.addr) = current_page THEN "WRITE_DATA" ELSE "WRITE_RELEASE"
      /\ UNCHANGED <<device, current_page, current_block, block_valid>>
  BY TakesFromPort
<1>2. /\ addr_latch \in Accepted /\ PageOf(addr_latch) = current_page
      /\ ~EraseDue /\ addr_latch.blk = current_block /\ current_page[1] = current_block
      /\ ~LatchLive /\ col = (addr_latch.off + 1) % PageSize
  BY <1>1 DEF StoreInv, LatchHolds, PageHolds, LatchLive, EraseDue, Addressed, Polling
<1>3. Accepted' = Accepted \cup {w.addr} /\ w.addr \notin Accepted BY TakesFromPort
<1>4. LatchLive' BY <1>1 DEF LatchLive, Polling
<1>5. Shifted = Accepted /\ Shifted' = Accepted BY <1>1, <1>2, <1>3, <1>4 DEF Shifted
<1>6. EraseDue' <=> w.addr.blk # current_block
  <2>1. CASE PageOf(w.addr) = current_page
    <3>1. w.addr.blk = current_block BY <1>2, <2>1 DEF PageOf
    <3> QED BY <1>1, <2>1, <3>1 DEF EraseDue, Polling
  <2>2. CASE PageOf(w.addr) # current_page BY <1>1, <2>2 DEF EraseDue, Polling
  <2> QED BY <2>1, <2>2
<1>7. PageOf(w.addr) = current_page => w.addr.off = addr_latch.off + 1
  BY <1>1, <1>2 DEF Follows
<1>8. PageOf(w.addr) # current_page =>
        \A s \in Accepted : PageOf(s) # PageOf(w.addr)
  BY <1>1, <1>2 DEF Follows
<1>9. w.addr.blk # current_block => \A s \in Accepted : s.blk # w.addr.blk
  <2> SUFFICES ASSUME w.addr.blk # current_block PROVE \A s \in Accepted : s.blk # w.addr.blk
    OBVIOUS
  <2>1. PageOf(w.addr) # PageOf(addr_latch) BY <1>2 DEF PageOf
  <2> QED BY <1>1, <1>2, <2>1 DEF Follows
<1>10. PortHolds' BY TakesFromPort
<1>11. Closes' BY <1>1, <1>4 DEF Closes
<1>12. LatchHolds' BY <1>1, <1>3, <1>6, <1>8, <1>9 DEF LatchHolds
<1>13. FrameAddressed' BY <1>1 DEF StoreInv, FrameAddressed, Addressed, device
<1>14. PageHolds'
  <2>1. w.addr \in Addr /\ PageSize \in Nat \ {0}
    BY GeometryAssumption DEF ProtocolInv, TypeOK
  <2>2. w.addr.off \in 0 .. PageSize - 1 BY <2>1 DEF Addr
  <2>3. w.addr.off % PageSize = w.addr.off BY <2>1, <2>2
  <2>4. PageOf(w.addr) = current_page => col' = w.addr.off BY <1>1, <1>2, <1>7, <2>3 DEF device
  <2>5. \E s \in Accepted' : PageOf(s) = current_page BY <1>2, <1>3
  <2> QED BY <1>1, <1>2, <2>4, <2>5 DEF PageHolds, Addressed
<1>15. BufHolds'
  <2>1. \A a \in Accepted : image'[a] = image[a] BY <1>1 DEF Accepted
  <2> QED BY <1>1, <1>5, <2>1 DEF StoreInv, BufHolds, InOpen, Addressed, device
<1>16. ASSUME NEW a \in Addr PROVE Touched(a.blk)' <=> Touched(a.blk)
  <2>1. CASE Touched(a.blk)'
    <3>1. PICK s \in Accepted \cup {w.addr} : s.blk = a.blk BY <1>3, <2>1 DEF Touched
    <3>2. ~(w.addr.blk # current_block /\ a.blk = w.addr.blk) BY <1>1, <1>6, <2>1 DEF Touched
    <3>3. \E t \in Accepted : t.blk = a.blk BY <1>2, <3>1, <3>2
    <3> QED BY <1>2, <2>1, <3>3 DEF Touched
  <2>2. CASE Touched(a.blk)
    <3>1. PICK s \in Accepted : s.blk = a.blk BY <2>2 DEF Touched
    <3>2. ~(EraseDue' /\ a.blk = w.addr.blk) BY <1>6, <1>9, <3>1
    <3> QED BY <1>1, <1>3, <2>2, <3>1, <3>2 DEF Touched
  <2> QED BY <2>1, <2>2
<1>17. \A a \in Addr : Stored(a)' <=> Stored(a) BY <1>1, <1>5 DEF Stored, InOpen, Addressed
<1>18. Accepts(w.addr) BY <1>1, <1>3, <1>16, <1>17 DEF Accepts, SamePlaces, device
<1> QED BY <1>10, <1>11, <1>12, <1>13, <1>14, <1>15, <1>18, AcceptsMem
       DEF StoreInv

LEMMA WriteNextFlushStep ==
  ASSUME StoreInv, WriteNextFlush, UNCHANGED port
  PROVE  StoreInv' /\ Same
<1> USE DEF WriteNextFlush, port, device
<1>1. ~LatchLive /\ ~LatchLive' /\ ~EraseDue /\ ~EraseDue'
  BY DEF LatchLive, EraseDue, Polling
<1>2. Accepted' = Accepted /\ Shifted' = Shifted BY <1>1 DEF Accepted, Shifted
<1>3. PortHolds' BY <1>2 DEF StoreInv, PortHolds, Follows
<1>4. Closes' BY DEF Closes
<1>5. LatchHolds' BY <1>1, <1>2 DEF StoreInv, LatchHolds
<1>6. FrameAddressed' BY DEF StoreInv, FrameAddressed, Addressed
<1>7. PageHolds' BY <1>2 DEF StoreInv, PageHolds, Addressed
<1>8. BufHolds' BY <1>2 DEF StoreInv, BufHolds, InOpen, Addressed
<1>9. Same
  <2>1. \A a \in Addr : Touched(a.blk)' <=> Touched(a.blk) BY <1>1, <1>2 DEF Touched
  <2>2. \A a \in Addr : Stored(a)' <=> Stored(a) BY <1>2 DEF Stored, InOpen, Addressed
  <2> QED BY <1>2, <2>1, <2>2 DEF Same, SamePlaces
<1> QED BY <1>3, <1>4, <1>5, <1>6, <1>7, <1>8, <1>9, SameMem DEF StoreInv

\* The last octet of the address opens the page of the latched byte.
LEMMA PageOpenStep ==
  ASSUME StoreInv, ProtocolInv, WriteAddr, addr_count = 2, UNCHANGED port
  PROVE  StoreInv' /\ Same
<1> USE DEF WriteAddr, port
<1>1. /\ state = "WRITE_ADDR" /\ state' = "WRITE_DATA" /\ current_page' = PageOf(addr_latch)
      /\ UNCHANGED <<addr_latch, data_latch, current_block, block_valid, has_next>>
      /\ ShiftIn(addr_latch.off)
  OBVIOUS
<1>2. /\ frame \in Seq(Byte) /\ Len(frame) = 3
      /\ frame[2] = addr_latch.blk /\ frame[3] = addr_latch.pg
  BY <1>1 DEF StoreInv, FrameAddressed, ProtocolInv, FrameShape, TypeOK, DeviceTypeOK
<1>3. mem' = mem /\ buf' = buf /\ frame' = Append(frame, addr_latch.off)
  BY <1>1, <1>2, HeaderOctet
<1>4. col' = addr_latch.off
  <2>1. col' = addr_latch.off % PageSize BY <1>1, <1>2 DEF ShiftIn
  <2>2. addr_latch.off \in 0 .. PageSize - 1 /\ PageSize \in Nat \ {0}
    BY GeometryAssumption DEF ProtocolInv, TypeOK, FsmTypeOK, Addr
  <2> QED BY <2>1, <2>2
<1>5. frame'[2] = addr_latch.blk /\ frame'[3] = addr_latch.pg BY <1>2, <1>3
<1>6. LatchLive /\ LatchLive' /\ ~EraseDue /\ ~EraseDue'
  BY <1>1 DEF LatchLive, EraseDue, Polling
<1>7. Accepted' = Accepted /\ Shifted' = Shifted BY <1>1, <1>6 DEF Accepted, Shifted
<1>8. /\ addr_latch \in Accepted /\ addr_latch.blk = current_block
      /\ \A s \in Accepted : PageOf(s) = PageOf(addr_latch) => s = addr_latch
  BY <1>1, <1>6 DEF StoreInv, LatchHolds
<1>9. \A s \in Shifted : PageOf(s) # PageOf(addr_latch) BY <1>6, <1>8 DEF Shifted
<1>10. PortHolds' BY <1>1, <1>7 DEF StoreInv, PortHolds, Follows
<1>11. Closes' BY <1>1, <1>6 DEF Closes
<1>12. LatchHolds' BY <1>1, <1>6, <1>7 DEF StoreInv, LatchHolds
<1>13. FrameAddressed' BY <1>1, <1>5 DEF FrameAddressed, PageOf
<1>14. PageHolds' BY <1>1, <1>4, <1>7, <1>8 DEF PageHolds, PageOf
<1>15. BufHolds'
  <2>1. buf = EmptyBuf BY <1>1 DEF StoreInv, BufHolds, Addressed
  <2>2. \A a \in Addr : buf[a.off] = Erased BY <2>1 DEF EmptyBuf, Addr
  <2> QED BY <1>1, <1>3, <1>7, <1>9, <2>2 DEF BufHolds, InOpen, Addressed
<1>16. Same
  <2>1. \A a \in Addr : Touched(a.blk)' <=> Touched(a.blk) BY <1>6, <1>7 DEF Touched
  <2>2. \A a \in Addr : Stored(a)' <=> Stored(a)
    BY <1>1, <1>7, <1>9 DEF Stored, InOpen, Addressed
  <2> QED BY <1>3, <1>7, <2>1, <2>2 DEF Same, SamePlaces
<1> QED BY <1>10, <1>11, <1>12, <1>13, <1>14, <1>15, <1>16, SameMem DEF StoreInv

\* The latched byte goes to its column of the page buffer, which is still empty.
LEMMA WriteDataStep ==
  ASSUME StoreInv, ProtocolInv, WriteData, UNCHANGED port
  PROVE  StoreInv' /\ Same
<1> USE DEF WriteData, port, regs
<1>1. /\ state = "WRITE_DATA" /\ state' = "WRITE_NEXT"
      /\ UNCHANGED <<addr_latch, data_latch, current_block, block_valid, has_next, current_page>>
      /\ ShiftIn(data_latch)
  OBVIOUS
<1>2. /\ Len(frame) = 4 /\ col = addr_latch.off /\ PageOf(addr_latch) = current_page
      /\ addr_latch \in Addr /\ data_latch \in Byte /\ buf \in [0 .. PageSize - 1 -> Byte]
  BY <1>1 DEF StoreInv, PageHolds, ProtocolInv, FrameShape, TypeOK, FsmTypeOK, DeviceTypeOK,
              Addressed
<1>3. /\ mem' = mem /\ frame' = frame /\ col' = (col + 1) % PageSize
      /\ buf' = [buf EXCEPT ![col] = BitAnd(buf[col], data_latch)]
  BY <1>1, <1>2 DEF ShiftIn
<1>4. LatchLive /\ ~LatchLive' /\ ~EraseDue /\ ~EraseDue'
  BY <1>1 DEF LatchLive, EraseDue, Polling
<1>5. addr_latch \in Accepted /\ data_latch = image[addr_latch]
  BY <1>1, <1>4 DEF StoreInv, LatchHolds
<1>6. /\ Accepted' = Accepted /\ Shifted = Accepted \ {addr_latch} /\ Shifted' = Accepted
  BY <1>4 DEF Accepted, Shifted
<1>7. \A a \in Addr : InOpen(a) => buf'[a.off] = IF a \in Accepted THEN image[a] ELSE Erased
  <2> SUFFICES ASSUME NEW a \in Addr, InOpen(a)
               PROVE  buf'[a.off] = IF a \in Accepted THEN image[a] ELSE Erased
    OBVIOUS
  <2>1. buf[a.off] = IF a \in Shifted THEN image[a] ELSE Erased
    BY DEF StoreInv, BufHolds
  <2>2. CASE a = addr_latch
    <3>1. buf[a.off] = Erased BY <1>6, <2>1, <2>2
    <3>2. BitAnd(Erased, data_latch) = data_latch BY <1>2, AndAssumption
    <3>3. col \in 0 .. PageSize - 1 BY DEF ProtocolInv, TypeOK, DeviceTypeOK
    <3>4. buf'[a.off] = data_latch BY <1>2, <1>3, <2>2, <3>1, <3>2, <3>3
    <3> QED BY <1>5, <2>2, <3>4
  <2>3. CASE a # addr_latch
    <3>1. a.off # addr_latch.off
      <4>1. a.blk = addr_latch.blk /\ a.pg = addr_latch.pg BY <1>2 DEF InOpen, PageOf
      <4> QED BY <1>2, <2>3, <4>1 DEF Addr
    <3>2. buf'[a.off] = buf[a.off] BY <1>2, <1>3, <3>1 DEF Addr
    <3> QED BY <1>6, <2>1, <2>3, <3>2
  <2> QED BY <2>2, <2>3
<1>8. PortHolds' BY <1>1, <1>6 DEF StoreInv, PortHolds, Follows
<1>9. Closes' BY <1>1 DEF Closes
<1>10. LatchHolds' BY <1>1, <1>4, <1>6 DEF StoreInv, LatchHolds
<1>11. FrameAddressed' BY <1>1, <1>3 DEF StoreInv, FrameAddressed, Addressed
<1>12. PageHolds' BY <1>1, <1>2, <1>3, <1>6 DEF StoreInv, PageHolds, Addressed
<1>13. BufHolds'
  <2>1. \A a \in Addr : InOpen(a)' <=> InOpen(a) BY <1>1 DEF InOpen, Addressed
  <2> QED BY <1>1, <1>6, <1>7, <2>1 DEF BufHolds, Addressed
<1>14. Same
  <2>1. \A a \in Addr : Touched(a.blk)' <=> Touched(a.blk) BY <1>4, <1>6 DEF Touched
  <2>2. \A a \in Addr : Stored(a)' <=> Stored(a)
    BY <1>1, <1>2, <1>6 DEF Stored, InOpen, Addressed
  <2> QED BY <1>3, <1>6, <2>1, <2>2 DEF Same, SamePlaces
<1> QED BY <1>8, <1>9, <1>10, <1>11, <1>12, <1>13, <1>14, SameMem DEF StoreInv

\* The device erases the block the latched byte waits for, and no other.
LEMMA EraseReleaseMem ==
  ASSUME StoreInv, ProtocolInv, EraseRelease
  PROVE  /\ mem' = [a \in Addr |-> IF a.blk = addr_latch.blk THEN Erased ELSE mem[a]]
         /\ buf' = EmptyBuf
<1> USE DEF EraseRelease
<1>1. /\ wel /\ Len(frame) = 4 /\ frame[1] = BLOCK_ERASE /\ frame[2] = addr_latch.blk
      /\ frame # <<>>
  BY DEF StoreInv, FrameAddressed, ProtocolInv, FrameShape, LatchSet, Enabled
<1>2. Erases BY <1>1 DEF Erases, HasAddress, Command
<1>3. addr_latch.blk \in 0 .. Blocks - 1 /\ Blocks \in Nat \ {0}
  BY GeometryAssumption DEF ProtocolInv, TypeOK, FsmTypeOK, Addr
<1>4. FrameBlock = addr_latch.blk BY <1>1, <1>3 DEF FrameBlock
<1> QED BY <1>2, <1>4 DEF ChipSelectRise

LEMMA EraseReleaseStep ==
  ASSUME StoreInv, ProtocolInv, EraseRelease, UNCHANGED port
  PROVE  StoreInv'
<1> USE DEF EraseRelease, port
<1>1. /\ state = "ERASE_RELEASE" /\ state' = "POLL_CMD" /\ poll_return' = "WREN_WRITE"
      /\ current_block' = addr_latch.blk /\ block_valid' = TRUE
      /\ UNCHANGED <<addr_latch, data_latch, current_page, has_next>>
  OBVIOUS
<1>2. /\ mem' = [a \in Addr |-> IF a.blk = addr_latch.blk THEN Erased ELSE mem[a]]
      /\ buf' = EmptyBuf
  BY EraseReleaseMem
<1>3. LatchLive /\ LatchLive' /\ EraseDue /\ ~EraseDue'
  BY <1>1 DEF LatchLive, EraseDue, Polling
<1>4. Accepted' = Accepted /\ Shifted' = Shifted BY <1>1, <1>3 DEF Accepted, Shifted
<1>5. \A s \in Accepted : s.blk = addr_latch.blk => s = addr_latch
  BY <1>3 DEF StoreInv, LatchHolds
<1>6. PortHolds' BY <1>1, <1>4 DEF StoreInv, PortHolds, Follows
<1>7. Closes' BY <1>1, <1>3 DEF Closes
<1>8. LatchHolds' BY <1>1, <1>3, <1>4 DEF StoreInv, LatchHolds
<1>9. FrameAddressed' /\ PageHolds' BY <1>1 DEF FrameAddressed, PageHolds, Addressed
<1>10. BufHolds' BY <1>1, <1>2 DEF BufHolds, InOpen, Addressed
<1>11. MemHolds'
  <2> SUFFICES ASSUME NEW a \in Addr, Touched(a.blk)'
               PROVE  mem'[a] = IF Stored(a)' THEN image[a] ELSE Erased
    BY DEF MemHolds
  <2>1. Stored(a)' <=> Stored(a) BY <1>1, <1>4 DEF Stored, InOpen, Addressed
  <2>2. CASE a.blk = addr_latch.blk
    <3>1. mem'[a] = Erased BY <1>2, <2>2
    <3>2. ~Stored(a) BY <1>3, <1>5, <2>2 DEF Stored, Shifted
    <3> QED BY <2>1, <3>1, <3>2
  <2>3. CASE a.blk # addr_latch.blk
    <3>1. Touched(a.blk) BY <1>4, <2>3 DEF Touched
    <3>2. mem'[a] = mem[a] BY <1>2, <2>3
    <3> QED BY <2>1, <3>1, <3>2 DEF StoreInv, MemHolds
  <2> QED BY <2>2, <2>3
<1> QED BY <1>6, <1>7, <1>8, <1>9, <1>10, <1>11 DEF StoreInv

\* The frame holds a page program with its address only while a page is open.
LEMMA AddressedFrame ==
  ASSUME ProtocolInv, HasAddress, Command(PAGE_PROGRAM)
  PROVE  state \in Addressed
<1>1. Len(frame) = 4 /\ frame[1] = 2 /\ FrameShape /\ state \in States
  BY DEF ProtocolInv, TypeOK, FsmTypeOK, HasAddress, Command, PAGE_PROGRAM
<1>2. frame # <<>> /\ frame # <<WRITE_ENABLE>> /\ frame # <<READ_STATUS>>
  <2>1. Len(<<>>) = 0 /\ Len(<<WRITE_ENABLE>>) = 1 /\ Len(<<READ_STATUS>>) = 1 OBVIOUS
  <2>2. Len(frame) # 0 /\ Len(frame) # 1 BY <1>1
  <2> QED BY <2>1, <2>2, Zenon
<1>3. /\ state \notin AtBoundary /\ state # "WREN_RELEASE"
      /\ state \notin PollStates \ {"POLL_CMD"}
  BY <1>1, <1>2 DEF FrameShape
<1>4. state \notin {"ERASE_ADDR", "ERASE_RELEASE"} BY <1>1 DEF FrameShape, BLOCK_ERASE
<1>5. CASE state = "WRITE_ADDR"
  <2>1. addr_count + 1 = 4 BY <1>1, <1>5 DEF FrameShape
  <2> QED BY <2>1 DEF ProtocolInv, TypeOK, FsmTypeOK
<1> QED BY <1>1, <1>3, <1>4, <1>5 DEF States, AtBoundary, PollStates, Addressed

\* The device takes the page the FSM means.
LEMMA FrameOfPage ==
  ASSUME StoreInv, ProtocolInv, state \in Addressed
  PROVE  FrameBlock = current_page[1] /\ FramePage = current_page[2]
<1>1. /\ frame[2] = current_page[1] /\ frame[3] = current_page[2]
      /\ current_page \in (0 .. Blocks - 1) \X (0 .. Pages - 1)
      /\ Blocks \in Nat \ {0} /\ Pages \in Nat \ {0}
  BY GeometryAssumption DEF StoreInv, FrameAddressed, ProtocolInv, TypeOK, FsmTypeOK
<1>2. current_page[1] \in 0 .. Blocks - 1 /\ current_page[2] \in 0 .. Pages - 1 BY <1>1
<1>3. frame[2] % Blocks = current_page[1] BY <1>1, <1>2
<1>4. frame[3] % Pages = current_page[2] BY <1>1, <1>2
<1> QED BY <1>3, <1>4 DEF FrameBlock, FramePage

\* An open page belongs to a block that is erased, and is still empty.
LEMMA OpenPageErased ==
  ASSUME StoreInv, NEW a \in Addr, InOpen(a)
  PROVE  mem[a] = Erased
<1>1. /\ state \in Addressed /\ PageOf(a) = current_page /\ current_page[1] = current_block
      /\ \E s \in Accepted : PageOf(s) = current_page
  BY DEF InOpen, StoreInv, PageHolds
<1>2. a.blk = current_block BY <1>1 DEF PageOf
<1>3. \E s \in Accepted : s.blk = a.blk BY <1>1, <1>2 DEF PageOf
<1>4. EraseDue => addr_latch.blk # current_block BY <1>1 DEF EraseDue, Addressed, Polling
<1>5. Touched(a.blk) BY <1>2, <1>3, <1>4 DEF Touched
<1>6. ~Stored(a) BY DEF Stored
<1> QED BY <1>5, <1>6 DEF StoreInv, MemHolds

\* The device programs the open page: what is in the buffer is in the array then.
LEMMA WriteReleaseMem ==
  ASSUME StoreInv, ProtocolInv, WriteRelease
  PROVE  /\ mem' = [a \in Addr |-> IF InOpen(a) THEN buf[a.off] ELSE mem[a]]
         /\ buf' = EmptyBuf
<1> USE DEF WriteRelease
<1>1. /\ wel /\ Len(frame) = 4 /\ frame[1] = PAGE_PROGRAM /\ frame # <<>>
      /\ state = "WRITE_RELEASE" /\ state \in Addressed
  BY DEF ProtocolInv, FrameShape, LatchSet, Enabled, Addressed
<1>2. ~Erases /\ Programs
  BY <1>1 DEF Erases, Programs, HasAddress, Command, BLOCK_ERASE, PAGE_PROGRAM
<1>3. current_page \in (0 .. Blocks - 1) \X (0 .. Pages - 1)
  BY DEF ProtocolInv, TypeOK, FsmTypeOK
<1>4. FrameBlock = current_page[1] /\ FramePage = current_page[2] BY <1>1, FrameOfPage
<1>5. mem' = [a \in Addr |-> Programmed(a)] /\ buf' = EmptyBuf BY <1>2 DEF ChipSelectRise
<1>6. ASSUME NEW a \in Addr PROVE Programmed(a) = IF InOpen(a) THEN buf[a.off] ELSE mem[a]
  <2>1. InOpen(a) <=> a.blk = FrameBlock /\ a.pg = FramePage
    BY <1>1, <1>3, <1>4 DEF InOpen, PageOf, Addressed
  <2>2. CASE InOpen(a)
    <3>1. mem[a] = Erased BY <2>2, OpenPageErased
    <3>2. buf[a.off] \in Byte BY DEF ProtocolInv, TypeOK, DeviceTypeOK, Addr
    <3>3. BitAnd(mem[a], buf[a.off]) = buf[a.off] BY <3>1, <3>2, AndAssumption
    <3> QED BY <2>1, <2>2, <3>3 DEF Programmed
  <2>3. CASE ~InOpen(a) BY <2>1, <2>3 DEF Programmed
  <2> QED BY <2>2, <2>3
<1> QED BY <1>5, <1>6

LEMMA WriteReleaseStep ==
  ASSUME StoreInv, ProtocolInv, WriteRelease, UNCHANGED port
  PROVE  StoreInv'
<1> USE DEF WriteRelease, port
<1>1. /\ state = "WRITE_RELEASE" /\ state' = "POLL_CMD"
      /\ poll_return' = IF ~has_next THEN "IDLE"
                        ELSE IF addr_latch.blk # current_block THEN "WREN_ERASE"
                        ELSE "WREN_WRITE"
      /\ UNCHANGED <<addr_latch, data_latch, current_block, block_valid, current_page, has_next>>
  OBVIOUS
<1>2. /\ \A a \in Addr : mem'[a] = IF InOpen(a) THEN buf[a.off] ELSE mem[a]
      /\ buf' = EmptyBuf
  BY WriteReleaseMem
<1>3. has_next \in BOOLEAN BY DEF ProtocolInv, TypeOK, FsmTypeOK
<1>4. (LatchLive' <=> LatchLive) /\ (EraseDue' <=> EraseDue)
  BY <1>1, <1>3 DEF LatchLive, EraseDue, Polling
<1>5. Accepted' = Accepted /\ Shifted' = Shifted BY <1>1, <1>4 DEF Accepted, Shifted
<1>6. PortHolds' BY <1>1, <1>5 DEF StoreInv, PortHolds, Follows
<1>7. Closes' BY <1>1, <1>4 DEF StoreInv, Closes
<1>8. LatchHolds' BY <1>1, <1>4, <1>5 DEF StoreInv, LatchHolds
<1>9. FrameAddressed' /\ PageHolds' BY <1>1 DEF FrameAddressed, PageHolds, Addressed
<1>10. BufHolds' BY <1>1, <1>2 DEF BufHolds, InOpen, Addressed
<1>11. MemHolds'
  <2> SUFFICES ASSUME NEW a \in Addr, Touched(a.blk)'
               PROVE  mem'[a] = IF Stored(a)' THEN image[a] ELSE Erased
    BY DEF MemHolds
  <2>1. Touched(a.blk) BY <1>1, <1>4, <1>5 DEF Touched
  <2>2. Stored(a)' <=> a \in Shifted BY <1>1, <1>5 DEF Stored, InOpen, Addressed
  <2>3. CASE InOpen(a) BY <1>2, <2>2, <2>3 DEF StoreInv, BufHolds
  <2>4. CASE ~InOpen(a)
    <3>1. Stored(a) <=> a \in Shifted BY <2>4 DEF Stored
    <3> QED BY <1>2, <2>1, <2>2, <2>4, <3>1 DEF StoreInv, MemHolds
  <2> QED BY <2>3, <2>4
<1> QED BY <1>6, <1>7, <1>8, <1>9, <1>10, <1>11 DEF StoreInv

\* The poll after the last page ends the upload.
LEMMA UploadEndStep ==
  ASSUME StoreInv, ProtocolInv, PollRelease, state' = "IDLE", UNCHANGED port
  PROVE  StoreInv' /\ Same
<1> USE DEF PollRelease, port
<1>1. /\ state = "POLL_RELEASE" /\ poll_return = "IDLE" /\ block_valid' = FALSE
      /\ UNCHANGED <<addr_latch, data_latch, current_block, current_page, has_next>>
  <2>1. status \in BOOLEAN BY DEF ProtocolInv, TypeOK, FsmTypeOK
  <2> QED BY <2>1
<1>2. Len(frame) = 1 BY <1>1 DEF ProtocolInv, FrameShape, PollStates
<1>3. mem' = mem /\ buf' = EmptyBuf BY <1>2, ShortFrame
<1>4. ~LatchLive /\ ~LatchLive' /\ ~EraseDue /\ ~EraseDue'
  BY <1>1 DEF LatchLive, EraseDue, Polling
<1>5. Accepted' = Accepted /\ Shifted' = Shifted BY <1>4 DEF Accepted, Shifted
<1>6. flush /\ ~w.valid BY <1>1, <1>4 DEF StoreInv, Closes
<1>7. PortHolds' BY <1>1, <1>5 DEF StoreInv, PortHolds, Follows
<1>8. Closes' BY <1>1, <1>6 DEF Closes
<1>9. LatchHolds' BY <1>4 DEF LatchHolds
<1>10. FrameAddressed' /\ PageHolds' BY DEF FrameAddressed, PageHolds, Addressed
<1>11. BufHolds' BY <1>3 DEF BufHolds, InOpen, Addressed
<1>12. Same
  <2>1. \A a \in Addr : Touched(a.blk)' <=> Touched(a.blk) BY <1>1, <1>4, <1>5 DEF Touched
  <2>2. \A a \in Addr : Stored(a)' <=> Stored(a) BY <1>1, <1>5 DEF Stored, InOpen, Addressed
  <2> QED BY <1>3, <1>5, <2>1, <2>2 DEF Same, SamePlaces
<1> QED BY <1>7, <1>8, <1>9, <1>10, <1>11, <1>12, SameMem DEF StoreInv

-----------------------------------------------------------------------------
(* The theorems. *)

LEMMA StoreInit == Init => StoreInv
<1> SUFFICES ASSUME Init PROVE StoreInv OBVIOUS
<1> USE DEF Init, DeviceInit, FsmInit
<1>1. Accepted = {} BY DEF Accepted
<1>2. ~LatchLive /\ ~EraseDue BY DEF LatchLive, EraseDue, Polling
<1>3. PortHolds BY DEF PortHolds, Blank
<1>4. Closes BY <1>1 DEF Closes
<1>5. LatchHolds BY <1>2 DEF LatchHolds
<1>6. FrameAddressed /\ PageHolds BY DEF FrameAddressed, PageHolds, Addressed
<1>7. BufHolds BY DEF BufHolds, InOpen, Addressed
<1>8. MemHolds BY <1>1 DEF MemHolds, Touched
<1> QED BY <1>3, <1>4, <1>5, <1>6, <1>7, <1>8 DEF StoreInv

LEMMA StoreStep == StoreInv /\ ProtocolInv /\ [Next]_core => StoreInv'
<1> SUFFICES ASSUME StoreInv, ProtocolInv, [Next]_core PROVE StoreInv' OBVIOUS
<1>1. CASE TakeByte BY <1>1, IdleStep, WriteNextByteStep DEF TakeByte, TakesByte
<1>2. CASE WorksAlone /\ UNCHANGED port
  <2>1. CASE Wren \/ EraseCmd \/ WriteCmd \/ PollCmd BY <1>2, <2>1, SendQuiet
  <2>2. CASE WrenRelease BY <1>2, <2>2, ReleaseQuiet
  <2>3. CASE PollRelease BY <1>2, <2>3, ReleaseQuiet, UploadEndStep
  <2>4. CASE PollRead \/ PollCapture BY <1>2, <2>4, PollQuiet
  <2>5. CASE EraseAddr BY <1>2, <2>5, AddrQuiet
  <2>6. CASE WriteAddr BY <1>2, <2>6, AddrQuiet, PageOpenStep
  <2>7. CASE EraseRelease BY <1>2, <2>7, EraseReleaseStep
  <2>8. CASE WriteData BY <1>2, <2>8, WriteDataStep
  <2>9. CASE WriteNextFlush BY <1>2, <2>9, WriteNextFlushStep
  <2>10. CASE WriteRelease BY <1>2, <2>10, WriteReleaseStep
  <2> QED
    BY <1>2, <2>1, <2>2, <2>3, <2>4, <2>5, <2>6, <2>7, <2>8, <2>9, <2>10 DEF WorksAlone
<1>3. CASE WriterStep BY <1>3, OfferStep, RaiseFlushStep, NextSessionStep DEF WriterStep
<1>4. CASE DeviceStep BY <1>4, WriteEndsStep DEF DeviceStep
<1>5. CASE UNCHANGED core BY <1>5, StutterStep
<1> QED BY <1>1, <1>2, <1>3, <1>4, <1>5 DEF Next, FsmStep

\* Where every accepted byte is at every moment: latch, page buffer or array.
THEOREM BytesKept == Spec => []StoreInv
BY StoreInit, StoreStep, ProtocolCorrect, CoreStep, PTL DEF Spec

LEMMA FlushStores ==
  ASSUME ProtocolInv, StoreInv, Flushed
  PROVE  ~wip /\ \A a \in Addr : (\E s \in sent : s.blk = a.blk) => mem[a] = image[a]
<1> USE DEF Flushed
<1>1. ~wip BY DEF ProtocolInv, NotBusy, PollStates
<1>2. Accepted = sent /\ ~LatchLive /\ ~EraseDue
  BY DEF Accepted, LatchLive, EraseDue, Polling
<1>3. ASSUME NEW a \in Addr, NEW s \in sent, s.blk = a.blk PROVE mem[a] = image[a]
  <2>1. Touched(a.blk) BY <1>2, <1>3 DEF Touched
  <2>2. Stored(a) <=> a \in sent BY <1>2 DEF Stored, Shifted, InOpen, Addressed
  <2>3. a \notin sent => image[a] = Erased BY DEF StoreInv, PortHolds
  <2> QED BY <2>1, <2>2, <2>3 DEF StoreInv, MemHolds
<1> QED BY <1>1, <1>3

\* After a flush the blocks of the upload hold the image and nothing else, for every geometry
\* and every upload that keeps the writer's contract.
THEOREM ImageFlushed == Spec => []FlushedImage
<1>1. ProtocolInv /\ StoreInv => FlushedImage BY FlushStores DEF FlushedImage
<1> QED BY <1>1, ProtocolCorrect, BytesKept, PTL

\* A page program finds its page erased, under the same conditions.
THEOREM ErasedBeforeProgram == Spec => []ProgramsErasedCells
<1>1. ProtocolInv /\ StoreInv => ProgramsErasedCells
  <2> SUFFICES ASSUME ProtocolInv, StoreInv, HasAddress, Command(PAGE_PROGRAM),
                      NEW o \in 0 .. PageSize - 1
               PROVE  mem[[blk |-> FrameBlock, pg |-> FramePage, off |-> o]] = Erased
    BY DEF ProgramsErasedCells
  <2>1. state \in Addressed BY AddressedFrame
  <2>2. /\ FrameBlock = current_page[1] /\ FramePage = current_page[2]
        /\ current_page \in (0 .. Blocks - 1) \X (0 .. Pages - 1)
    BY <2>1, FrameOfPage DEF ProtocolInv, TypeOK, FsmTypeOK
  <2> DEFINE a == [blk |-> FrameBlock, pg |-> FramePage, off |-> o]
  <2>3. a \in Addr BY <2>2 DEF Addr
  <2>4. PageOf(a) = current_page BY <2>2 DEF PageOf
  <2>5. InOpen(a) BY <2>1, <2>4 DEF InOpen
  <2> HIDE DEF a
  <2>6. mem[a] = Erased BY <2>3, <2>5, OpenPageErased
  <2> QED BY <2>6 DEF a
<1> QED BY <1>1, ProtocolCorrect, BytesKept, PTL

\* Nothing outside the blocks of the upload changes.
THEOREM OthersUntouched == Spec => OnlyUploadedBlocks
<1> DEFINE Kept == \A a \in Addr : mem'[a] # mem[a] => \E s \in sent : s.blk = a.blk
<1>1. ProtocolInv /\ StoreInv /\ [Next /\ Count]_vars => [Kept]_vars
  <2> SUFFICES ASSUME ProtocolInv, StoreInv, Next PROVE Kept OBVIOUS
  <2>1. Accepted \subseteq sent BY DEF Accepted
  <2>2. CASE EraseRelease
    <3>1. addr_latch \in sent
      BY <2>1, <2>2 DEF EraseRelease, StoreInv, LatchHolds
    <3>2. \A a \in Addr : a.blk # addr_latch.blk => mem'[a] = mem[a]
      BY <2>2, EraseReleaseMem
    <3> QED BY <3>1, <3>2
  <2>3. CASE WriteRelease
    <3>1. \A a \in Addr : ~InOpen(a) => mem'[a] = mem[a] BY <2>3, WriteReleaseMem
    <3>2. PICK s \in sent : PageOf(s) = current_page
      BY <2>1, <2>3 DEF WriteRelease, StoreInv, PageHolds, Addressed
    <3>3. \A a \in Addr : InOpen(a) => s.blk = a.blk BY <3>2 DEF InOpen, PageOf
    <3> QED BY <3>1, <3>2, <3>3
  <2>4. CASE WrenRelease \/ PollRelease
    <3>1. Len(frame) = 1
      BY <2>4 DEF WrenRelease, PollRelease, ProtocolInv, FrameShape, PollStates
    <3>2. mem' = mem BY <2>4, <3>1, ShortFrame DEF WrenRelease, PollRelease
    <3> QED BY <3>2
  <2>5. CASE Wren \/ EraseCmd \/ EraseAddr \/ WriteCmd \/ WriteAddr \/ WriteData \/ PollCmd
    <3>1. mem' = mem
      BY <2>5 DEF Wren, EraseCmd, EraseAddr, WriteCmd, WriteAddr, WriteData, PollCmd,
                  SendOpcode, ShiftIn
    <3> QED BY <3>1
  <2>6. CASE Idle \/ WriteNextByte \/ WriteNextFlush \/ PollRead \/ PollCapture
    <3>1. mem' = mem
      BY <2>6 DEF Idle, WriteNextByte, WriteNextFlush, PollRead, PollCapture, device
    <3> QED BY <3>1
  <2>7. CASE WriterStep \/ DeviceStep
    <3>1. mem' = mem
      BY <2>7 DEF WriterStep, Offer, RaiseFlush, NextSession, DeviceStep, WriteEnds, device
    <3> QED BY <3>1
  <2> QED
    BY <2>2, <2>3, <2>4, <2>5, <2>6, <2>7 DEF Next, FsmStep, TakeByte, TakesByte, WorksAlone
<1> QED BY <1>1, ProtocolCorrect, BytesKept, PTL DEF Spec, OnlyUploadedBlocks

-----------------------------------------------------------------------------
(* FlashUpload implements ImageStore. StoreInv tells where each accepted byte
   is, so the mapping can be read off Accepted, Stored and Touched; a step that
   keeps the three stutters, and four kinds of step change them. *)

\* The mapping, in the terms of the invariant.
PendingMapped ==
  \A a \in Addr : Unstored(a) = IF a \in Accepted /\ ~Stored(a) THEN image[a] ELSE None
FreshMapped == ErasedBlocks = {s.blk : s \in {s \in Accepted : Touched(s.blk)}}

Mapped ==
  /\ PendingMapped /\ FreshMapped
  /\ Accepted \subseteq Addr /\ \A a \in Accepted : image[a] \in Byte

\* The frame holds a page program and its address just while the FSM has a page open.
LEMMA InOpenAgrees ==
  ASSUME StoreInv, ProtocolInv, NEW a \in Addr
  PROVE  InOpenPage(a) <=> InOpen(a)
<1>1. CASE state \in Addressed
  <2>1. Len(frame) = 4 /\ frame[1] = PAGE_PROGRAM /\ frame # <<>>
    BY <1>1 DEF ProtocolInv, FrameShape, Addressed
  <2>2. FrameBlock = current_page[1] /\ FramePage = current_page[2]
    BY <1>1, FrameOfPage
  <2>3. current_page = <<current_page[1], current_page[2]>>
    BY DEF ProtocolInv, TypeOK, FsmTypeOK
  <2> QED BY <1>1, <2>1, <2>2, <2>3 DEF InOpenPage, InOpen, HasAddress, Command, PageOf
<1>2. CASE state \notin Addressed BY <1>2, AddressedFrame DEF InOpenPage, InOpen
<1> QED BY <1>1, <1>2

LEMMA MappingHolds == ProtocolInv /\ StoreInv => Mapped
<1> SUFFICES ASSUME ProtocolInv, StoreInv PROVE Mapped OBVIOUS
<1>1. Accepted \subseteq Addr /\ image \in [Addr -> Byte]
  BY DEF ProtocolInv, TypeOK, Accepted
<1>2. ASSUME NEW a \in Addr
      PROVE  Unstored(a) = IF a \in Accepted /\ ~Stored(a) THEN image[a] ELSE None
  <2>1. CASE LatchLive /\ a = addr_latch
    <3>1. a \in Accepted /\ data_latch = image[a] /\ a \notin Shifted
      BY <2>1 DEF StoreInv, LatchHolds, LatchLive, Shifted
    <3> QED BY <2>1, <3>1 DEF Unstored, Stored
  <2>2. CASE ~(LatchLive /\ a = addr_latch)
    <3>1. a \in Accepted <=> a \in Shifted BY <2>2 DEF Shifted
    <3>2. InOpenPage(a) <=> InOpen(a) BY InOpenAgrees
    <3>3. InOpen(a) /\ a \in Shifted => buf[a.off] = image[a] BY DEF StoreInv, BufHolds
    <3> QED BY <2>2, <3>1, <3>2, <3>3 DEF Unstored, Stored
  <2> QED BY <2>1, <2>2
<1>3. FreshMapped BY DEF FreshMapped, ErasedBlocks, Touched
<1> QED BY <1>1, <1>2, <1>3 DEF Mapped, PendingMapped

-----------------------------------------------------------------------------
(* One step of FlashUpload through the mapping. *)

Pending == [a \in Addr |-> Unstored(a)]
AbstractVars == <<mem, Pending, ErasedBlocks>>

LEMMA SameStutters ==
  ASSUME Mapped, Mapped', Same
  PROVE  UNCHANGED AbstractVars
<1> USE DEF Mapped
<1>1. \A a \in Addr : Unstored(a)' = Unstored(a) BY DEF PendingMapped, Same, SamePlaces
<1>2. ErasedBlocks' = ErasedBlocks BY DEF FreshMapped, Same, SamePlaces
<1> QED BY <1>1, <1>2 DEF AbstractVars, Pending, Same, SamePlaces

LEMMA AcceptsAccepts ==
  ASSUME Mapped, Mapped', NEW x \in Addr, Accepts(x)
  PROVE  Store!Accept(x)
<1> USE DEF Mapped
<1>1. /\ x \notin Accepted /\ Accepted' = Accepted \cup {x}
      /\ mem' = mem /\ x \in sent /\ \A a \in Accepted \cup {x} : image'[a] = image[a]
      /\ \A a \in Addr : (Stored(a)' <=> Stored(a)) /\ (Touched(a.blk)' <=> Touched(a.blk))
  BY DEF Accepts, SamePlaces, Accepted
<1>2. ~Stored(x) BY <1>1 DEF Stored, Shifted
<1>3. Unstored(x) = None BY <1>1 DEF PendingMapped
<1>4. Unstored(x)' = image[x] /\ Unstored(x)' \in Byte BY <1>1, <1>2 DEF PendingMapped
<1>5. \A a \in Addr : a # x => Unstored(a)' = Unstored(a) BY <1>1 DEF PendingMapped
<1>6. ErasedBlocks' = ErasedBlocks
  <2>1. ~Touched(x.blk) \/ \E s \in Accepted : s.blk = x.blk BY DEF Touched
  <2> QED BY <1>1, <2>1 DEF FreshMapped
<1>7. Pending' = [Pending EXCEPT ![x] = Pending'[x]] BY <1>5 DEF Pending
<1> QED BY <1>1, <1>3, <1>4, <1>6, <1>7 DEF Store!Accept, Pending

LEMMA EraseErases ==
  ASSUME Mapped, Mapped', StoreInv, ProtocolInv, EraseRelease, UNCHANGED port
  PROVE  Store!EraseBlock(addr_latch.blk)
<1> USE DEF Mapped
<1>1. /\ state = "ERASE_RELEASE" /\ state' = "POLL_CMD" /\ poll_return' = "WREN_WRITE"
      /\ addr_latch' = addr_latch /\ image' = image
  BY DEF EraseRelease, port
<1>2. mem' = [a \in Addr |-> IF a.blk = addr_latch.blk THEN Erased ELSE mem[a]]
  BY EraseReleaseMem
<1>3. LatchLive /\ LatchLive' /\ EraseDue /\ ~EraseDue'
  BY <1>1 DEF LatchLive, EraseDue, Polling
<1>4. Accepted' = Accepted /\ Shifted' = Shifted
  BY <1>1, <1>3 DEF Accepted, Shifted, port
<1>5. addr_latch \in Accepted /\ addr_latch \in Addr
  BY <1>1 DEF StoreInv, LatchHolds
<1>6. \A a \in Addr : Stored(a)' <=> Stored(a) BY <1>1, <1>4 DEF Stored, InOpen, Addressed
<1>7. Pending' = Pending BY <1>1, <1>4, <1>6 DEF PendingMapped, Pending
<1>8. addr_latch.blk \notin ErasedBlocks BY <1>3 DEF ErasedBlocks
<1>9. ErasedBlocks' = ErasedBlocks \cup {addr_latch.blk}
  BY <1>3, <1>4, <1>5 DEF ErasedBlocks
<1>10. \E a \in Addr : a.blk = addr_latch.blk /\ Pending[a] # None
  <2>1. Unstored(addr_latch) = image[addr_latch] /\ image[addr_latch] \in Byte
    BY <1>3, <1>5 DEF PendingMapped, Stored, Shifted
  <2> QED BY <1>5, <2>1, NoneAssumption DEF Pending
<1> QED BY <1>2, <1>7, <1>8, <1>9, <1>10 DEF Store!EraseBlock, Pending

LEMMA ProgramStores ==
  ASSUME Mapped, Mapped', StoreInv, ProtocolInv, WriteRelease, UNCHANGED port
  PROVE  \E s \in Addr : Store!StorePage(s.blk, s.pg)
<1> USE DEF Mapped
<1>1. /\ state = "WRITE_RELEASE" /\ state' = "POLL_CMD"
      /\ poll_return' = IF ~has_next THEN "IDLE"
                        ELSE IF addr_latch.blk # current_block THEN "WREN_ERASE"
                        ELSE "WREN_WRITE"
      /\ UNCHANGED <<addr_latch, current_block, has_next, image>>
  BY DEF WriteRelease, port
<1>2. mem' = [a \in Addr |-> IF InOpen(a) THEN buf[a.off] ELSE mem[a]]
  BY WriteReleaseMem
<1>3. has_next \in BOOLEAN BY DEF ProtocolInv, TypeOK, FsmTypeOK
<1>4. (LatchLive' <=> LatchLive) /\ (EraseDue' <=> EraseDue)
  BY <1>1, <1>3 DEF LatchLive, EraseDue, Polling
<1>5. Accepted' = Accepted /\ Shifted' = Shifted /\ ErasedBlocks' = ErasedBlocks
  BY <1>1, <1>4 DEF Accepted, Shifted, ErasedBlocks, port
<1>6. PICK s \in Accepted : PageOf(s) = current_page
  BY <1>1 DEF StoreInv, PageHolds, Addressed
<1>7. s \in Addr /\ s.blk = current_block BY <1>1, <1>6 DEF StoreInv, PageHolds, Addressed, PageOf
<1>8. s.blk \in ErasedBlocks
  <2>1. EraseDue => addr_latch.blk # current_block BY <1>1 DEF EraseDue, Polling
  <2> QED BY <1>6, <1>7, <2>1 DEF ErasedBlocks
<1>9. \A a \in Addr : InOpen(a) <=> a.blk = s.blk /\ a.pg = s.pg
  BY <1>1, <1>6 DEF InOpen, PageOf, Addressed
<1>10. ASSUME NEW a \in Addr
       PROVE  mem'[a] = IF InOpen(a) /\ Unstored(a) # None THEN Unstored(a) ELSE mem[a]
  <2>1. CASE InOpen(a) /\ a \in Shifted
    <3>1. a \in Accepted /\ ~Stored(a) /\ buf[a.off] = image[a]
      BY <2>1 DEF Shifted, Stored, StoreInv, BufHolds
    <3> QED BY <1>2, <2>1, <3>1, NoneAssumption DEF PendingMapped
  <2>2. CASE InOpen(a) /\ a \notin Shifted
    <3>1. a \notin Accepted
      <4>1. a \in Accepted => LatchLive /\ a = addr_latch BY <2>2 DEF Shifted
      <4>2. LatchLive => PageOf(addr_latch) # current_page
        BY <1>1 DEF LatchLive, StoreInv, PageHolds
      <4> QED BY <2>2, <4>1, <4>2 DEF InOpen
    <3>2. buf[a.off] = Erased /\ mem[a] = Erased
      BY <2>2, OpenPageErased DEF StoreInv, BufHolds
    <3> QED BY <1>2, <2>2, <3>1, <3>2 DEF PendingMapped
  <2>3. CASE ~InOpen(a) BY <1>2, <2>3
  <2> QED BY <2>1, <2>2, <2>3
<1>11. ASSUME NEW a \in Addr
       PROVE  Unstored(a)' = IF InOpen(a) THEN None ELSE Unstored(a)
  <2>1. Stored(a)' <=> a \in Shifted BY <1>1, <1>5 DEF Stored, InOpen, Addressed
  <2>2. InOpen(a) => (a \in Accepted => a \in Shifted)
    <3>1. LatchLive => PageOf(addr_latch) # current_page
      BY <1>1 DEF LatchLive, StoreInv, PageHolds
    <3> QED BY <3>1 DEF InOpen, Shifted
  <2>3. ~InOpen(a) => (Stored(a) <=> a \in Shifted) BY DEF Stored
  <2> QED BY <1>1, <1>5, <2>1, <2>2, <2>3 DEF PendingMapped
<1>12. mem' = [a \in Addr |-> IF Store!InPage(a, s.blk, s.pg) THEN Store!Overwritten(a)
                              ELSE mem[a]]
  BY <1>2, <1>9, <1>10 DEF Store!InPage, Store!Overwritten
<1>13. Pending' = [a \in Addr |-> IF Store!InPage(a, s.blk, s.pg) THEN None ELSE Pending[a]]
  BY <1>9, <1>11 DEF Store!InPage, Pending
<1> QED BY <1>5, <1>7, <1>8, <1>12, <1>13 DEF Store!StorePage, Pending

LEMMA SessionRenews ==
  ASSUME Mapped, Mapped', StoreInv, NextSession
  PROVE  Store!NewUpload
<1> USE DEF Mapped, NextSession
<1>1. state = "IDLE" /\ state' = "IDLE" /\ mem' = mem /\ ~w.valid BY DEF fsm, device, Flushed
<1>2. Accepted' = {} /\ ErasedBlocks' = {} BY DEF Accepted, ErasedBlocks
<1>3. ~LatchLive BY <1>1 DEF LatchLive
<1>4. \A a \in Addr : a \in Accepted => Stored(a)
  BY <1>1, <1>3 DEF Stored, Shifted, InOpen, Addressed
<1>5. \A a \in Addr : Unstored(a) = None /\ Unstored(a)' = None
  BY <1>2, <1>4 DEF PendingMapped
<1> QED BY <1>1, <1>2, <1>5 DEF Store!NewUpload, Pending

-----------------------------------------------------------------------------
LEMMA StepMapped ==
  ASSUME StoreInv, ProtocolInv, Mapped, Mapped', [Next]_core
  PROVE  [Store!Next]_AbstractVars
<1>1. Same => UNCHANGED AbstractVars BY SameStutters
<1>2. CASE TakeByte
  <2>1. w.addr \in Addr BY DEF ProtocolInv, TypeOK
  <2>2. Accepts(w.addr) BY <1>2, IdleStep, WriteNextByteStep DEF TakeByte, TakesByte
  <2> QED BY <2>1, <2>2, AcceptsAccepts DEF Store!Next
<1>3. CASE WorksAlone /\ UNCHANGED port
  <2>1. CASE EraseRelease
    <3>1. addr_latch \in Addr BY DEF ProtocolInv, TypeOK, FsmTypeOK
    <3> QED BY <1>3, <2>1, <3>1, EraseErases DEF Store!Next
  <2>2. CASE WriteRelease BY <1>3, <2>2, ProgramStores DEF Store!Next
  <2>3. CASE Wren \/ EraseCmd \/ WriteCmd \/ PollCmd BY <1>1, <1>3, <2>3, SendQuiet
  <2>4. CASE WrenRelease BY <1>1, <1>3, <2>4, ReleaseQuiet
  <2>5. CASE PollRelease BY <1>1, <1>3, <2>5, ReleaseQuiet, UploadEndStep
  <2>6. CASE PollRead \/ PollCapture BY <1>1, <1>3, <2>6, PollQuiet
  <2>7. CASE EraseAddr BY <1>1, <1>3, <2>7, AddrQuiet
  <2>8. CASE WriteAddr BY <1>1, <1>3, <2>8, AddrQuiet, PageOpenStep
  <2>9. CASE WriteData BY <1>1, <1>3, <2>9, WriteDataStep
  <2>10. CASE WriteNextFlush BY <1>1, <1>3, <2>10, WriteNextFlushStep
  <2> QED
    BY <1>3, <2>1, <2>2, <2>3, <2>4, <2>5, <2>6, <2>7, <2>8, <2>9, <2>10 DEF WorksAlone
<1>4. CASE WriterStep
  <2>1. CASE NextSession BY <2>1, SessionRenews DEF Store!Next
  <2>2. CASE RaiseFlush \/ \E a \in Addr : \E d \in Payload(a) : Offer(a, d)
    BY <1>1, <2>2, OfferStep, RaiseFlushStep
  <2> QED BY <1>4, <2>1, <2>2 DEF WriterStep
<1>5. CASE DeviceStep BY <1>1, <1>5, WriteEndsStep DEF DeviceStep
<1>6. CASE UNCHANGED core BY <1>1, <1>6, StutterStep
<1> QED BY <1>2, <1>3, <1>4, <1>5, <1>6 DEF Next, FsmStep

LEMMA InitMapped == Init => Store!Init
<1> SUFFICES ASSUME Init PROVE Store!Init OBVIOUS
<1> USE DEF Init, DeviceInit, FsmInit
<1>1. Accepted = {} /\ ~LatchLive BY DEF Accepted, LatchLive
<1>2. ErasedBlocks = {} BY <1>1 DEF ErasedBlocks
<1>3. \A a \in Addr : Unstored(a) = None BY <1>1 DEF Unstored
<1>4. mem \in [Addr -> Byte] BY WriterAssumption
<1> QED BY <1>2, <1>3, <1>4 DEF Store!Init

\* What QspiFlash promises whoever writes an image through it, opcodes, polls and page buffers
\* aside: each accepted byte goes to its own address, once, in a block erased once for it.
THEOREM StoreImplemented == Spec => ImplementsStore
<1>1. ProtocolInv /\ StoreInv /\ Mapped /\ Mapped' /\ [Next /\ Count]_vars => [Store!Next]_(Store!vars)
  BY StepMapped, CoreStep DEF Store!vars, AbstractVars, Pending
<1> QED
  BY <1>1, InitMapped, MappingHolds, ProtocolCorrect, BytesKept, PTL
     DEF Spec, ImplementsStore, Store!Spec

=============================================================================
