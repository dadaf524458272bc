----------------------------- MODULE QspiBusProofs -----------------------------
(***************************************************************************)
(* Theorems about QspiBus. With as many functions in use as the host       *)
(* likes: where HoldArbiter may take the grant from an open frame, and     *)
(* that no frame holds the octets of two participants unless it did, or    *)
(* the vendor bridge came in. With one function at a time: the octets a    *)
(* bridge brings back to the host are those the device answered to that    *)
(* host's own command; and an upload that has ended has left its image in  *)
(* the flash, whoever had the bus before and whoever has it after.         *)
(***************************************************************************)
EXTENDS QspiBus, FiniteSetTheorems, SequenceTheorems, TLAPS

-----------------------------------------------------------------------------
(* OneOwner says nothing of a participant that is between two octets of its
   frame. The invariant ties each of them to the function the host is using:
   the others rest, and one that rests has closed its frame. *)

Functions == {"upload", "bridge", "vendor", "result"}

OneFunction == using = {} \/ \E f \in Functions : using = {f}

\* The participant of a function, and who may have sent in the open frame.
Owns(p, f) == p \in owners => using = {f}

FlashRests == state = "IDLE" => 0 \notin owners
FlashUsed  == "upload" \notin using => state = "IDLE" /\ \A i \in Writer : ~waiting[i]

BridgeRests == br = "CMD_IDLE" => 1 \notin owners
BridgeUsed  == "bridge" \notin using => br = "CMD_IDLE" /\ rx = <<>>

VendorRests == spi = "IDLE" => None \notin owners
VendorUsed  ==
  /\ "vendor" \notin using => ep0 \notin {"RX", "EXEC_STATUS"} /\ spi = "IDLE"
  /\ ep0 = "RX" => spi = "IDLE"

\* One writer at a time has anything on its port, and its flush comes last.
WritersInTurn ==
  /\ offered \in [Writer -> Nat]
  /\ waiting \in [Writer -> BOOLEAN] /\ flushes \in [Writer -> BOOLEAN]
  /\ \A i \in Writer : offered[i] = 0 \/ offered[1 - i] = 0
  /\ \A i \in Writer : waiting[i] \/ flushes[i] => offered[i] # 0
  /\ \A i \in Writer : flushes[i] => ~waiting[i]

OwnerInv ==
  /\ OneFunction
  /\ owners \subseteq {0, 1, None}
  /\ Owns(0, "upload") /\ Owns(1, "bridge") /\ Owns(None, "vendor")
  /\ FlashRests /\ FlashUsed /\ BridgeRests /\ BridgeUsed /\ VendorRests /\ VendorUsed
  /\ WritersInTurn

LEMMA OwnerInit == Init => OwnerInv
<1> SUFFICES ASSUME Init PROVE OwnerInv OBVIOUS
<1> USE DEF Init
<1>1. OneFunction /\ owners = {} BY DEF OneFunction
<1>2. state = "IDLE" BY DEF Flash!FsmInit
<1>3. br = "CMD_IDLE" /\ rx = <<>> BY DEF BridgeInit
<1>4. spi = "IDLE" /\ ep0 = "IDLE" BY DEF VendorInit
<1>5. WritersInTurn BY DEF WritersInTurn, Writer
<1>6. \A i \in Writer : ~waiting[i] BY DEF Writer
<1> QED
  BY <1>1, <1>2, <1>3, <1>4, <1>5, <1>6
     DEF OwnerInv, Owns, FlashRests, FlashUsed, BridgeRests, BridgeUsed, VendorRests, VendorUsed

\* With one function in use and each participant tied to its own, nobody meets another.
LEMMA OwnersSingle == OwnerInv => OneOwner
<1> SUFFICES ASSUME OwnerInv PROVE Cardinality(owners) <= 1 BY DEF OneOwner
<1>1. owners = {} \/ \E p \in {0, 1, None} : owners = {p}
  BY DEF OwnerInv, Owns, None
<1>2. Cardinality({}) = 0 BY FS_EmptySet
<1>3. \A p : Cardinality({p}) = 1 BY FS_Singleton
<1>4. Cardinality(owners) = 0 \/ Cardinality(owners) = 1 BY <1>1, <1>2, <1>3, Zenon
<1> QED BY <1>4, SMT

-----------------------------------------------------------------------------
(* The steps. *)

LEMMA ArbitrateStep == ASSUME OwnerInv, Arbitrate PROVE OwnerInv'
BY DEF Arbitrate, flash, fsm, writers, br_vars, vs_vars, vs_spi, vs_ep0, wire, host, OwnerInv,
       OneFunction, Owns, FlashRests, FlashUsed, BridgeRests, BridgeUsed, VendorRests, VendorUsed,
       WritersInTurn

\* What a step of the flash FSM does to its state, apart from what it sends.
LEMMA FlashMoves ==
  ASSUME state # "IDLE", Flash!WorksAlone
  PROVE  state' = "IDLE" => frame' = <<>>
<1>1. CASE Flash!Wren BY <1>1 DEF Flash!Wren
<1>2. CASE Flash!WrenRelease BY <1>2 DEF Flash!WrenRelease
<1>3. CASE Flash!EraseCmd BY <1>3 DEF Flash!EraseCmd, Flash!SendOpcode
<1>4. CASE Flash!EraseAddr BY <1>4 DEF Flash!EraseAddr
<1>5. CASE Flash!EraseRelease BY <1>5 DEF Flash!EraseRelease
<1>6. CASE Flash!WriteCmd BY <1>6 DEF Flash!WriteCmd, Flash!SendOpcode
<1>7. CASE Flash!WriteAddr BY <1>7 DEF Flash!WriteAddr
<1>8. CASE Flash!WriteData BY <1>8 DEF Flash!WriteData
<1>9. CASE Flash!WriteNextFlush BY <1>9 DEF Flash!WriteNextFlush
<1>10. CASE Flash!WriteRelease BY <1>10 DEF Flash!WriteRelease
<1>11. CASE Flash!PollCmd BY <1>11 DEF Flash!PollCmd
<1>12. CASE Flash!PollRead BY <1>12 DEF Flash!PollRead
<1>13. CASE Flash!PollCapture BY <1>13 DEF Flash!PollCapture
<1>14. CASE Flash!PollRelease
  BY <1>14, Zenon DEF Flash!PollRelease, Flash!ChipSelectRise
<1> QED
  BY <1>1, <1>2, <1>3, <1>4, <1>5, <1>6, <1>7, <1>8, <1>9, <1>10, <1>11, <1>12, <1>13, <1>14
     DEF Flash!WorksAlone

\* In IDLE it does nothing without a byte on the port.
LEMMA FlashWaits == state = "IDLE" => ~Flash!WorksAlone
BY DEF Flash!WorksAlone, Flash!Wren, Flash!WrenRelease, Flash!EraseCmd, Flash!EraseAddr,
       Flash!EraseRelease, Flash!WriteCmd, Flash!SendOpcode, Flash!WriteAddr, Flash!WriteData,
       Flash!WriteNextFlush, Flash!WriteRelease, Flash!PollCmd, Flash!PollRead,
       Flash!PollCapture, Flash!PollRelease

LEMMA FlashStepKeeps == ASSUME OwnerInv, FlashStep PROVE OwnerInv'
<1>1. CASE FlashOnBus
  <2>1. state # "IDLE" /\ Flash!WorksAlone /\ UNCHANGED <<writers, br_vars, vs_vars, host>>
    BY <1>1 DEF FlashOnBus, FlashActive
  <2>2. using = {"upload"} BY <2>1 DEF OwnerInv, OneFunction, FlashUsed
  <2>3. owners' = {} \/ (frame' # <<>> /\ owners' = owners \cup {0})
    BY <1>1 DEF FlashOnBus, Closed, Sent
  <2>4. state' = "IDLE" => owners' = {} BY <2>1, <2>3, FlashMoves
  <2>5. owners' \subseteq {0} /\ (state' = "IDLE" => owners' = {})
    <3>1. owners \subseteq {0} BY <2>2 DEF OwnerInv, Owns, None
    <3> QED BY <2>3, <2>4, <3>1
  <2>6. using' = {"upload"} BY <2>1, <2>2 DEF host
  <2>7. WritersInTurn' BY <2>1 DEF OwnerInv, WritersInTurn, writers
  <2>8. br' = br /\ rx' = rx /\ spi' = spi /\ ep0' = ep0
    BY <2>1 DEF br_vars, vs_vars, vs_spi, vs_ep0
  <2> QED
    BY <2>2, <2>5, <2>6, <2>7, <2>8
       DEF OwnerInv, OneFunction, Functions, Owns, FlashRests, FlashUsed, BridgeRests, BridgeUsed,
           VendorRests, VendorUsed, None
<1>2. CASE FlashOffBus
  <2>1. UNCHANGED <<br_vars, vs_vars, owners, host>> BY <1>2 DEF FlashOffBus, wire
  <2>2. CASE Flash!TakesByte /\ Taken
    <3>1. state' # "IDLE"
      BY <2>2 DEF Flash!TakesByte, Flash!Idle, Flash!WriteNextByte
    <3>2. PortW.valid
      BY <2>2 DEF Flash!TakesByte, Flash!Idle, Flash!WriteNextByte, Flash!Accept
    <3>3. Granted \in Writer /\ waiting[Granted]
      BY <3>2 DEF PortW, Granted, WriterActive, Writer, None
    <3>4. "upload" \in using BY <3>3 DEF OwnerInv, FlashUsed
    <3>5. WritersInTurn' BY <2>2, <3>3 DEF Taken, OwnerInv, WritersInTurn
    <3> QED
      BY <2>1, <3>1, <3>4, <3>5
         DEF OwnerInv, OneFunction, Owns, FlashRests, FlashUsed, BridgeRests, BridgeUsed,
             VendorRests, VendorUsed, br_vars, vs_vars, vs_spi, vs_ep0, host
  <2>3. CASE Flash!WorksAlone /\ UNCHANGED writers
    <3>1. state # "IDLE" BY <2>3, FlashWaits
    <3>2. state = "WRITE_NEXT" /\ ~FlashActive BY <1>2, <3>1 DEF FlashOffBus, FlashActive
    <3>3. state' # "IDLE"
      BY <2>3, <3>2
         DEF Flash!WorksAlone, Flash!Wren, Flash!WrenRelease, Flash!EraseCmd, Flash!EraseAddr,
             Flash!EraseRelease, Flash!WriteCmd, Flash!SendOpcode, Flash!WriteAddr,
             Flash!WriteData, Flash!WriteNextFlush, Flash!WriteRelease, Flash!PollCmd,
             Flash!PollRead, Flash!PollCapture, Flash!PollRelease
    <3>4. "upload" \in using BY <3>1 DEF OwnerInv, FlashUsed
    <3> QED
      BY <2>1, <2>3, <3>3, <3>4
         DEF OwnerInv, OneFunction, Owns, FlashRests, FlashUsed, BridgeRests, BridgeUsed,
             VendorRests, VendorUsed, WritersInTurn, writers, br_vars, vs_vars, vs_spi, vs_ep0,
             host
  <2> QED BY <1>2, <2>2, <2>3 DEF FlashOffBus
<1> QED BY <1>1, <1>2 DEF FlashStep

\* A step of a bridge or of the host, which leaves the flash FSM and its writers alone.
LEMMA BridgeStepKeeps == ASSUME OwnerInv, BridgeStep PROVE OwnerInv'
<1> USE DEF BrTakes, BrCommand, BrLengthLo, BrWlenHi, BrRlenHi, BrOut, BrInReq, BrInResp, BrRelease,
            Takes
<1>1. UNCHANGED <<writers, vs_vars, using>> /\ state' = state
  BY DEF BridgeStep, host, flash, fsm, Octet, Read, Rise, Reply
<1>2. using = {"bridge"}
  BY DEF BridgeStep, OwnerInv, OneFunction, BridgeUsed
<1>3. \/ br' # "CMD_IDLE" /\ owners' \subseteq owners \cup {1}
      \/ br = "CMD_IDLE" /\ br' \in {"CMD_IDLE", "WLEN_LO"} /\ owners' = owners
      \/ owners' = {}
  <2>1. CASE BrTakes /\ UNCHANGED <<arbiter, wire, flash>> BY <2>1 DEF wire
  <2>2. CASE BrOut /\ Octet(1, Head(rx)) BY <2>2 DEF Octet, Sent, AfterOut
  <2>3. CASE BrInReq /\ Read(1) BY <2>3 DEF Read
  <2>4. CASE BrInResp(Head(replies)) /\ Reply BY <2>4 DEF Reply
  <2>5. CASE BrRelease /\ Rise BY <2>5 DEF Rise, Closed
  <2> QED BY <2>1, <2>2, <2>3, <2>4, <2>5 DEF BridgeStep
<1>4. owners \subseteq {1} BY <1>2 DEF OwnerInv, Owns, None
<1>5. owners' \subseteq {1} /\ (br' = "CMD_IDLE" => 1 \notin owners')
  BY <1>3, <1>4 DEF OwnerInv, BridgeRests
<1> QED
  BY <1>1, <1>2, <1>5
     DEF OwnerInv, OneFunction, Owns, FlashRests, FlashUsed, BridgeRests, BridgeUsed, VendorRests,
         VendorUsed, WritersInTurn, writers, vs_vars, vs_spi, vs_ep0, None

LEMMA VendorStepKeeps == ASSUME OwnerInv, VendorStep PROVE OwnerInv'
<1> USE DEF VsShiftNone, VsShiftW, VsShiftReq, VsShiftResp, VsRelease, VsWritten
<1>1. UNCHANGED <<writers, br_vars, using>> /\ state' = state /\ ep0' = ep0 /\ spi # "IDLE"
  BY DEF VendorStep, host, flash, fsm, Octet, Read, Rise, Reply, vs_ep0
<1>2. using = {"vendor"} /\ ep0 # "RX"
  BY <1>1 DEF OwnerInv, OneFunction, VendorUsed
<1>3. \/ spi' # "IDLE" /\ owners' \subseteq owners \cup {None}
      \/ owners' = {}
  <2>1. CASE VsShiftNone /\ UNCHANGED <<flash, wire>> BY <2>1 DEF wire
  <2>2. CASE VsShiftW /\ Octet(None, 0) BY <2>2 DEF Octet, Sent
  <2>3. CASE VsShiftReq /\ Read(None) BY <2>3 DEF Read
  <2>4. CASE VsShiftResp(Head(replies)) /\ Reply BY <2>4 DEF Reply
  <2>5. CASE VsRelease /\ Rise BY <2>5 DEF Rise, Closed
  <2> QED BY <2>1, <2>2, <2>3, <2>4, <2>5 DEF VendorStep
<1>4. owners \subseteq {None} BY <1>2 DEF OwnerInv, Owns
<1>5. owners' \subseteq {None} /\ (spi' = "IDLE" => None \notin owners')
  BY <1>3, <1>4 DEF OwnerInv, VendorRests
<1> QED
  BY <1>1, <1>2, <1>5
     DEF OwnerInv, OneFunction, Owns, FlashRests, FlashUsed, BridgeRests, BridgeUsed, VendorRests,
         VendorUsed, WritersInTurn, writers, br_vars, None

LEMMA DeviceKeeps == ASSUME OwnerInv, DeviceStep PROVE OwnerInv'
BY DEF DeviceStep, flash, fsm, writers, br_vars, vs_vars, vs_spi, vs_ep0, wire, host, OwnerInv,
       OneFunction, Owns, FlashRests, FlashUsed, BridgeRests, BridgeUsed, VendorRests, VendorUsed,
       WritersInTurn

LEMMA HostGoesOnKeeps == ASSUME OwnerInv, HostGoesOn PROVE OwnerInv'
<1> USE DEF OwnerInv, OneFunction, Owns, FlashRests, FlashUsed, BridgeRests, BridgeUsed,
            VendorRests, VendorUsed
<1> USE DEF flash, fsm, writers, br_vars, vs_vars, vs_spi, vs_ep0, arbiter, wire
<1>1. CASE Feed BY <1>1 DEF Feed, WritersInTurn
<1>2. CASE Collect BY <1>2 DEF Collect, WritersInTurn
<1>3. CASE EndBridge BY <1>3 DEF EndBridge, End, WritersInTurn
<1>4. CASE EndUpload
  <2>1. PICK i \in Writer : flushes[i] /\ state = "IDLE" BY <1>4 DEF EndUpload
  <2>2. \A k \in Writer : ~waiting[k]
    <3>1. offered[i] # 0 /\ ~waiting[i] BY <2>1 DEF WritersInTurn
    <3>2. \A k \in Writer : k = i \/ 1 - k = i BY SMT DEF Writer
    <3>3. \A k \in Writer : waiting[k] => offered[k] # 0 /\ offered[1 - k] = 0
      BY DEF WritersInTurn
    <3> QED BY <3>1, <3>2, <3>3
  <2> QED BY <1>4, <2>1, <2>2 DEF EndUpload, End, WritersInTurn
<1>5. CASE VendorHost
  <2>1. UNCHANGED <<flash, writers, br_vars, arbiter, wire>> BY <1>5 DEF VendorHost
  <2>2. UNCHANGED <<state, rx, br, owners>> BY <2>1
  <2>3. WritersInTurn' BY <2>1 DEF WritersInTurn
  <2>4. CASE ReceiveOctet /\ UNCHANGED using
    BY <2>1, <2>2, <2>3, <2>4 DEF ReceiveOctet
  <2>5. CASE StatusStarts /\ UNCHANGED host
    BY <2>1, <2>2, <2>3, <2>5 DEF StatusStarts, host, None
  <2>6. CASE StatusDone /\ End("vendor")
    BY <2>1, <2>2, <2>3, <2>6 DEF StatusDone, BurstDone, End, Functions
  <2>7. CASE DataRequested /\ UNCHANGED host
    BY <2>1, <2>2, <2>3, <2>7 DEF DataRequested, host
  <2>8. CASE StreamOctet(wanted) /\ UNCHANGED host
    <3>1. ep0' \in {ep0, "RESULT_CLAIM"} /\ ep0 = "RESULT_STREAM" /\ spi' = spi
      BY <2>8 DEF StreamOctet
    <3> QED BY <2>1, <2>2, <2>3, <2>8, <3>1 DEF host
  <2>9. CASE ResultStatus /\ End("result")
    BY <2>1, <2>2, <2>3, <2>9 DEF ResultStatus, End, Functions
  <2> QED BY <1>5, <2>4, <2>5, <2>6, <2>7, <2>8, <2>9 DEF VendorHost
<1>6. ASSUME NEW i \in Writer, Offer(i) PROVE OwnerInv'
  <2>1. /\ UNCHANGED <<flash, br_vars, vs_vars, arbiter, wire, host>>
        /\ using = {"upload"} /\ offered[i] # 0 /\ ~waiting[i] /\ ~flushes[i]
    BY <1>6 DEF Offer, Functions
  <2>2. UNCHANGED <<using, state, br, rx, spi, ep0, owners>> BY <2>1 DEF host
  <2>3. WritersInTurn'
    <3> USE DEF WritersInTurn, Writer
    <3>1. \A k \in Writer : k = i \/ k = 1 - i BY SMT
    <3>2. 1 - i \in Writer /\ 1 - i # i /\ 1 - (1 - i) = i BY SMT
    <3>3. offered[1 - i] = 0 /\ ~waiting[1 - i] /\ ~flushes[1 - i]
      <4>1. offered[1 - i] = 0 BY <2>1
      <4> QED BY <4>1, <3>2
    <3>4. CASE offered[i] = Len(Image)
      BY <1>6, <2>1, <3>3, <3>4 DEF Offer
    <3>5. CASE offered[i] # Len(Image)
      <4>1. /\ offered' = [offered EXCEPT ![i] = offered[i] + 1]
            /\ waiting' = [waiting EXCEPT ![i] = TRUE] /\ flushes' = flushes
        BY <1>6, <3>5 DEF Offer
      <4>2. offered \in [Writer -> Nat] /\ offered[i] + 1 \in Nat /\ offered[i] + 1 # 0
        BY SMT
      <4>3. /\ offered' \in [Writer -> Nat] /\ waiting' \in [Writer -> BOOLEAN]
            /\ flushes' \in [Writer -> BOOLEAN]
        BY <4>1, <4>2
      <4>4. offered'[i] # 0 /\ offered'[1 - i] = 0 BY <3>2, <3>3, <4>1, <4>2
      <4>5. ~waiting'[1 - i] /\ ~flushes'[i] /\ ~flushes'[1 - i] BY <2>1, <3>2, <3>3, <4>1
      <4> HIDE DEF Writer
      <4> QED BY <3>1, <3>2, <4>3, <4>4, <4>5
    <3> QED BY <3>4, <3>5
  <2> QED BY <2>1, <2>2, <2>3
<1> QED BY <1>1, <1>2, <1>3, <1>4, <1>5, <1>6 DEF HostGoesOn

LEMMA HostStartsKeeps == ASSUME OwnerInv, using = {}, HostStarts PROVE OwnerInv'
<1> USE DEF OwnerInv, OneFunction, Owns, FlashRests, FlashUsed, BridgeRests, BridgeUsed,
            VendorRests, VendorUsed
<1> USE DEF flash, fsm, writers, br_vars, vs_vars, vs_spi, vs_ep0, arbiter, wire, Functions, Start
<1>1. CASE StartBridge BY <1>1 DEF StartBridge, WritersInTurn
<1>2. CASE StartUpload
  <2>1. UNCHANGED <<br_vars, vs_vars, arbiter, wire, flash>> /\ using' = {"upload"}
    BY <1>2 DEF StartUpload
  <2>2. WritersInTurn' BY <1>2 DEF StartUpload, WritersInTurn, Writer
  <2> QED BY <2>1, <2>2
<1>3. CASE StartVendor
  <2>1. UNCHANGED <<flash, writers, br_vars, arbiter, wire, spi>> /\ WritersInTurn'
    BY <1>3 DEF StartVendor, Exec, Result, WritersInTurn
  <2>2. \/ using' = {"vendor"} /\ ep0' = "RX"
        \/ using' = {"result"} /\ ep0' = "RESULT_CLAIM"
    BY <1>3 DEF StartVendor, Exec, Result
  <2> QED BY <2>1, <2>2
<1> QED BY <1>1, <1>2, <1>3 DEF HostStarts

LEMMA OwnerStep == ASSUME OwnerInv, [Next]_vars PROVE OwnerInv'
<1>1. CASE Next
  BY <1>1, ArbitrateStep, FlashStepKeeps, DeviceKeeps, BridgeStepKeeps, VendorStepKeeps,
     HostGoesOnKeeps, HostStartsKeeps
     DEF Next, Device
<1>2. CASE UNCHANGED vars
  BY <1>2 DEF vars, flash, fsm, writers, br_vars, vs_vars, vs_spi, vs_ep0, arbiter, wire, host,
              OwnerInv, OneFunction, Owns, FlashRests, FlashUsed, BridgeRests, BridgeUsed,
              VendorRests, VendorUsed, WritersInTurn
<1> QED BY <1>1, <1>2

-----------------------------------------------------------------------------

\* The bus with one function of the device in use at a time: each participant has
\* closed its frame before its function ends, so that no frame is two's, whatever
\* HoldArbiter does in the pauses. The grant is not needed for this.
LEMMA OwnersInTurn == Spec => []OneOwner
<1>1. Init => OwnerInv BY OwnerInit
<1>2. OwnerInv /\ [Next]_vars => OwnerInv' BY OwnerStep
<1>3. OwnerInv => OneOwner BY OwnersSingle
<1> QED BY <1>1, <1>2, <1>3, PTL DEF Spec

-----------------------------------------------------------------------------
(* Several functions at once. Here the grant is all that keeps two participants
   apart, and what has to be known of each is where its frame may be open. *)

FrameStates == {"DO_OUT", "DO_IN_REQ", "DO_IN_RESP", "RELEASE"}

FramesInv ==
  /\ owners \subseteq {0, 1, None}
  /\ FlashRests /\ VendorRests
  /\ 1 \in owners => br \in FrameStates

\* A participant adds itself to a frame only while it has the bus.
OwnersMove ==
  \/ owners' = {} \/ owners' = owners
  \/ \E p \in {0, 1} : owners' = owners \cup {p} /\ grant = p /\ grant' = p /\ ~vs_active /\ ~vs_active'
  \/ owners' = owners \cup {None} /\ vs_active

LEMMA FramesKept ==
  ASSUME FramesInv, owners' \subseteq {0, 1, None},
         0 \in owners' => state' # "IDLE",
         1 \in owners' => br' \in FrameStates,
         None \in owners' => spi' # "IDLE"
  PROVE  FramesInv'
BY DEF FramesInv, FlashRests, VendorRests

LEMMA SharedFlash == ASSUME FramesInv, FlashStep PROVE FramesInv' /\ OwnersMove
<1>1. UNCHANGED <<br, spi>>
  BY DEF FlashStep, FlashOnBus, FlashOffBus, br_vars, vs_vars, vs_spi
<1>2. CASE FlashOnBus
  <2>1. state # "IDLE" /\ Flash!WorksAlone /\ HasBus(0) BY <1>2 DEF FlashOnBus, FlashActive
  <2>2. owners' = {} \/ (frame' # <<>> /\ owners' = owners \cup {0})
    BY <1>2 DEF FlashOnBus, Closed, Sent
  <2>3. state' = "IDLE" => owners' = {} BY <2>1, <2>2, FlashMoves
  <2>4. OwnersMove BY <1>1, <2>1, <2>2 DEF OwnersMove, HasBus, vs_active
  <2>5. owners' \subseteq {0, 1, None} /\ owners' \subseteq owners \cup {0}
    BY <2>2 DEF FramesInv
  <2>6. (1 \in owners' => 1 \in owners) /\ (None \in owners' => None \in owners)
    BY <2>5 DEF None
  <2>7. /\ 0 \in owners' => state' # "IDLE"
        /\ 1 \in owners' => br' \in FrameStates
        /\ None \in owners' => spi' # "IDLE"
    BY <1>1, <2>3, <2>6 DEF FramesInv, VendorRests
  <2>8. FramesInv' BY <2>5, <2>7, FramesKept
  <2> QED BY <2>4, <2>8
<1>3. CASE FlashOffBus
  <2>1. owners' = owners BY <1>3 DEF FlashOffBus, wire
  <2>2. CASE Flash!TakesByte
    <3>1. state' # "IDLE" BY <2>2 DEF Flash!TakesByte, Flash!Idle, Flash!WriteNextByte
    <3> QED BY <1>1, <2>1, <3>1 DEF FramesInv, FlashRests, VendorRests, OwnersMove
  <2>3. CASE Flash!WorksAlone
    <3>1. state = "WRITE_NEXT" BY <1>3, <2>3, FlashWaits DEF FlashOffBus, FlashActive
    <3>2. state' # "IDLE"
      BY <2>3, <3>1
         DEF Flash!WorksAlone, Flash!Wren, Flash!WrenRelease, Flash!EraseCmd, Flash!EraseAddr,
             Flash!EraseRelease, Flash!WriteCmd, Flash!SendOpcode, Flash!WriteAddr,
             Flash!WriteData, Flash!WriteNextFlush, Flash!WriteRelease, Flash!PollCmd,
             Flash!PollRead, Flash!PollCapture, Flash!PollRelease
    <3> QED BY <1>1, <2>1, <3>2 DEF FramesInv, FlashRests, VendorRests, OwnersMove
  <2> QED BY <1>3, <2>2, <2>3 DEF FlashOffBus
<1> QED BY <1>2, <1>3 DEF FlashStep

LEMMA SharedBridge == ASSUME FramesInv, BridgeStep PROVE FramesInv' /\ OwnersMove
<1> USE DEF BrTakes, BrCommand, BrLengthLo, BrWlenHi, BrRlenHi, BrOut, BrInReq, BrInResp, BrRelease,
            Takes, FrameStates
<1>1. UNCHANGED <<state, spi>>
  BY DEF BridgeStep, flash, fsm, Octet, Read, Rise, Reply, vs_vars, vs_spi
<1>2. \/ br \notin FrameStates /\ owners' = owners
      \/ br' \in FrameStates /\ owners' = owners
      \/ br' \in FrameStates /\ owners' = owners \cup {1} /\ HasBus(1)
      \/ owners' = {}
  <2>1. CASE BrTakes /\ UNCHANGED <<arbiter, wire, flash>> BY <2>1 DEF wire
  <2>2. CASE BrOut /\ HasBus(1) /\ Octet(1, Head(rx)) BY <2>2 DEF Octet, Sent, AfterOut
  <2>3. CASE BrInReq /\ HasBus(1) /\ Read(1) BY <2>3 DEF Read
  <2>4. CASE BrInResp(Head(replies)) /\ Reply BY <2>4 DEF Reply
  <2>5. CASE BrRelease /\ Rise BY <2>5 DEF Rise, Closed
  <2> QED BY <2>1, <2>2, <2>3, <2>4, <2>5 DEF BridgeStep
<1>3. FramesInv'
  <2>1. owners' \subseteq {0, 1, None} /\ owners' \subseteq owners \cup {1}
    BY <1>2 DEF FramesInv
  <2>2. (0 \in owners' => 0 \in owners) /\ (None \in owners' => None \in owners)
    BY <2>1 DEF None
  <2>3. 1 \in owners' => br' \in FrameStates
    <3>1. CASE br \notin FrameStates /\ owners' = owners BY <3>1 DEF FramesInv
    <3> QED BY <1>2, <3>1
  <2>4. (0 \in owners' => state' # "IDLE") /\ (None \in owners' => spi' # "IDLE")
    BY <1>1, <2>2 DEF FramesInv, FlashRests, VendorRests
  <2> QED BY <2>1, <2>3, <2>4, FramesKept
<1>4. OwnersMove BY <1>1, <1>2 DEF OwnersMove, HasBus, vs_active
<1> QED BY <1>3, <1>4

LEMMA SharedVendor == ASSUME FramesInv, VendorStep PROVE FramesInv' /\ OwnersMove
<1> USE DEF VsShiftNone, VsShiftW, VsShiftReq, VsShiftResp, VsRelease, VsWritten
<1>1. UNCHANGED <<state, br>> /\ spi # "IDLE"
  BY DEF VendorStep, flash, fsm, Octet, Read, Rise, Reply, br_vars
<1>2. \/ spi' # "IDLE" /\ (owners' = owners \/ owners' = owners \cup {None})
      \/ owners' = {}
  <2>1. CASE VsShiftNone /\ UNCHANGED <<flash, wire>> BY <2>1 DEF wire
  <2>2. CASE VsShiftW /\ Octet(None, 0) BY <2>2 DEF Octet, Sent
  <2>3. CASE VsShiftReq /\ Read(None) BY <2>3 DEF Read
  <2>4. CASE VsShiftResp(Head(replies)) /\ Reply BY <2>4 DEF Reply
  <2>5. CASE VsRelease /\ Rise BY <2>5 DEF Rise, Closed
  <2> QED BY <2>1, <2>2, <2>3, <2>4, <2>5 DEF VendorStep
<1>3. FramesInv'
  <2>1. owners' \subseteq {0, 1, None} /\ owners' \subseteq owners \cup {None}
    BY <1>2 DEF FramesInv
  <2>2. (0 \in owners' => 0 \in owners) /\ (1 \in owners' => 1 \in owners)
    BY <2>1 DEF None
  <2>3. None \in owners' => spi' # "IDLE" BY <1>2
  <2>4. (0 \in owners' => state' # "IDLE") /\ (1 \in owners' => br' \in FrameStates)
    BY <1>1, <2>2 DEF FramesInv, FlashRests
  <2> QED BY <2>1, <2>3, <2>4, FramesKept
<1>4. OwnersMove BY <1>1, <1>2 DEF OwnersMove, vs_active
<1> QED BY <1>3, <1>4

\* What neither a participant nor the arbiter does.
LEMMA SharedHost ==
  ASSUME FramesInv, HostGoesOn \/ HostStarts
  PROVE  FramesInv' /\ OwnersMove /\ grant' = grant
<1> USE DEF flash, fsm, br_vars, vs_vars, vs_spi, arbiter, wire
<1>1. /\ UNCHANGED <<state, owners, grant>> /\ br' \in {br, "CMD_IDLE"}
      /\ (br' = br \/ "bridge" \notin using) /\ (spi' = spi \/ spi' = "SHIFT_W")
  <2>1. CASE Feed \/ Collect \/ EndBridge \/ EndUpload \/ \E i \in Writer : Offer(i)
    BY <2>1 DEF Feed, Collect, EndBridge, EndUpload, Offer
  <2>2. CASE VendorHost
    BY <2>2 DEF VendorHost, ReceiveOctet, StatusStarts, StatusDone, DataRequested, StreamOctet,
                ResultStatus
  <2>3. CASE HostStarts
    BY <2>3 DEF HostStarts, StartBridge, StartUpload, StartVendor, Exec, Result
  <2> QED BY <2>1, <2>2, <2>3 DEF HostGoesOn
<1>2. br' = br
  BY DEF HostGoesOn, HostStarts, Feed, Collect, EndBridge, EndUpload, Offer, VendorHost, StartBridge,
         StartUpload, StartVendor
<1> QED BY <1>1, <1>2 DEF FramesInv, FlashRests, VendorRests, FrameStates, OwnersMove

\* Nobody but the arbiter moves the grant.
LEMMA SharedStep ==
  ASSUME FramesInv, [SharedNext]_vars
  PROVE  FramesInv' /\ OwnersMove /\ (grant' = grant \/ Arbitrate)
<1>1. CASE Arbitrate \/ DeviceStep \/ UNCHANGED vars
  <2>1. UNCHANGED <<state, br, spi, owners>> /\ (grant' = grant \/ Arbitrate)
    BY <1>1 DEF Arbitrate, DeviceStep, vars, flash, fsm, br_vars, vs_vars, vs_spi, wire, arbiter
  <2> QED BY <2>1 DEF FramesInv, FlashRests, VendorRests, OwnersMove
<1>2. CASE FlashStep
  BY <1>2, SharedFlash DEF FlashStep, FlashOnBus, FlashOffBus, HasBus, arbiter
<1>3. CASE BridgeStep BY <1>3, SharedBridge DEF BridgeStep, HasBus, arbiter
<1>4. CASE VendorStep BY <1>4, SharedVendor DEF VendorStep, arbiter
<1>5. CASE HostGoesOn \/ HostStarts BY <1>5, SharedHost
<1> QED BY <1>1, <1>2, <1>3, <1>4, <1>5 DEF SharedNext, Device

LEMMA SharedInit == Init => FramesInv
BY DEF Init, Flash!FsmInit, VendorInit, FramesInv, FlashRests, VendorRests

\* HoldArbiter, for any hold time and any functions the host uses at once: it takes
\* the grant from the owner of an open frame only while the flash FSM waits for the
\* writer's next byte or the serial bridge for its host (arbiter.py:69-79).
THEOREM GrantHeldInFrames == SharedSpec => [][GrantHeld]_vars
<1>1. FramesInv /\ [SharedNext]_vars => FramesInv' BY SharedStep
<1>2. FramesInv /\ [SharedNext]_vars => [GrantHeld]_vars
  <2> SUFFICES ASSUME FramesInv, [SharedNext]_vars, NEW p \in {0, 1}, p \in owners, grant = p, grant' # p
               PROVE  Pauses(grant)
    BY DEF GrantHeld, GivenUp
  <2>1. Arbitrate BY SharedStep
  <2>2. ~Active(p) BY <2>1 DEF Arbitrate, Latch, Hold, None
  <2>3. CASE p = 0
    BY <2>2, <2>3 DEF Active, FlashActive, Pauses, FramesInv, FlashRests
  <2>4. CASE p = 1
    BY <2>2, <2>4 DEF Active, BrActive, BrWantsBus, Pauses, FramesInv, FrameStates
  <2> QED BY <2>3, <2>4
<1> QED BY SharedInit, <1>1, <1>2, PTL DEF SharedSpec

\* The owner of the open frame has the bus.
KeptInv ==
  \/ owners = {}
  \/ owners = {None} /\ vs_active
  \/ \E p \in {0, 1} : owners = {p} /\ grant = p /\ ~vs_active

LEMMA KeptStep ==
  ASSUME FramesInv, KeptInv, [SharedNext]_vars, ~GivenUp, ~BrokenInto
  PROVE  KeptInv'
<1>1. OwnersMove /\ FramesInv' BY SharedStep
<1>2. CASE owners' = {} BY <1>2 DEF KeptInv
<1>3. CASE owners' = owners
  <2>1. CASE owners = {None}
    <3>1. vs_active' BY <1>1, <1>3, <2>1 DEF FramesInv, VendorRests, vs_active
    <3> QED BY <1>3, <2>1, <3>1 DEF KeptInv
  <2>2. ASSUME NEW p \in {0, 1}, owners = {p}, grant = p, ~vs_active PROVE KeptInv'
    BY <1>3, <2>2 DEF GivenUp, BrokenInto, KeptInv
  <2> QED BY <1>2, <1>3, <2>1, <2>2 DEF KeptInv
<1>4. ASSUME NEW p \in {0, 1}, owners' = owners \cup {p}, grant = p, grant' = p, ~vs_active, ~vs_active'
      PROVE  KeptInv'
  <2>1. owners' = {p} BY <1>4 DEF KeptInv
  <2> QED BY <1>4, <2>1 DEF KeptInv
<1>5. CASE owners' = owners \cup {None} /\ vs_active
  <2>1. owners' = {None} BY <1>5 DEF KeptInv
  <2>2. vs_active' BY <1>1, <2>1 DEF FramesInv, VendorRests, vs_active
  <2> QED BY <2>1, <2>2 DEF KeptInv
<1> QED BY <1>1, <1>2, <1>3, <1>4, <1>5 DEF OwnersMove

\* The bus with any functions in use at once, for any flash, image, packet size and
\* hold time: the grant keeps the participants' frames apart as long as it is not
\* given up in a frame and the vendor bridge does not break into one. There is no
\* other way for two of them to come into the same frame.
THEOREM OwnersApart == SharedSpec /\ [][~GivenUp /\ ~BrokenInto]_vars => []OneOwner
<1>1. Init => FramesInv /\ KeptInv BY SharedInit DEF Init, KeptInv
<1>2. FramesInv /\ [SharedNext]_vars => FramesInv' BY SharedStep
<1>3. FramesInv /\ KeptInv /\ [SharedNext]_vars /\ [~GivenUp /\ ~BrokenInto]_vars => KeptInv'
  <2> SUFFICES ASSUME FramesInv, KeptInv, [SharedNext]_vars, [~GivenUp /\ ~BrokenInto]_vars
               PROVE  KeptInv'
    OBVIOUS
  <2>1. CASE UNCHANGED vars BY <2>1 DEF vars, arbiter, wire, vs_vars, vs_spi, vs_active, KeptInv
  <2>2. CASE ~GivenUp /\ ~BrokenInto BY <2>2, KeptStep
  <2> QED BY <2>1, <2>2
<1>4. KeptInv => OneOwner
  <2>1. KeptInv => owners = {} \/ \E p \in {0, 1, None} : owners = {p} BY DEF KeptInv
  <2>2. Cardinality({}) = 0 /\ \A p : Cardinality({p}) = 1 BY FS_EmptySet, FS_Singleton
  <2>3. KeptInv => Cardinality(owners) = 0 \/ Cardinality(owners) = 1 BY <2>1, <2>2, Zenon
  <2>4. Cardinality(owners) = 0 \/ Cardinality(owners) = 1 => Cardinality(owners) <= 1 BY SMT
  <2> QED BY <2>3, <2>4 DEF OneOwner
<1> QED BY <1>1, <1>2, <1>3, <1>4, PTL DEF SharedSpec

-----------------------------------------------------------------------------
(* What the host reads. An octet of the flash is known by the place of its read
   in the frame, so the host's octets are 1, 2, 3 and so on; the invariant says
   how far each of the places they pass has got, and what of the command is
   still to come, on the endpoint or from the host. *)

\* The commands of a host that keeps to the protocol: a bridge command is as long
\* as its lengths say, anything else is a single octet, and a vendor request does
\* not ask for more than the staging holds.
CommandsFit ==
  /\ \A t \in Transactions :
       /\ t \in Seq(Nat) /\ Len(t) > 0
       /\ IF t[1] = 1 THEN Len(t) > 4 /\ Len(t) = 5 + t[2] + Radix * t[3] ELSE Len(t) = 1
  /\ \A e \in Execs : e[1] \in Nat /\ e[2] \in 0 .. RBUF

Counting(s) == \A k \in 1 .. Len(s) : s[k] = k

\* Octets of the command that the bridge has not taken, and octets it has read.
Left == rx \o script
Back == Len(got) + Len(tx)

Registers ==
  /\ got \in Seq(Nat) /\ Counting(got) /\ wanted \in Nat
  /\ tx = <<>> \/ tx = <<Len(got) + 1>>
  /\ Len(rx) <= 1 /\ rx \in Seq(Nat) /\ script \in Seq(Nat)
  /\ out_cnt \in Nat /\ in_cnt \in Nat /\ len_lo \in Nat /\ reads \in Nat

\* An octet is under way after its read only.
UnderWay ==
  replies = IF br = "DO_IN_RESP" \/ spi = "SHIFT_R_RESP" THEN <<reads>> ELSE <<>>

ReadsBelong == reads # 0 => 1 \in owners \/ None \in owners

\* A whole command ahead, or none any more.
AtCommand ==
  br = "CMD_IDLE" =>
    \/ Left = <<>> /\ Back = wanted
    \/ /\ Left[1] = 1 /\ Len(Left) > 4 /\ Len(Left) = 5 + Left[2] + Radix * Left[3]
       /\ Back = 0 /\ wanted = Left[4] + Radix * Left[5]
    \/ Len(Left) = 1 /\ Left[1] # 1 /\ Back = 0 /\ wanted = 0

AtLengths ==
  /\ br = "WLEN_LO" => /\ Len(Left) > 3 /\ Len(Left) = 4 + Left[1] + Radix * Left[2]
                       /\ wanted = Left[3] + Radix * Left[4]
  /\ br = "WLEN_HI" => /\ Len(Left) > 2 /\ Len(Left) = 3 + len_lo + Radix * Left[1]
                       /\ wanted = Left[2] + Radix * Left[3]
  /\ br = "RLEN_LO" => Len(Left) = 2 + out_cnt /\ wanted = Left[1] + Radix * Left[2]
  /\ br = "RLEN_HI" => Len(Left) = 1 + out_cnt /\ wanted = len_lo + Radix * Left[1]
  /\ br \in {"WLEN_LO", "WLEN_HI", "RLEN_LO", "RLEN_HI", "DO_OUT"} => Back = 0 /\ reads = 0

InTransfer ==
  /\ br = "DO_OUT" => Len(Left) = out_cnt /\ out_cnt > 0 /\ wanted = in_cnt
  /\ br = "DO_IN_REQ" => reads = Back
  /\ br = "DO_IN_RESP" => reads = Back + 1
  /\ br \in {"DO_IN_REQ", "DO_IN_RESP"} => Left = <<>> /\ in_cnt > 0 /\ Back + in_cnt = wanted
  /\ br = "RELEASE" => Left = <<>> /\ Back = wanted

BridgeStates == {"CMD_IDLE", "WLEN_LO", "WLEN_HI", "RLEN_LO", "RLEN_HI", "DO_OUT",
                 "DO_IN_REQ", "DO_IN_RESP", "RELEASE"}

BridgeInv ==
  /\ br \in BridgeStates
  /\ "bridge" \in using => AtCommand /\ AtLengths /\ InTransfer
  /\ "bridge" \notin using => tx = <<>>

\* The first n octets read are in the staging buffer.
Staged(n) == \A k \in 0 .. n - 1 : rmem[k] = k + 1

SpiInv ==
  /\ rlen \in 0 .. RBUF /\ ridx \in Nat /\ rmem \in [0 .. RBUF - 1 -> Nat]
  /\ spi \in {"IDLE", "SHIFT_W", "SHIFT_R_REQ", "SHIFT_R_RESP", "RELEASE"}
  /\ spi = "SHIFT_W" => ridx = 0 /\ reads = 0
  /\ spi = "SHIFT_R_REQ" => ridx = reads /\ ridx < rlen /\ Staged(ridx)
  /\ spi = "SHIFT_R_RESP" => ridx + 1 = reads /\ ridx < rlen /\ Staged(ridx)
  /\ spi = "RELEASE" \/ (spi = "IDLE" /\ ep0 # "RX") => Staged(rlen)

\* RESULT goes through the staging buffer an octet at a time.
ResultInv ==
  /\ ep0 \in {"RESULT_CLAIM", "RESULT_STREAM"} <=> "result" \in using
  /\ "result" \in using =>
       /\ result \in Seq(Nat) /\ packet \in Seq(Nat) /\ pos \in Nat
       /\ wanted = rlen /\ got = <<>>
       /\ Counting(result \o packet)
  /\ ep0 = "RESULT_CLAIM" =>
       /\ packet = <<>>
       /\ Len(result) = wanted \/ (Len(result) < wanted /\ pos = Len(result))
  /\ ep0 = "RESULT_STREAM" => pos = Len(result) + Len(packet) /\ pos < wanted

AnswersInv ==
  /\ Registers /\ UnderWay /\ ReadsBelong /\ BridgeInv /\ SpiInv /\ ResultInv
  /\ using \cap {"bridge", "result"} = {} => Len(got) = wanted

LEMMA AnswersInit == ASSUME CommandsFit, Init PROVE AnswersInv
<1> USE DEF Init, BridgeInit, VendorInit
<1>1. Registers BY DEF Registers, Counting
<1>2. UnderWay /\ ReadsBelong BY DEF UnderWay, ReadsBelong
<1>3. BridgeInv BY DEF BridgeInv, BridgeStates
<1>4. SpiInv BY StagingAssumption DEF SpiInv, Staged
<1>5. ResultInv BY DEF ResultInv
<1> QED BY <1>1, <1>2, <1>3, <1>4, <1>5 DEF AnswersInv

\* Most steps are of a participant that has nothing to do with what is read.
Answers == <<br_vars, vs_vars, replies, reads, owners, using, script, wanted, got>>

LEMMA AnswersKept == ASSUME AnswersInv, UNCHANGED Answers PROVE AnswersInv'
<1> USE DEF Answers, br_vars, vs_vars, vs_spi, vs_ep0, AnswersInv
<1>1. Registers' BY DEF Registers, Counting
<1>2. UnderWay' /\ ReadsBelong' BY DEF UnderWay, ReadsBelong
<1>3. Left' = Left /\ Back' = Back BY DEF Left, Back
<1>4. BridgeInv' BY <1>3 DEF BridgeInv, AtCommand, AtLengths, InTransfer
<1>5. SpiInv' BY DEF SpiInv, Staged
<1>6. ResultInv' BY DEF ResultInv, Counting
<1> QED BY <1>1, <1>2, <1>4, <1>5, <1>6

LEMMA FlashAnswers == ASSUME OwnerInv, AnswersInv, FlashStep PROVE AnswersInv'
<1>1. CASE FlashOffBus
  <2>1. UNCHANGED Answers BY <1>1 DEF FlashOffBus, Answers, wire, host
  <2> QED BY <2>1, AnswersKept
<1>2. CASE FlashOnBus
  <2>1. using = {"upload"} BY <1>2 DEF FlashOnBus, FlashActive, OwnerInv, OneFunction, FlashUsed
  <2>2. /\ UNCHANGED <<br_vars, vs_vars, host, replies>>
        /\ (owners' = {} /\ reads' = 0) \/ (owners' = owners \cup {0} /\ reads' = reads)
    BY <1>2 DEF FlashOnBus, Closed, Sent
  <2>3. br = "CMD_IDLE" /\ spi = "IDLE" /\ ep0 \notin {"RX", "EXEC_STATUS"}
    BY <2>1 DEF OwnerInv, BridgeUsed, VendorUsed
  <2> USE DEF br_vars, vs_vars, vs_spi, vs_ep0, host, AnswersInv
  <2>4. Registers' BY <2>2 DEF Registers, Counting
  <2>5. UnderWay' /\ ReadsBelong' BY <2>2, <2>3 DEF UnderWay, ReadsBelong
  <2>6. BridgeInv' BY <2>1, <2>2 DEF BridgeInv
  <2>7. SpiInv' BY <2>2, <2>3 DEF SpiInv, Staged
  <2>8. ResultInv' BY <2>2 DEF ResultInv, Counting
  <2> QED BY <2>2, <2>4, <2>5, <2>6, <2>7, <2>8
<1> QED BY <1>1, <1>2 DEF FlashStep

-----------------------------------------------------------------------------
(* The serial bridge. *)

\* What a buffer of one octet holds.
LEMMA OneElement ==
  ASSUME NEW q \in Seq(Nat), Len(q) = 1
  PROVE  q = <<q[1]>> /\ q[1] \in Nat /\ Head(q) = q[1] /\ Tail(q) = <<>>
<1>1. q # <<>>
  <2>1. Len(<<>>) = 0 /\ 0 # 1 BY EmptySeq
  <2> QED BY <2>1
<1>2. Head(q) = q[1] BY <1>1, HeadTailProperties
<1>3. 1 \in 1 .. Len(q)
  <2>1. 1 \in 1 .. 1 OBVIOUS
  <2> QED BY <2>1
<1>4. q[1] \in Nat BY <1>3, ElementOfSeq
<1>5. Tail(q) \in Seq(Nat) /\ Len(Tail(q)) = 0 BY <1>1, HeadTailProperties
<1>6. Tail(q) = <<>> BY <1>5, EmptySeq
<1>7. q = <<q[1]>>
  <2>1. <<q[1]>> \in Seq(Nat) /\ Len(<<q[1]>>) = 1 /\ <<q[1]>>[1] = q[1] BY <1>4
  <2>2. ASSUME NEW k \in 1 .. Len(q) PROVE q[k] = <<q[1]>>[k]
    <3>1. k \in 1 .. 1 OBVIOUS
    <3>2. k = 1 BY ONLY <3>1
    <3> QED BY <3>2, <2>1
  <2> QED BY <2>1, <2>2, SeqEqual
<1> QED BY <1>2, <1>4, <1>6, <1>7

\* An octet into the bridge's buffer, and one out of it.
LEMMA LeftFed ==
  ASSUME Registers, rx = <<>>, script # <<>>, rx' = <<Head(script)>>, script' = Tail(script)
  PROVE  Left' = Left /\ rx' \in Seq(Nat) /\ Len(rx') <= 1 /\ script' \in Seq(Nat)
BY DEF Registers, Left

LEMMA LeftTaken ==
  ASSUME Registers, rx # <<>>, rx' = Tail(rx), script' = script
  PROVE  /\ Left \in Seq(Nat) /\ Len(Left) \in Nat /\ Len(Left) > 0
         /\ Head(rx) = Left[1] /\ Left[1] \in Nat /\ rx' = <<>>
         /\ Left' \in Seq(Nat) /\ Len(Left') = Len(Left) - 1
         /\ Len(Left) > 1 => Left'[1] = Left[2] /\ Left[2] \in Nat
         /\ Len(Left) > 2 => Left'[2] = Left[3] /\ Left[3] \in Nat
         /\ Len(Left) > 3 => Left'[3] = Left[4] /\ Left[4] \in Nat
         /\ Len(Left) > 4 => Left'[4] = Left[5] /\ Left[5] \in Nat
         /\ Len(Left) > 5 => Left'[5] = Left[6]
<1>1. rx \in Seq(Nat) /\ Len(rx) <= 1 /\ script \in Seq(Nat) BY DEF Registers
<1>2. Len(rx) = 1
  <2>1. Len(rx) # 0 BY <1>1, EmptySeq, Zenon
  <2> DEFINE n == Len(rx)
  <2>2. n \in Nat /\ n # 0 /\ n <= 1 BY <1>1, <2>1
  <2> HIDE DEF n
  <2>3. n = 1 BY ONLY <2>2
  <2> QED BY <2>3 DEF n
<1>3. rx = <<rx[1]>> /\ rx[1] \in Nat /\ Head(rx) = rx[1] /\ Tail(rx) = <<>>
    BY <1>1, <1>2, OneElement
<1>4. PICK x \in Nat : rx = <<x>> /\ Head(rx) = x BY <1>3
<1>5. Left' = script BY <1>1, <1>3 DEF Left
<1>6. Left = <<x>> \o script BY <1>4 DEF Left
<1>7. Left \in Seq(Nat) /\ Len(Left) = 1 + Len(script) /\ Left[1] = x BY <1>1, <1>4, <1>6
<1>8. Len(script) \in Nat BY <1>1
<1>9. ASSUME NEW k \in Nat, k > 0, Len(Left) > k
      PROVE  Left[k + 1] = script[k] /\ Left[k + 1] \in Nat
  <2>1. k \in 1 .. Len(script) BY <1>7, <1>8, <1>9
  <2>2. k + 1 > 1 /\ k + 1 <= 1 + Len(script) BY <2>1, <1>8
  <2> QED BY <1>1, <1>4, <1>6, <2>1, <2>2
<1>10. Len(Left) > 1 => Left[2] = script[1] /\ Left[2] \in Nat BY <1>9, 1 + 1 = 2
<1>11. Len(Left) > 2 => Left[3] = script[2] /\ Left[3] \in Nat BY <1>9, 2 + 1 = 3
<1>12. Len(Left) > 3 => Left[4] = script[3] /\ Left[4] \in Nat BY <1>9, 3 + 1 = 4
<1>13. Len(Left) > 4 => Left[5] = script[4] /\ Left[5] \in Nat BY <1>9, 4 + 1 = 5
<1>14. Len(Left) > 5 => Left[6] = script[5] BY <1>9, 5 + 1 = 6
<1> QED BY <1>1, <1>3, <1>4, <1>5, <1>7, <1>8, <1>10, <1>11, <1>12, <1>13, <1>14

LEMMA Product == \A n \in Nat : Radix * n \in Nat
BY RadixAssumption

\* What the steps of the bridge have in common.
BridgeFrame ==
  UNCHANGED <<vs_vars, using, script, wanted, got>>

LEMMA BridgeOnly ==
  ASSUME OwnerInv, AnswersInv, using = {"bridge"}, BridgeFrame, reads' \in Nat,
         Registers', UnderWay', ReadsBelong', br' \in BridgeStates, AtCommand', AtLengths',
         InTransfer'
  PROVE  AnswersInv'
<1> USE DEF BridgeFrame, vs_vars, vs_spi, vs_ep0, AnswersInv
<1>1. spi = "IDLE" /\ ep0 \notin {"RX", "EXEC_STATUS"} BY DEF OwnerInv, VendorUsed
<1>2. BridgeInv' BY DEF BridgeInv
<1>3. SpiInv' BY <1>1 DEF SpiInv, Staged
<1>4. ResultInv' BY DEF ResultInv, Counting
<1> QED BY <1>2, <1>3, <1>4

\* The command and its lengths, without the bus: what the four steps share.
TakesOctet ==
  /\ Left \in Seq(Nat) /\ Len(Left) \in Nat /\ Len(Left) > 0
  /\ Head(rx) = Left[1] /\ Left[1] \in Nat
  /\ Left' \in Seq(Nat) /\ Len(Left') = Len(Left) - 1
  /\ Len(Left) > 1 => Left'[1] = Left[2] /\ Left[2] \in Nat
  /\ Len(Left) > 2 => Left'[2] = Left[3] /\ Left[3] \in Nat
  /\ Len(Left) > 3 => Left'[3] = Left[4] /\ Left[4] \in Nat
  /\ Len(Left) > 4 => Left'[4] = Left[5] /\ Left[5] \in Nat
  /\ Back' = Back /\ wanted' = wanted /\ reads' = reads /\ replies' = replies
  /\ spi = "IDLE" /\ spi' = "IDLE"
  /\ Length \in Nat /\ Length = len_lo + Radix * Left[1]

LEMMA TakingOctet ==
  ASSUME OwnerInv, AnswersInv, using = {"bridge"},
         rx # <<>>, rx' = Tail(rx), tx' = tx,
         out_cnt' \in {out_cnt, Length}, in_cnt' \in {in_cnt, Length}, len_lo' \in {len_lo, Head(rx)},
         UNCHANGED wire, UNCHANGED <<vs_vars, host>>
  PROVE  TakesOctet /\ Registers' /\ ReadsBelong' /\ BridgeFrame
<1>1. Registers /\ ReadsBelong BY DEF AnswersInv
<1>2. script' = script /\ got' = got /\ wanted' = wanted /\ UNCHANGED <<reads, owners, replies>>
  BY DEF host, wire
<1>3. /\ Left \in Seq(Nat) /\ Len(Left) \in Nat /\ Len(Left) > 0
      /\ Head(rx) = Left[1] /\ Left[1] \in Nat /\ rx' = <<>>
      /\ Left' \in Seq(Nat) /\ Len(Left') = Len(Left) - 1
      /\ Len(Left) > 1 => Left'[1] = Left[2] /\ Left[2] \in Nat
      /\ Len(Left) > 2 => Left'[2] = Left[3] /\ Left[3] \in Nat
      /\ Len(Left) > 3 => Left'[3] = Left[4] /\ Left[4] \in Nat
      /\ Len(Left) > 4 => Left'[4] = Left[5] /\ Left[5] \in Nat
  BY <1>1, <1>2, LeftTaken
<1>4. Length = len_lo + Radix * Left[1] /\ Radix * Left[1] \in Nat BY <1>3, Product DEF Length
<1>5. Length \in Nat BY <1>1, <1>4 DEF Registers
<1>6. Registers' BY <1>1, <1>2, <1>3, <1>5 DEF Registers, Counting
<1>7. ReadsBelong' BY <1>1, <1>2 DEF ReadsBelong
<1>8. spi = "IDLE" /\ spi' = "IDLE" BY DEF OwnerInv, VendorUsed, vs_vars, vs_spi
<1>9. Back' = Back BY <1>2 DEF Back
<1>10. BridgeFrame BY DEF BridgeFrame, host
<1> QED BY <1>2, <1>3, <1>4, <1>5, <1>6, <1>7, <1>8, <1>9, <1>10 DEF TakesOctet

\* The octets that are still to come, by the number of them.
LEMMA OctetsAhead ==
  ASSUME TakesOctet
  PROVE  /\ Len(Left) \in Nat /\ Len(Left') = Len(Left) - 1
         /\ Len(Left) > 1 => Left'[1] = Left[2] /\ Left[2] \in Nat
         /\ Len(Left) > 2 => /\ Left'[1] = Left[2] /\ Left[2] \in Nat
                             /\ Left'[2] = Left[3] /\ Left[3] \in Nat
         /\ Len(Left) > 3 => /\ Left'[1] = Left[2] /\ Left[2] \in Nat
                             /\ Left'[2] = Left[3] /\ Left[3] \in Nat
                             /\ Left'[3] = Left[4] /\ Left[4] \in Nat
         /\ Len(Left) > 4 => /\ Left'[1] = Left[2] /\ Left[2] \in Nat
                             /\ Left'[2] = Left[3] /\ Left[3] \in Nat
                             /\ Left'[3] = Left[4] /\ Left[4] \in Nat
                             /\ Left'[4] = Left[5] /\ Left[5] \in Nat
<1>1. Len(Left) \in Nat BY DEF TakesOctet
<1>2. /\ Len(Left) > 2 => Len(Left) > 1
      /\ Len(Left) > 3 => Len(Left) > 2 /\ Len(Left) > 1
      /\ Len(Left) > 4 => Len(Left) > 3 /\ Len(Left) > 2 /\ Len(Left) > 1
  <2> HIDE DEF Left
  <2> DEFINE n == Len(Left)
  <2>1. n \in Nat BY <1>1
  <2> HIDE DEF n
  <2>2. (n > 2 => n > 1) /\ (n > 3 => n > 2 /\ n > 1) /\ (n > 4 => n > 3 /\ n > 2 /\ n > 1)
    BY ONLY <2>1
  <2> QED BY <2>2 DEF n
<1> QED BY <1>1, <1>2, Zenon DEF TakesOctet

LEMMA CommandStep ==
  ASSUME TakesOctet, AtCommand, BrCommand, reads = 0, UnderWay
  PROVE  br' \in BridgeStates /\ UnderWay' /\ AtCommand' /\ AtLengths' /\ InTransfer'
<1>1. br = "CMD_IDLE" /\ br' = IF Left[1] = 1 THEN "WLEN_LO" ELSE "CMD_IDLE"
  BY DEF BrCommand, Takes, TakesOctet
<1>2. UnderWay' BY <1>1 DEF UnderWay, TakesOctet
<1>3. CASE Left[1] = 1
  <2>1. /\ Len(Left) > 4 /\ Len(Left) = 5 + Left[2] + Radix * Left[3]
        /\ Back = 0 /\ wanted = Left[4] + Radix * Left[5]
    BY <1>1, <1>3, Len(Left) # 0 DEF AtCommand, TakesOctet
  <2>2. Left'[1] = Left[2] /\ Left'[2] = Left[3] /\ Left[2] \in Nat /\ Left[3] \in Nat
    BY <2>1, OctetsAhead, Zenon
  <2>3. Left'[3] = Left[4] /\ Left'[4] = Left[5] BY <2>1, OctetsAhead, Zenon
  <2>4. Radix * Left[3] \in Nat BY <2>2, Product
  <2>5. Len(Left') > 3 /\ Len(Left') = 4 + Left'[1] + Radix * Left'[2]
    <3> DEFINE x == Left[2]  y == Radix * Left[3]
    <3>1. Len(Left) = 5 + x + y /\ x \in Nat /\ y \in Nat BY <2>1, <2>2, <2>4
    <3>2. Left'[1] = x /\ Radix * Left'[2] = y BY <2>2
    <3>3. Len(Left') = Len(Left) - 1 BY OctetsAhead
    <3> HIDE DEF x, y
    <3> QED BY ONLY <3>1, <3>2, <3>3
  <2> QED
    BY <1>1, <1>2, <1>3, <2>1, <2>3, <2>5
       DEF AtCommand, AtLengths, InTransfer, TakesOctet, BridgeStates
<1>4. CASE Left[1] # 1
  <2>1. Len(Left) = 1 /\ Back = 0 /\ wanted = 0
    BY <1>1, <1>4, Len(Left) # 0 DEF AtCommand, TakesOctet
  <2>2. Left' = <<>> BY <2>1, EmptySeq DEF TakesOctet
  <2> QED
    BY <1>1, <1>2, <1>4, <2>1, <2>2 DEF AtCommand, AtLengths, InTransfer, TakesOctet, BridgeStates
<1> QED BY <1>3, <1>4

LEMMA LengthLoStep ==
  ASSUME TakesOctet, AtLengths, BrLengthLo, UnderWay, Registers
  PROVE  br' \in BridgeStates /\ UnderWay' /\ AtCommand' /\ AtLengths' /\ InTransfer'
<1>1. /\ len_lo' = Left[1] /\ out_cnt' = out_cnt
      /\ (br = "WLEN_LO" /\ br' = "WLEN_HI") \/ (br = "RLEN_LO" /\ br' = "RLEN_HI")
  BY DEF BrLengthLo, Takes, TakesOctet
<1>2. UnderWay' BY <1>1 DEF UnderWay, TakesOctet
<1>3. CASE br = "WLEN_LO"
  <2>1. /\ Len(Left) > 3 /\ Len(Left) = 4 + Left[1] + Radix * Left[2]
        /\ wanted = Left[3] + Radix * Left[4] /\ Back = 0 /\ reads = 0
    BY <1>3 DEF AtLengths
  <2>2. Left'[1] = Left[2] /\ Left'[2] = Left[3] /\ Left'[3] = Left[4] /\ Left[2] \in Nat
    BY <2>1, OctetsAhead, Zenon
  <2>3. Radix * Left[2] \in Nat BY <2>2, Product
  <2>4. Len(Left') = 3 + len_lo' + Radix * Left'[1]
    <3> DEFINE x == Left[1]  y == Radix * Left[2]
    <3>1. Len(Left) = 4 + x + y /\ x \in Nat /\ y \in Nat BY <2>1, <2>3 DEF TakesOctet
    <3>2. len_lo' = x /\ Radix * Left'[1] = y BY <1>1, <2>2
    <3>3. Len(Left') = Len(Left) - 1 BY OctetsAhead
    <3> HIDE DEF x, y
    <3> QED BY ONLY <3>1, <3>2, <3>3
  <2> QED
    BY <1>1, <1>2, <1>3, <2>1, <2>2, <2>4
       DEF AtCommand, AtLengths, InTransfer, TakesOctet, BridgeStates
<1>4. CASE br = "RLEN_LO"
  <2>1. /\ Len(Left) = 2 + out_cnt /\ out_cnt \in Nat /\ wanted = Left[1] + Radix * Left[2]
        /\ Back = 0 /\ reads = 0
    BY <1>4 DEF AtLengths, Registers
  <2>2. Left'[1] = Left[2] BY <2>1 DEF TakesOctet
  <2> QED
    BY <1>1, <1>2, <1>4, <2>1, <2>2 DEF AtCommand, AtLengths, InTransfer, TakesOctet, BridgeStates
<1> QED BY <1>1, <1>3, <1>4

LEMMA WlenHiStep ==
  ASSUME TakesOctet, AtLengths, BrWlenHi, UnderWay, Registers
  PROVE  br' \in BridgeStates /\ UnderWay' /\ AtCommand' /\ AtLengths' /\ InTransfer'
<1>1. br = "WLEN_HI" /\ br' = "RLEN_LO" /\ out_cnt' = Length BY DEF BrWlenHi, Takes
<1>2. UnderWay' BY <1>1 DEF UnderWay, TakesOctet
<1>3. /\ Len(Left) > 2 /\ Len(Left) = 3 + len_lo + Radix * Left[1]
      /\ wanted = Left[2] + Radix * Left[3] /\ Back = 0 /\ reads = 0
  BY <1>1 DEF AtLengths
<1>4. Left'[1] = Left[2] /\ Left'[2] = Left[3] BY <1>3, OctetsAhead, Zenon
<1>5. Len(Left') = 2 + out_cnt'
  <2> DEFINE l == Length
  <2>1. len_lo + Radix * Left[1] = l /\ l \in Nat BY DEF TakesOctet
  <2>2. Radix * Left[1] \in Nat /\ len_lo \in Nat BY Product DEF TakesOctet, Registers
  <2>3. Len(Left') = Len(Left) - 1 BY OctetsAhead
  <2> DEFINE y == Radix * Left[1]
  <2>4. len_lo + y = l /\ y \in Nat /\ Len(Left) = 3 + len_lo + y BY <1>3, <2>1, <2>2
  <2>5. out_cnt' = l BY <1>1
  <2> HIDE DEF l, y
  <2> QED BY ONLY <2>1, <2>2, <2>3, <2>4, <2>5
<1> QED
  BY <1>1, <1>2, <1>3, <1>4, <1>5 DEF AtCommand, AtLengths, InTransfer, TakesOctet, BridgeStates

LEMMA RlenHiStep ==
  ASSUME TakesOctet, AtLengths, BrRlenHi, UnderWay, Registers
  PROVE  br' \in BridgeStates /\ UnderWay' /\ AtCommand' /\ AtLengths' /\ InTransfer'
<1>1. /\ br = "RLEN_HI" /\ in_cnt' = Length /\ out_cnt' = out_cnt
      /\ br' = IF out_cnt # 0 THEN "DO_OUT" ELSE IF in_cnt' # 0 THEN "DO_IN_REQ" ELSE "RELEASE"
  BY DEF BrRlenHi, Takes
<1>2. /\ Len(Left) = 1 + out_cnt /\ out_cnt \in Nat /\ wanted = Length
      /\ Back = 0 /\ reads = 0 /\ Length \in Nat
  BY <1>1 DEF AtLengths, TakesOctet, Registers
<1>3. Len(Left') = out_cnt /\ (out_cnt = 0 => Left' = <<>>)
  BY <1>2, EmptySeq DEF TakesOctet
<1>4. UnderWay' /\ br' \in BridgeStates BY <1>1 DEF UnderWay, TakesOctet, BridgeStates
<1> QED BY <1>1, <1>2, <1>3, <1>4 DEF AtCommand, AtLengths, InTransfer, TakesOctet

LEMMA TakesAnswers ==
  ASSUME OwnerInv, AnswersInv, using = {"bridge"}, BrTakes, UNCHANGED wire,
         UNCHANGED <<vs_vars, host>>
  PROVE  AnswersInv'
<1>1. /\ rx # <<>> /\ rx' = Tail(rx) /\ tx' = tx
      /\ out_cnt' \in {out_cnt, Length} /\ in_cnt' \in {in_cnt, Length}
      /\ len_lo' \in {len_lo, Head(rx)}
  BY DEF BrTakes, BrCommand, BrLengthLo, BrWlenHi, BrRlenHi, Takes
<1>2. TakesOctet /\ Registers' /\ ReadsBelong' /\ BridgeFrame BY <1>1, TakingOctet
<1>3. AtCommand /\ AtLengths /\ InTransfer /\ UnderWay /\ Registers /\ ReadsBelong
  BY DEF AnswersInv, BridgeInv
<1>4. BrCommand => reads = 0
  BY <1>3 DEF OwnerInv, BridgeRests, Owns, ReadsBelong, None, BrCommand, Takes
<1>5. br' \in BridgeStates /\ UnderWay' /\ AtCommand' /\ AtLengths' /\ InTransfer'
  BY <1>2, <1>3, <1>4, CommandStep, LengthLoStep, WlenHiStep, RlenHiStep DEF BrTakes
<1>6. reads' \in Nat BY <1>2 DEF Registers
<1> QED BY <1>2, <1>5, <1>6, BridgeOnly

\* The steps on the bus: octets out, a read, its answer, the end of the frame.
LEMMA OutAnswers ==
  ASSUME OwnerInv, AnswersInv, using = {"bridge"}, BrOut, Octet(1, Head(rx)),
         UNCHANGED <<vs_vars, host>>
  PROVE  AnswersInv'
<1>1. Registers /\ AtLengths /\ InTransfer /\ UnderWay /\ ReadsBelong BY DEF AnswersInv, BridgeInv
<1>2. /\ br = "DO_OUT" /\ rx # <<>> /\ rx' = Tail(rx) /\ tx' = tx /\ out_cnt' = out_cnt - 1
      /\ in_cnt' = in_cnt /\ len_lo' = len_lo
      /\ br' = IF out_cnt = 1 THEN AfterOut ELSE br
  BY DEF BrOut, Takes
<1>3. owners' = owners \cup {1} /\ reads' = reads /\ replies' = replies BY DEF Octet, Sent
<1>4. script' = script /\ got' = got /\ wanted' = wanted /\ BridgeFrame BY DEF host, BridgeFrame
<1>5. /\ Left \in Seq(Nat) /\ Len(Left) \in Nat /\ rx' = <<>>
      /\ Left' \in Seq(Nat) /\ Len(Left') = Len(Left) - 1
  BY <1>1, <1>2, <1>4, LeftTaken
<1>6. /\ Len(Left) = out_cnt /\ out_cnt > 0 /\ wanted = in_cnt /\ Back = 0 /\ reads = 0
      /\ out_cnt \in Nat /\ in_cnt \in Nat
  BY <1>1, <1>2 DEF AtLengths, InTransfer, Registers
<1>7. Len(Left') = out_cnt' /\ out_cnt' \in Nat /\ (out_cnt = 1 => Left' = <<>>)
  <2>1. Len(Left') = out_cnt' BY <1>2, <1>5, <1>6
  <2>2. out_cnt' \in Nat /\ (out_cnt = 1 => out_cnt' = 0) BY ONLY <1>2, <1>6
  <2> QED BY <1>5, <2>1, <2>2, EmptySeq
<1>8. Registers' BY <1>1, <1>2, <1>3, <1>4, <1>5, <1>7 DEF Registers, Counting
<1>9. spi' = "IDLE" /\ spi = "IDLE" BY DEF OwnerInv, VendorUsed, vs_vars, vs_spi
<1>10. Back' = Back BY <1>2, <1>4 DEF Back
<1>11. UnderWay' /\ ReadsBelong' /\ br' \in BridgeStates
  BY <1>1, <1>2, <1>3, <1>9 DEF UnderWay, ReadsBelong, AfterOut, BridgeStates
<1>12. AtCommand' /\ AtLengths' /\ InTransfer'
  <2>1. CASE out_cnt = 1
    <3>1. br' = AfterOut /\ Left' = <<>> BY <1>2, <1>7, <2>1
    <3> QED
      BY <1>2, <1>3, <1>4, <1>6, <1>10, <3>1 DEF AtCommand, AtLengths, InTransfer, AfterOut
  <2>2. CASE out_cnt # 1
    <3>1. br' = "DO_OUT" /\ out_cnt' > 0 BY <1>2, <1>6, <2>2
    <3> QED
      BY <1>2, <1>3, <1>4, <1>6, <1>7, <1>10, <3>1 DEF AtCommand, AtLengths, InTransfer
  <2> QED BY <2>1, <2>2
<1> QED BY <1>3, <1>4, <1>6, <1>8, <1>11, <1>12, BridgeOnly

LEMMA InReqAnswers ==
  ASSUME OwnerInv, AnswersInv, using = {"bridge"}, BrInReq, Read(1), UNCHANGED <<vs_vars, host>>
  PROVE  AnswersInv'
<1>1. Registers /\ InTransfer /\ UnderWay BY DEF AnswersInv, BridgeInv
<1>2. /\ br = "DO_IN_REQ" /\ br' = "DO_IN_RESP"
      /\ UNCHANGED <<out_cnt, in_cnt, len_lo, boot, rx, tx>>
  BY DEF BrInReq
<1>3. owners' = owners \cup {1} /\ reads' = reads + 1 /\ replies' = Append(replies, reads + 1)
  BY DEF Read
<1>4. script' = script /\ got' = got /\ wanted' = wanted /\ BridgeFrame BY DEF host, BridgeFrame
<1>5. spi' = "IDLE" /\ spi = "IDLE" BY DEF OwnerInv, VendorUsed, vs_vars, vs_spi
<1>6. replies = <<>> /\ replies' = <<reads'>> BY <1>1, <1>2, <1>3, <1>5 DEF UnderWay
<1>7. Left' = Left /\ Back' = Back BY <1>2, <1>4 DEF Left, Back
<1>8. Registers' BY <1>1, <1>2, <1>3, <1>4 DEF Registers, Counting
<1>9. UnderWay' /\ ReadsBelong' /\ br' \in BridgeStates
  BY <1>2, <1>3, <1>6 DEF UnderWay, ReadsBelong, BridgeStates
<1>10. AtCommand' /\ AtLengths' /\ InTransfer'
  BY <1>1, <1>2, <1>3, <1>4, <1>7 DEF AtCommand, AtLengths, InTransfer
<1>11. reads' \in Nat BY <1>8 DEF Registers
<1> QED BY <1>4, <1>8, <1>9, <1>10, <1>11, BridgeOnly

LEMMA InRespAnswers ==
  ASSUME OwnerInv, AnswersInv, using = {"bridge"}, BrInResp(Head(replies)), Reply,
         UNCHANGED <<vs_vars, host>>
  PROVE  AnswersInv'
<1>1. Registers /\ InTransfer /\ UnderWay /\ ReadsBelong BY DEF AnswersInv, BridgeInv
<1>2. /\ br = "DO_IN_RESP" /\ tx = <<>> /\ tx' = <<Head(replies)>> /\ in_cnt' = in_cnt - 1
      /\ br' = IF in_cnt = 1 THEN "RELEASE" ELSE "DO_IN_REQ"
      /\ UNCHANGED <<out_cnt, len_lo, rx>>
  BY DEF BrInResp
<1>3. owners' = owners /\ reads' = reads /\ replies' = Tail(replies) BY DEF Reply
<1>4. script' = script /\ got' = got /\ wanted' = wanted /\ BridgeFrame BY DEF host, BridgeFrame
<1>5. spi' = "IDLE" /\ spi = "IDLE" BY DEF OwnerInv, VendorUsed, vs_vars, vs_spi
<1>6. replies = <<reads>> /\ Head(replies) = reads /\ replies' = <<>>
  BY <1>1, <1>2, <1>3 DEF UnderWay
<1>7. got \in Seq(Nat) /\ Len(got) \in Nat BY <1>1 DEF Registers
<1>8. Back = Len(got) /\ Back' = Len(got) + 1
  BY <1>2, <1>4, <1>7 DEF Back
<1>9. /\ reads = Len(got) + 1 /\ Left = <<>> /\ in_cnt \in Nat /\ in_cnt > 0
      /\ Len(got) + in_cnt = wanted
  BY <1>1, <1>2, <1>8 DEF InTransfer, Registers
<1>10. Left' = Left BY <1>2, <1>4 DEF Left
<1>11. tx' = <<Len(got) + 1>> BY <1>2, <1>6, <1>9
<1>12. in_cnt' \in Nat /\ Back' + in_cnt' = wanted /\ (in_cnt # 1 => in_cnt' > 0)
       /\ (in_cnt = 1 => Back' = wanted)
  <2> DEFINE g == Len(got)
  <2>1. g \in Nat /\ g + in_cnt = wanted /\ Back' = g + 1 BY <1>7, <1>8, <1>9
  <2>2. in_cnt' = in_cnt - 1 /\ in_cnt \in Nat /\ in_cnt > 0 BY <1>2, <1>9
  <2> HIDE DEF g
  <2> QED BY ONLY <2>1, <2>2
<1>13. Registers' BY <1>1, <1>2, <1>3, <1>4, <1>11, <1>12 DEF Registers, Counting
<1>14. UnderWay' /\ ReadsBelong' /\ br' \in BridgeStates
  BY <1>1, <1>2, <1>3, <1>5, <1>6 DEF UnderWay, ReadsBelong, BridgeStates
<1>15. AtCommand' /\ AtLengths' /\ InTransfer'
  BY <1>2, <1>3, <1>4, <1>8, <1>9, <1>10, <1>12 DEF AtCommand, AtLengths, InTransfer
<1>16. reads' \in Nat BY <1>13 DEF Registers
<1> QED BY <1>4, <1>13, <1>14, <1>15, <1>16, BridgeOnly

LEMMA ReleaseAnswers ==
  ASSUME OwnerInv, AnswersInv, using = {"bridge"}, BrRelease, Rise, UNCHANGED <<vs_vars, host>>
  PROVE  AnswersInv'
<1>1. Registers /\ InTransfer /\ UnderWay BY DEF AnswersInv, BridgeInv
<1>2. /\ br = "RELEASE" /\ br' = "CMD_IDLE"
      /\ UNCHANGED <<out_cnt, in_cnt, len_lo, rx, tx>>
  BY DEF BrRelease
<1>3. owners' = {} /\ reads' = 0 /\ replies' = replies BY DEF Rise, Closed
<1>4. script' = script /\ got' = got /\ wanted' = wanted /\ BridgeFrame BY DEF host, BridgeFrame
<1>5. spi' = "IDLE" /\ spi = "IDLE" BY DEF OwnerInv, VendorUsed, vs_vars, vs_spi
<1>6. Left' = Left /\ Back' = Back BY <1>2, <1>4 DEF Left, Back
<1>7. Registers' BY <1>1, <1>2, <1>3, <1>4 DEF Registers, Counting
<1>8. UnderWay' /\ ReadsBelong' /\ br' \in BridgeStates
  BY <1>1, <1>2, <1>3, <1>5 DEF UnderWay, ReadsBelong, BridgeStates
<1>9. AtCommand' /\ AtLengths' /\ InTransfer'
  BY <1>1, <1>2, <1>4, <1>6 DEF AtCommand, AtLengths, InTransfer
<1> QED BY <1>3, <1>4, <1>7, <1>8, <1>9, BridgeOnly

LEMMA BridgeAnswers == ASSUME OwnerInv, AnswersInv, BridgeStep PROVE AnswersInv'
<1>1. using = {"bridge"}
  BY DEF BridgeStep, OwnerInv, OneFunction, BridgeUsed, BrTakes, BrCommand, BrLengthLo, BrWlenHi,
         BrRlenHi, BrOut, BrInReq, BrInResp, BrRelease, Takes
<1>2. UNCHANGED <<vs_vars, host>> BY DEF BridgeStep
<1> QED
  BY <1>1, <1>2, TakesAnswers, OutAnswers, InReqAnswers, InRespAnswers, ReleaseAnswers
     DEF BridgeStep

\* The host's side of the endpoints.
LEMMA FeedAnswers == ASSUME OwnerInv, AnswersInv, Feed PROVE AnswersInv'
<1>1. Registers /\ AtCommand /\ AtLengths /\ InTransfer /\ UnderWay /\ ReadsBelong
      /\ br \in BridgeStates
  BY DEF AnswersInv, BridgeInv, Feed
<1>2. /\ rx = <<>> /\ script # <<>> /\ rx' = <<Head(script)>> /\ script' = Tail(script)
      /\ UNCHANGED <<br, out_cnt, in_cnt, len_lo, tx, wire, got, wanted>>
  BY DEF Feed
<1>3. Left' = Left /\ rx' \in Seq(Nat) /\ Len(rx') <= 1 /\ script' \in Seq(Nat)
  BY <1>1, LeftFed DEF Feed
<1>4. UNCHANGED <<br, out_cnt, in_cnt, len_lo, tx, reads, owners, replies, got, wanted, using>>
  BY DEF Feed, wire
<1>5. UNCHANGED vs_vars BY DEF Feed
<1>6. Back' = Back BY <1>4 DEF Back
<1>7. Registers' BY <1>1, <1>3, <1>4 DEF Registers, Counting
<1>8. UnderWay' /\ ReadsBelong'
  BY <1>1, <1>4, <1>5 DEF UnderWay, ReadsBelong, vs_vars, vs_spi
<1>9. AtCommand' /\ AtLengths' /\ InTransfer'
  BY <1>1, <1>3, <1>4, <1>6 DEF AtCommand, AtLengths, InTransfer
<1>10. "bridge" \in using BY DEF Feed
<1>11. BridgeInv' BY <1>1, <1>4, <1>9, <1>10 DEF BridgeInv
<1>12. SpiInv' BY <1>4, <1>5 DEF AnswersInv, SpiInv, Staged, vs_vars, vs_spi, vs_ep0
<1>13. ResultInv'
  BY <1>4, <1>5 DEF AnswersInv, ResultInv, Counting, vs_vars, vs_spi, vs_ep0
<1> QED BY <1>4, <1>7, <1>8, <1>10, <1>11, <1>12, <1>13 DEF AnswersInv

LEMMA CollectAnswers == ASSUME OwnerInv, AnswersInv, Collect PROVE AnswersInv'
<1>1. Registers /\ AtCommand /\ AtLengths /\ InTransfer /\ UnderWay /\ ReadsBelong
      /\ br \in BridgeStates
  BY DEF AnswersInv, BridgeInv, Collect
<1>2. /\ "bridge" \in using /\ tx # <<>> /\ got' = got \o tx /\ tx' = <<>>
      /\ UNCHANGED <<br, out_cnt, in_cnt, len_lo, rx, reads, owners, replies, script, wanted, using>>
  BY DEF Collect, wire
<1>3. UNCHANGED vs_vars BY DEF Collect
<1>4. tx = <<Len(got) + 1>> /\ got \in Seq(Nat) /\ Counting(got) BY <1>1, <1>2 DEF Registers
<1>5. got' \in Seq(Nat) /\ Len(got') = Len(got) + 1 /\ Counting(got')
  <2> DEFINE n == Len(got)
  <2>1. n \in Nat /\ tx = <<n + 1>> /\ tx \in Seq(Nat) /\ Len(tx) = 1 BY <1>4
  <2>2. got' \in Seq(Nat) /\ Len(got') = n + 1 BY <1>2, <1>4, <2>1
  <2>3. ASSUME NEW k \in 1 .. n + 1 PROVE got'[k] = k
    <3>1. CASE k <= n BY <1>2, <1>4, <2>1, <3>1 DEF Counting
    <3>2. CASE k = n + 1 BY <1>2, <1>4, <2>1, <3>2
    <3> QED BY <2>1, <3>1, <3>2
  <2> QED BY <2>2, <2>3 DEF Counting
<1>6. Left' = Left BY <1>2 DEF Left
<1>7. Back' = Back
  <2>1. Len(tx) = 1 /\ Len(tx') = 0 /\ Len(got) \in Nat BY <1>2, <1>4
  <2> QED BY <1>5, <2>1 DEF Back
<1>8. Registers' BY <1>1, <1>2, <1>5 DEF Registers
<1>9. UnderWay' /\ ReadsBelong'
  BY <1>1, <1>2, <1>3 DEF UnderWay, ReadsBelong, vs_vars, vs_spi
<1>10. AtCommand' /\ AtLengths' /\ InTransfer'
  BY <1>1, <1>2, <1>6, <1>7 DEF AtCommand, AtLengths, InTransfer
<1>11. BridgeInv' BY <1>1, <1>2, <1>10 DEF BridgeInv
<1>12. SpiInv' BY <1>2, <1>3 DEF AnswersInv, SpiInv, Staged, vs_vars, vs_spi, vs_ep0
<1>13. using = {"bridge"} BY <1>2 DEF OwnerInv, OneFunction
<1>14. ResultInv'
  BY <1>2, <1>3, <1>13 DEF AnswersInv, ResultInv, vs_vars, vs_spi, vs_ep0
<1> QED BY <1>2, <1>8, <1>9, <1>11, <1>12, <1>14 DEF AnswersInv

\* With the bridge waiting for a command, and none ahead, the last one is answered.
LEMMA EndBridgeAnswers == ASSUME OwnerInv, AnswersInv, EndBridge PROVE AnswersInv'
<1>1. /\ using = {"bridge"} /\ using' = {} /\ script = <<>> /\ rx = <<>> /\ br = "CMD_IDLE"
      /\ Len(got) = wanted
      /\ UNCHANGED <<vs_vars, br_vars, wire, script, wanted, got>>
  BY DEF EndBridge, End, OwnerInv, OneFunction
<1>2. Registers /\ AtCommand BY <1>1 DEF AnswersInv, BridgeInv
<1>3. Left = <<>> BY <1>1 DEF Left
<1>4. Len(Left) = 0 BY <1>3
<1>5. Back = wanted BY <1>1, <1>2, <1>4 DEF AtCommand
<1>6. tx = <<>>
  <2>1. SUFFICES ASSUME tx = <<Len(got) + 1>> PROVE FALSE BY <1>2 DEF Registers
  <2>2. Len(tx) = 1 /\ Len(got) \in Nat BY <1>2, <2>1 DEF Registers
  <2> QED BY <1>1, <1>5, <2>2 DEF Back
<1> USE DEF br_vars, vs_vars, vs_spi, vs_ep0, wire, AnswersInv
<1>7. Registers' BY <1>1, <1>2 DEF Registers, Counting
<1>8. UnderWay' /\ ReadsBelong' BY <1>1 DEF UnderWay, ReadsBelong
<1>9. BridgeInv' BY <1>1, <1>6 DEF BridgeInv, BridgeStates
<1>10. SpiInv' BY <1>1 DEF SpiInv, Staged
<1>11. ResultInv' BY <1>1 DEF ResultInv
<1> QED BY <1>1, <1>7, <1>8, <1>9, <1>10, <1>11

LEMMA StartBridgeAnswers ==
  ASSUME CommandsFit, OwnerInv, AnswersInv, using = {}, StartBridge
  PROVE  AnswersInv'
<1>1. /\ using' = {"bridge"} /\ got' = <<>> /\ script' \in Transactions
      /\ wanted' = IF script'[1] = 1 THEN script'[4] + Radix * script'[5] ELSE 0
      /\ UNCHANGED <<br_vars, vs_vars, wire>>
  BY DEF StartBridge, Start
<1>2. Registers /\ UnderWay /\ ReadsBelong BY DEF AnswersInv
<1>3. tx = <<>> /\ rx = <<>> /\ br = "CMD_IDLE" BY DEF OwnerInv, BridgeUsed, AnswersInv, BridgeInv
<1>4. rx' = <<>> /\ tx' = <<>> /\ br' = "CMD_IDLE" BY <1>1, <1>3 DEF br_vars
<1>5. script' \in Seq(Nat) /\ Left' = script' /\ Back' = 0
  <2>1. script' \in Seq(Nat) BY <1>1 DEF CommandsFit
  <2> QED BY <1>1, <1>4, <2>1 DEF Left, Back
<1>6. AtCommand' /\ wanted' \in Nat
  <2>1. CASE script'[1] = 1
    <3>1. /\ Len(script') > 4
          /\ Len(script') = 5 + script'[2] + Radix * script'[3]
      BY <1>1, <2>1 DEF CommandsFit
    <3>2. wanted' = script'[4] + Radix * script'[5] BY <1>1, <2>1
    <3>3. AtCommand' BY <1>5, <2>1, <3>1, <3>2 DEF AtCommand
    <3>4. script'[4] \in Nat /\ script'[5] \in Nat
      <4>1. Len(script') \in Nat BY <1>5
      <4>2. 4 \in 1 .. Len(script') /\ 5 \in 1 .. Len(script') BY <3>1, <4>1
      <4> QED BY <1>5, <4>2
    <3>5. Radix * script'[5] \in Nat BY <3>4, Product
    <3> QED BY <3>2, <3>3, <3>4, <3>5
  <2>2. CASE script'[1] # 1
    <3>1. Len(script') = 1 /\ wanted' = 0 BY <1>1, <2>2 DEF CommandsFit
    <3> QED BY <1>5, <2>2, <3>1 DEF AtCommand
  <2> QED BY <2>1, <2>2
<1>7. AtLengths' /\ InTransfer' BY <1>4 DEF AtLengths, InTransfer
<1>8. BridgeInv' BY <1>1, <1>4, <1>6, <1>7 DEF BridgeInv, BridgeStates
<1>9. Registers'
  BY <1>1, <1>2, <1>4, <1>5, <1>6 DEF Registers, Counting, br_vars, wire
<1>10. UnderWay' /\ ReadsBelong'
  BY <1>1, <1>2, <1>3 DEF UnderWay, ReadsBelong, br_vars, vs_vars, vs_spi, wire
<1>11. SpiInv' BY <1>1 DEF AnswersInv, SpiInv, Staged, vs_vars, vs_spi, vs_ep0, wire
<1>12. ResultInv' BY <1>1 DEF AnswersInv, ResultInv, vs_vars, vs_spi, vs_ep0
<1> QED BY <1>1, <1>8, <1>9, <1>10, <1>11, <1>12 DEF AnswersInv

-----------------------------------------------------------------------------
(* The vendor bridge. *)

\* What its steps leave alone, and what remains to be shown of them.
LEMMA VendorOnly ==
  ASSUME OwnerInv, AnswersInv, "bridge" \notin using, "bridge" \notin using',
         UNCHANGED br_vars, got' \in Seq(Nat), Counting(got'), wanted' \in Nat,
         got' = got \/ tx = <<>>, script' \in Seq(Nat), reads' \in Nat,
         UnderWay', ReadsBelong', SpiInv', ResultInv',
         using' \cap {"bridge", "result"} = {} => Len(got') = wanted'
  PROVE  AnswersInv'
<1> USE DEF br_vars
<1>1. Registers /\ BridgeInv BY DEF AnswersInv
<1>2. tx = <<>> BY <1>1 DEF BridgeInv
<1>3. Registers' BY <1>1, <1>2 DEF Registers
<1>4. BridgeInv' BY <1>1, <1>2 DEF BridgeInv
<1> QED BY <1>3, <1>4 DEF AnswersInv

LEMMA StagedNext ==
  ASSUME SpiInv, NEW n \in Nat, n < rlen, Staged(n), rmem' = [rmem EXCEPT ![n % RBUF] = n + 1]
  PROVE  rmem' \in [0 .. RBUF - 1 -> Nat] /\ \A k \in 0 .. n : rmem'[k] = k + 1
<1>1. RBUF \in Nat /\ RBUF > 0 /\ rlen \in 0 .. RBUF BY StagingAssumption DEF SpiInv
<1>2. n \in 0 .. RBUF - 1 BY <1>1
<1>3. n % RBUF = n BY <1>1, <1>2
<1>4. rmem \in [0 .. RBUF - 1 -> Nat] BY DEF SpiInv
<1>5. rmem' = [rmem EXCEPT ![n] = n + 1] BY <1>3
<1>6. ASSUME NEW k \in 0 .. n PROVE rmem'[k] = k + 1
  <2>1. CASE k = n BY <1>2, <1>4, <1>5, <2>1
  <2>2. CASE k # n
    <3>1. k \in 0 .. n - 1 /\ k \in 0 .. RBUF - 1 BY <1>1, <1>2, <2>2
    <3> QED BY <1>4, <1>5, <2>2, <3>1 DEF Staged
  <2> QED BY <2>1, <2>2
<1>7. n + 1 \in Nat OBVIOUS
<1>8. rmem' \in [0 .. RBUF - 1 -> Nat] BY <1>4, <1>5, <1>7
<1> QED BY <1>6, <1>8

LEMMA VendorAnswers == ASSUME OwnerInv, AnswersInv, VendorStep PROVE AnswersInv'
<1>1. UNCHANGED <<br_vars, host, vs_ep0>> /\ spi # "IDLE"
  BY DEF VendorStep, VsShiftNone, VsShiftW, VsShiftReq, VsShiftResp, VsRelease, vs_ep0
<1>2. using = {"vendor"} /\ ep0 # "RX" BY <1>1 DEF OwnerInv, OneFunction, VendorUsed
<1>3. br = "CMD_IDLE" /\ br' = "CMD_IDLE" BY <1>1, <1>2 DEF OwnerInv, BridgeUsed, br_vars
<1>4. Registers /\ UnderWay /\ ReadsBelong /\ SpiInv /\ ResultInv BY DEF AnswersInv
<1>5. reads \in Nat /\ rlen \in 0 .. RBUF /\ rlen' = rlen /\ ep0' = ep0 /\ RBUF \in Nat
  BY <1>1, <1>4, StagingAssumption DEF Registers, SpiInv, vs_ep0
<1>6. reads' \in Nat /\ UnderWay' /\ ReadsBelong' /\ SpiInv'
  <2>1. CASE VsShiftNone /\ UNCHANGED <<flash, wire>>
    <3>1. /\ spi = "SHIFT_W" /\ spi' = IF rlen # 0 THEN "SHIFT_R_REQ" ELSE "RELEASE"
          /\ UNCHANGED <<ridx, rmem, reads, replies, owners>>
      BY <2>1 DEF VsShiftNone, VsWritten, wire
    <3> QED
      BY <1>3, <1>4, <1>5, <3>1 DEF UnderWay, ReadsBelong, SpiInv, Staged
  <2>2. CASE VsShiftW /\ Octet(None, 0)
    <3>1. /\ spi = "SHIFT_W"
          /\ spi' = "SHIFT_W" \/ spi' = IF rlen # 0 THEN "SHIFT_R_REQ" ELSE "RELEASE"
          /\ UNCHANGED <<ridx, rmem, reads, replies>> /\ owners' = owners \cup {None}
      BY <2>2 DEF VsShiftW, VsWritten, Octet, Sent
    <3> QED
      BY <1>3, <1>4, <1>5, <3>1 DEF UnderWay, ReadsBelong, SpiInv, Staged
  <2>3. CASE VsShiftReq /\ Read(None)
    <3>1. /\ spi = "SHIFT_R_REQ" /\ spi' = "SHIFT_R_RESP" /\ UNCHANGED <<ridx, rmem>>
          /\ owners' = owners \cup {None} /\ reads' = reads + 1
          /\ replies' = Append(replies, reads + 1)
      BY <2>3 DEF VsShiftReq, Read
    <3>2. replies = <<>> /\ replies' = <<reads'>> BY <1>3, <1>4, <3>1 DEF UnderWay
    <3>3. UnderWay' BY <3>1, <3>2 DEF UnderWay
    <3>4. ReadsBelong' BY <3>1 DEF ReadsBelong
    <3>5. SpiInv' BY <1>4, <1>5, <3>1 DEF SpiInv, Staged
    <3> QED BY <1>5, <3>1, <3>3, <3>4, <3>5
  <2>4. CASE VsShiftResp(Head(replies)) /\ Reply
    <3>1. /\ spi = "SHIFT_R_RESP" /\ rmem' = [rmem EXCEPT ![ridx % RBUF] = Head(replies)]
          /\ ridx' = ridx + 1 /\ spi' = IF ridx = rlen - 1 THEN "RELEASE" ELSE "SHIFT_R_REQ"
          /\ replies' = Tail(replies) /\ reads' = reads /\ owners' = owners
      BY <2>4 DEF VsShiftResp, Reply
    <3>2. replies = <<reads>> /\ Head(replies) = reads /\ replies' = <<>>
      BY <1>3, <1>4, <3>1 DEF UnderWay
    <3>3. ridx \in Nat /\ ridx + 1 = reads /\ ridx < rlen /\ Staged(ridx)
      BY <1>4, <3>1 DEF SpiInv
    <3>4. rmem' = [rmem EXCEPT ![ridx % RBUF] = ridx + 1] BY <3>1, <3>2, <3>3
    <3>5. rmem' \in [0 .. RBUF - 1 -> Nat] /\ \A k \in 0 .. ridx : rmem'[k] = k + 1
      BY <1>4, <3>3, <3>4, StagedNext
    <3>6. UnderWay' /\ ReadsBelong' BY <1>3, <1>4, <3>1, <3>2 DEF UnderWay, ReadsBelong
    <3>7. SpiInv' BY <1>4, <1>5, <3>1, <3>3, <3>5 DEF SpiInv, Staged
    <3> QED BY <1>5, <3>1, <3>6, <3>7
  <2>5. CASE VsRelease /\ Rise
    <3>1. /\ spi = "RELEASE" /\ spi' = "IDLE" /\ UNCHANGED <<ridx, rmem, replies>>
          /\ owners' = {} /\ reads' = 0
      BY <2>5 DEF VsRelease, Rise, Closed
    <3> QED BY <1>3, <1>4, <1>5, <3>1 DEF UnderWay, ReadsBelong, SpiInv, Staged
  <2> QED BY <2>1, <2>2, <2>3, <2>4, <2>5 DEF VendorStep
<1>7. ResultInv' BY <1>1, <1>4, <1>5 DEF ResultInv, Counting, vs_ep0, host
<1>8. Len(got) = wanted BY <1>2 DEF AnswersInv
<1> QED BY <1>1, <1>2, <1>4, <1>6, <1>7, <1>8, VendorOnly DEF Registers, Counting, host

\* The control transfers. RESULT sends the staged octets on, one at a time.
LEMMA StreamAnswers ==
  ASSUME OwnerInv, AnswersInv, StreamOctet(wanted), UNCHANGED <<host, br_vars, wire>>
  PROVE  AnswersInv'
<1>1. Registers /\ UnderWay /\ ReadsBelong /\ SpiInv /\ ResultInv BY DEF AnswersInv
<1>2. ep0 = "RESULT_STREAM" /\ UNCHANGED <<vs_spi, wlen, rlen, rxidx>> BY DEF StreamOctet
<1>3. "result" \in using /\ using = {"result"} BY <1>1, <1>2 DEF ResultInv, OwnerInv, OneFunction
<1>4. /\ result \in Seq(Nat) /\ packet \in Seq(Nat) /\ wanted = rlen /\ got = <<>>
      /\ Counting(result \o packet) /\ pos = Len(result) + Len(packet) /\ pos < wanted
      /\ pos \in Nat /\ wanted \in Nat /\ rlen \in 0 .. RBUF
  BY <1>1, <1>2, <1>3 DEF ResultInv, Registers, SpiInv
<1>5. spi = "IDLE" /\ Staged(rlen)
  BY <1>1, <1>2, <1>3 DEF OwnerInv, VendorUsed, SpiInv
<1> DEFINE sent == Append(packet, rmem[pos % RBUF])
           last == pos = rlen - 1 \/ pos = wanted - 1
<1>6. rmem[pos % RBUF] = pos + 1
  <2>1. RBUF \in Nat /\ RBUF > 0 BY StagingAssumption
  <2>2. pos \in 0 .. RBUF - 1 /\ pos \in 0 .. rlen - 1 BY <1>4, <2>1
  <2>3. pos % RBUF = pos BY <2>1, <2>2
  <2> QED BY <1>5, <2>2, <2>3 DEF Staged
<1>7. last <=> pos + 1 = wanted
  <2> QED BY <1>4
<1>8. /\ IF last \/ in_packet = MPS - 1
           THEN ep0' = "RESULT_CLAIM" /\ result' = result \o sent /\ packet' = <<>>
           ELSE ep0' = ep0 /\ result' = result /\ packet' = sent
      /\ pos' = IF last THEN pos ELSE pos + 1
  BY DEF StreamOctet, NextPos
<1>9. sent = Append(packet, pos + 1) BY <1>6
<1> HIDE DEF sent, last
<1>10. sent \in Seq(Nat) /\ result \o sent \in Seq(Nat) /\ Len(sent) = Len(packet) + 1
       /\ Len(result \o sent) = pos + 1 /\ Len(result) \in Nat /\ Len(packet) \in Nat
  <2>1. Len(result) \in Nat /\ Len(packet) \in Nat BY <1>4
  <2>2. sent \in Seq(Nat) /\ Len(sent) = Len(packet) + 1 BY <1>4, <1>9
  <2>3. result \o sent \in Seq(Nat) /\ Len(result \o sent) = Len(result) + Len(sent)
    BY <1>4, <2>2, ConcatProperties, Zenon
  <2> DEFINE a == Len(result)  b == Len(packet)  c == Len(sent)  d == Len(result \o sent)
  <2>4. a \in Nat /\ b \in Nat /\ c = b + 1 /\ d = a + c /\ pos = a + b BY <1>4, <2>1, <2>2, <2>3
  <2> HIDE DEF a, b, c, d
  <2>5. d = pos + 1 BY ONLY <2>4
  <2> QED BY <2>1, <2>2, <2>3, <2>5 DEF d
<1>11. Counting(result \o sent)
  <2>1. ASSUME NEW k \in 1 .. pos + 1 PROVE (result \o sent)[k] = k
    <3>1. CASE k <= Len(result)
      <4>1. k \in 1 .. Len(result) BY <1>10, <3>1
      <4>2. (result \o sent)[k] = result[k] /\ (result \o packet)[k] = result[k]
        BY <1>4, <1>10, <4>1
      <4>3. k \in 1 .. Len(result \o packet) BY <1>4, <1>10, <4>1
      <4> QED BY <1>4, <4>2, <4>3 DEF Counting
    <3>2. CASE k > Len(result) /\ k <= pos
      <4> DEFINE j == k - Len(result)
      <4>1. j \in 1 .. Len(packet) BY <1>4, <1>10, <3>2
      <4>2. sent[j] = packet[j] BY <1>4, <1>9, <4>1
      <4>3. (result \o sent)[k] = sent[j] BY <1>4, <1>10, <3>2, <4>1
      <4>4. (result \o packet)[k] = packet[j] BY <1>4, <1>10, <3>2, <4>1
      <4>5. k \in 1 .. Len(result \o packet) BY <1>4, <1>10, <3>2
      <4> QED BY <1>4, <4>2, <4>3, <4>4, <4>5 DEF Counting
    <3>3. CASE k = pos + 1
      <4>1. sent[Len(packet) + 1] = pos + 1 BY <1>4, <1>9
      <4>2. k = Len(result) + (Len(packet) + 1) BY <1>4, <1>10, <3>3
      <4>3. (result \o sent)[k] = sent[Len(packet) + 1] BY <1>4, <1>10, <4>2
      <4> QED BY <3>3, <4>1, <4>3
    <3> QED BY <1>4, <1>10, <3>1, <3>2, <3>3
  <2> QED BY <1>10, <2>1 DEF Counting
<1>12. using' = {"result"} /\ wanted' = wanted /\ got' = got /\ rlen' = rlen
  BY <1>2, <1>3 DEF host
<1>13. ResultInv'
  <2>1. pos' \in Nat BY <1>4, <1>8
  <2>2. CASE last \/ in_packet = MPS - 1
    <3>1. ep0' = "RESULT_CLAIM" /\ result' = result \o sent /\ packet' = <<>> BY <1>8, <2>2
    <3>2. result' \o packet' = result' BY <1>10, <3>1
    <3>3. Len(result') = pos + 1 /\ Counting(result') BY <1>10, <1>11, <3>1
    <3>4. Len(result') = wanted' \/ (Len(result') < wanted' /\ pos' = Len(result'))
      BY <1>4, <1>7, <1>8, <1>12, <3>3
    <3>5. Counting(result' \o packet') BY <3>2, <3>3
    <3>6. result' \in Seq(Nat) /\ packet' \in Seq(Nat) BY <1>10, <3>1
    <3> QED BY <1>4, <1>12, <2>1, <3>1, <3>4, <3>5, <3>6 DEF ResultInv
  <2>3. CASE ~(last \/ in_packet = MPS - 1)
    <3>1. ep0' = ep0 /\ result' = result /\ packet' = sent /\ pos' = pos + 1 BY <1>8, <2>3
    <3>2. pos' = Len(result') + Len(packet') /\ pos' < wanted'
      <4>1. pos' = Len(result') + Len(packet')
        <5> DEFINE a == Len(result)  b == Len(packet)
        <5>1. a \in Nat /\ b \in Nat /\ pos = a + b /\ pos' = pos + 1 BY <1>4, <1>10, <3>1
        <5>2. Len(result') = a /\ Len(packet') = b + 1 BY <1>10, <3>1
        <5> HIDE DEF a, b
        <5>3. pos' = a + (b + 1) BY ONLY <5>1
        <5> QED BY <5>2, <5>3
      <4>2. pos + 1 # wanted BY <1>7, <2>3
      <4> QED BY <1>4, <1>12, <3>1, <4>1, <4>2
    <3>3. Counting(result' \o packet') BY <1>11, <3>1
    <3> QED BY <1>2, <1>4, <1>10, <1>12, <2>1, <3>1, <3>2, <3>3 DEF ResultInv
  <2> QED BY <2>2, <2>3
<1>14. UnderWay' /\ ReadsBelong'
  BY <1>1, <1>2 DEF UnderWay, ReadsBelong, br_vars, vs_spi, wire
<1>15. ep0' # "RX" BY <1>2, <1>8
<1>16. SpiInv' BY <1>1, <1>2, <1>5, <1>15 DEF SpiInv, Staged, vs_spi, wire
<1> QED
  BY <1>1, <1>3, <1>12, <1>13, <1>14, <1>16, VendorOnly DEF Registers, Counting, host, wire

LEMMA VendorHostAnswers == ASSUME OwnerInv, AnswersInv, VendorHost PROVE AnswersInv'
<1>1. UNCHANGED <<br_vars, wire>> BY DEF VendorHost
<1>2. Registers /\ UnderWay /\ ReadsBelong /\ SpiInv /\ ResultInv BY DEF AnswersInv
<1>3. UNCHANGED <<br, tx, replies, reads, owners>> BY <1>1 DEF br_vars, wire
<1>4. CASE "vendor" \in using /\ script # <<>> /\ ReceiveOctet /\ script' = Tail(script)
           /\ UNCHANGED <<using, wanted, got, ops>>
  <2>1. using = {"vendor"} BY <1>4 DEF OwnerInv, OneFunction
  <2>2. UNCHANGED <<vs_spi, ep0, rlen, pos, packet, result, using, wanted, got>>
    BY <1>4 DEF ReceiveOctet
  <2>3. script' \in Seq(Nat) BY <1>2, <1>4 DEF Registers
  <2>4. UnderWay' /\ ReadsBelong' BY <1>2, <1>3, <2>2 DEF UnderWay, ReadsBelong, vs_spi
  <2>5. SpiInv' BY <1>2, <1>3, <2>2 DEF SpiInv, Staged, vs_spi
  <2>6. ResultInv' BY <1>2, <2>2 DEF ResultInv, Counting
  <2>7. Len(got) = wanted BY <2>1 DEF AnswersInv
  <2> QED
    BY <1>1, <1>2, <1>3, <2>1, <2>2, <2>3, <2>4, <2>5, <2>6, <2>7, VendorOnly DEF Registers, Counting
<1>5. CASE StatusStarts /\ UNCHANGED host
  <2>1. /\ ep0 = "RX" /\ spi' = "SHIFT_W" /\ ridx' = 0 /\ ep0' = "EXEC_STATUS"
        /\ UNCHANGED <<rmem, rlen, pos, packet, result, using, script, wanted, got>>
    BY <1>5 DEF StatusStarts, host
  <2>2. using = {"vendor"} /\ spi = "IDLE" BY <2>1 DEF OwnerInv, OneFunction, VendorUsed
  <2>3. reads = 0
    BY <1>2, <2>2 DEF OwnerInv, Owns, VendorRests, ReadsBelong
  <2>4. br = "CMD_IDLE" BY <2>2 DEF OwnerInv, BridgeUsed
  <2>5. UnderWay' /\ ReadsBelong' BY <1>2, <1>3, <2>1, <2>2, <2>4 DEF UnderWay, ReadsBelong
  <2>6. SpiInv' BY <1>2, <1>3, <2>1, <2>3 DEF SpiInv
  <2>7. ResultInv' BY <1>2, <2>1, <2>2 DEF ResultInv
  <2>8. Len(got) = wanted BY <2>2 DEF AnswersInv
  <2> QED
    BY <1>1, <1>2, <1>3, <2>1, <2>2, <2>5, <2>6, <2>7, <2>8, VendorOnly DEF Registers, Counting
<1>6. CASE StatusDone /\ End("vendor") /\ UNCHANGED <<script, wanted, got>>
  <2>1. /\ ep0 = "EXEC_STATUS" /\ spi = "IDLE" /\ ep0' = "IDLE"
        /\ UNCHANGED <<vs_spi, rlen, pos, packet, result, script, wanted, got>>
        /\ using = {"vendor"} /\ using' = {}
    BY <1>6 DEF StatusDone, BurstDone, End, OwnerInv, OneFunction
  <2>2. UnderWay' /\ ReadsBelong' BY <1>2, <1>3, <2>1 DEF UnderWay, ReadsBelong, vs_spi
  <2>3. SpiInv' BY <1>2, <1>3, <2>1 DEF SpiInv, Staged, vs_spi
  <2>4. ResultInv' BY <2>1 DEF ResultInv
  <2>5. Len(got) = wanted BY <2>1 DEF AnswersInv
  <2> QED
    BY <1>1, <1>2, <1>3, <2>1, <2>2, <2>3, <2>4, <2>5, VendorOnly DEF Registers, Counting
<1>7. CASE Len(result) < wanted /\ DataRequested /\ UNCHANGED host
  <2>1. /\ ep0 = "RESULT_CLAIM" /\ ep0' = "RESULT_STREAM"
        /\ UNCHANGED <<vs_spi, rlen, pos, packet, result, using, script, wanted, got>>
    BY <1>7 DEF DataRequested, host
  <2>2. "result" \in using /\ using = {"result"} BY <1>2, <2>1 DEF ResultInv, OwnerInv, OneFunction
  <2>3. result \in Seq(Nat) /\ packet = <<>> /\ pos = Len(result) /\ wanted \in Nat
    <3>1. result \in Seq(Nat) /\ packet = <<>> /\ wanted \in Nat
          /\ (Len(result) = wanted \/ pos = Len(result))
      BY <1>2, <2>1, <2>2 DEF ResultInv, Registers
    <3>2. Len(result) # wanted
      <4> DEFINE n == Len(result)
      <4>1. n \in Nat /\ n < wanted BY <1>7, <3>1
      <4> HIDE DEF n
      <4>2. n # wanted BY ONLY <3>1, <4>1
      <4> QED BY <4>2 DEF n
    <3> QED BY <3>1, <3>2
  <2>4. pos = Len(result) + Len(packet) /\ pos < wanted
    <3>1. Len(packet) = 0 /\ Len(result) \in Nat BY <2>3
    <3> QED BY <1>7, <2>3, <3>1
  <2>5. UnderWay' /\ ReadsBelong' BY <1>2, <1>3, <2>1 DEF UnderWay, ReadsBelong, vs_spi
  <2>6. SpiInv' BY <1>2, <1>3, <2>1 DEF SpiInv, Staged, vs_spi
  <2>7. ResultInv' BY <1>2, <2>1, <2>2, <2>4 DEF ResultInv, Counting
  <2> QED
    BY <1>1, <1>2, <1>3, <2>1, <2>2, <2>5, <2>6, <2>7, VendorOnly DEF Registers, Counting
<1>8. CASE StreamOctet(wanted) /\ UNCHANGED host BY <1>1, <1>8, StreamAnswers
<1>9. CASE Len(result) >= wanted /\ ResultStatus /\ End("result") /\ got' = result
           /\ UNCHANGED <<script, wanted>>
  <2>1. /\ ep0 = "RESULT_CLAIM" /\ ep0' = "IDLE" /\ using = {"result"} /\ using' = {}
        /\ UNCHANGED <<vs_spi, rlen, pos, packet, result, script, wanted>> /\ got' = result
    BY <1>9 DEF ResultStatus, End, OwnerInv, OneFunction
  <2>2. /\ result \in Seq(Nat) /\ packet = <<>> /\ Counting(result \o packet) /\ wanted \in Nat
        /\ Len(result) = wanted \/ Len(result) < wanted
    BY <1>2, <2>1 DEF ResultInv, Registers
  <2>3. Len(got') = wanted'
    <3> DEFINE n == Len(result)
    <3>1. n \in Nat /\ n >= wanted /\ (n = wanted \/ n < wanted) /\ wanted \in Nat BY <1>9, <2>2
    <3> HIDE DEF n
    <3>2. n = wanted BY ONLY <3>1
    <3> QED BY <2>1, <3>2 DEF n
  <2>4. result \o packet = result BY <2>2
  <2>5. got' \in Seq(Nat) /\ Counting(got') BY <2>1, <2>2, <2>4
  <2>6. tx = <<>> BY <2>1 DEF AnswersInv, BridgeInv
  <2>7. UnderWay' /\ ReadsBelong' BY <1>2, <1>3, <2>1 DEF UnderWay, ReadsBelong, vs_spi
  <2>8. SpiInv' BY <1>2, <1>3, <2>1 DEF SpiInv, Staged, vs_spi
  <2>9. ResultInv' BY <2>1 DEF ResultInv
  <2> QED
    BY <1>1, <1>2, <1>3, <2>1, <2>2, <2>3, <2>5, <2>6, <2>7, <2>8, <2>9, VendorOnly DEF Registers
<1> QED BY <1>4, <1>5, <1>6, <1>7, <1>8, <1>9 DEF VendorHost

LEMMA StartVendorAnswers ==
  ASSUME CommandsFit, OwnerInv, AnswersInv, using = {}, StartVendor
  PROVE  AnswersInv'
<1>1. UNCHANGED <<br_vars, wire>> BY DEF StartVendor
<1>2. Registers /\ UnderWay /\ ReadsBelong /\ SpiInv /\ ResultInv /\ Len(got) = wanted
  BY DEF AnswersInv
<1>3. UNCHANGED <<br, tx, replies, reads, owners>> BY <1>1 DEF br_vars, wire
<1>4. spi = "IDLE" /\ tx = <<>> BY DEF OwnerInv, VendorUsed, AnswersInv, BridgeInv
<1>5. CASE /\ Start("vendor")
           /\ \E e \in Execs : Exec(e[2]) /\ script' = [k \in 1 .. e[1] |-> 0]
           /\ UNCHANGED <<wanted, got>>
  <2>1. PICK e \in Execs : Exec(e[2]) /\ script' = [k \in 1 .. e[1] |-> 0] BY <1>5
  <2>2. /\ using' = {"vendor"} /\ rlen' = e[2] /\ ep0 = "IDLE" /\ ep0' = "RX"
        /\ UNCHANGED <<vs_spi, pos, packet, result, wanted, got>>
    BY <1>5, <2>1 DEF Exec, Start
  <2>3. e[1] \in Nat /\ e[2] \in 0 .. RBUF BY DEF CommandsFit
  <2>4. script' \in Seq(Nat) BY <2>1, <2>3
  <2>5. UnderWay' /\ ReadsBelong' BY <1>2, <1>3, <2>2 DEF UnderWay, ReadsBelong, vs_spi
  <2>6. SpiInv' BY <1>2, <1>3, <1>4, <2>2, <2>3 DEF SpiInv, vs_spi
  <2>7. ResultInv' BY <2>2 DEF ResultInv
  <2> QED
    BY <1>1, <1>2, <1>3, <2>2, <2>4, <2>5, <2>6, <2>7, VendorOnly DEF Registers, Counting
<1>6. CASE /\ Start("result") /\ rlen # 0
           /\ Result
           /\ wanted' = rlen /\ got' = <<>> /\ UNCHANGED script
  <2>1. /\ using' = {"result"} /\ ep0 = "IDLE" /\ ep0' = "RESULT_CLAIM" /\ rlen # 0
        /\ pos' = 0 /\ result' = <<>> /\ packet' = <<>> /\ wanted' = rlen /\ got' = <<>>
        /\ UNCHANGED <<vs_spi, rlen, script>>
    BY <1>6 DEF Result, Start
  <2>2. rlen \in Nat /\ rlen > 0 BY <1>2, <2>1, StagingAssumption DEF SpiInv
  <2>3. UnderWay' /\ ReadsBelong' BY <1>2, <1>3, <2>1 DEF UnderWay, ReadsBelong, vs_spi
  <2>4. SpiInv' BY <1>2, <1>3, <1>4, <2>1 DEF SpiInv, Staged, vs_spi
  <2>5. ResultInv' BY <2>1, <2>2 DEF ResultInv, Counting
  <2>6. got' \in Seq(Nat) /\ Counting(got') BY <2>1 DEF Counting
  <2> QED
    BY <1>1, <1>2, <1>3, <1>4, <2>1, <2>2, <2>3, <2>4, <2>5, <2>6, VendorOnly DEF Registers
<1> QED BY <1>5, <1>6 DEF StartVendor

\* An upload has nothing to do with what is read.
LEMMA UploadAnswers ==
  ASSUME AnswersInv, UNCHANGED <<br_vars, vs_vars, wire, script, wanted, got>>,
         using \cap {"bridge", "result"} = {}, using' \cap {"bridge", "result"} = {}
  PROVE  AnswersInv'
<1> USE DEF br_vars, vs_vars, vs_spi, vs_ep0, wire, AnswersInv
<1>1. Registers' BY DEF Registers, Counting
<1>2. UnderWay' /\ ReadsBelong' BY DEF UnderWay, ReadsBelong
<1>3. BridgeInv' BY DEF BridgeInv
<1>4. SpiInv' BY DEF SpiInv, Staged
<1>5. ResultInv' BY DEF ResultInv
<1> QED BY <1>1, <1>2, <1>3, <1>4, <1>5

LEMMA AnswersStep ==
  ASSUME CommandsFit, OwnerInv, AnswersInv, [Next]_vars
  PROVE  AnswersInv'
<1>1. CASE Arbitrate
  BY <1>1, AnswersKept DEF Arbitrate, Answers, wire, host
<1>2. CASE FlashStep BY <1>2, FlashAnswers
<1>3. CASE DeviceStep
  BY <1>3, AnswersKept DEF DeviceStep, Answers, wire, host
<1>4. CASE BridgeStep BY <1>4, BridgeAnswers
<1>5. CASE VendorStep BY <1>5, VendorAnswers
<1>6. CASE HostGoesOn
  <2>1. CASE EndUpload
    <3>1. using = {"upload"} /\ using' = {} BY <2>1 DEF EndUpload, End, OwnerInv, OneFunction
    <3> QED BY <2>1, <3>1, UploadAnswers DEF EndUpload
  <2>2. CASE \E i \in Writer : Offer(i)
    BY <2>2, AnswersKept DEF Offer, Answers, wire, host
  <2> QED
    BY <1>6, <2>1, <2>2, FeedAnswers, CollectAnswers, EndBridgeAnswers, VendorHostAnswers
       DEF HostGoesOn
<1>7. CASE using = {} /\ HostStarts
  <2>1. CASE StartUpload
    <3>1. using' = {"upload"} BY <1>7, <2>1 DEF StartUpload, Start
    <3> QED BY <1>7, <2>1, <3>1, UploadAnswers DEF StartUpload
  <2> QED BY <1>7, <2>1, StartBridgeAnswers, StartVendorAnswers DEF HostStarts
<1>8. CASE UNCHANGED vars
  BY <1>8, AnswersKept DEF vars, Answers, wire, host
<1> QED BY <1>1, <1>2, <1>3, <1>4, <1>5, <1>6, <1>7, <1>8 DEF Next, Device

\* The octets the host gets from either bridge are those its own operation read,
\* in order, none lost and none twice, for every packet size, staging depth and
\* host that keeps to the protocol: whatever it paused between them.
THEOREM AnswersToOwner == ASSUME CommandsFit PROVE Spec => []AnswersOwn
<1>1. OwnerInv /\ AnswersInv /\ [Next]_vars => AnswersInv' BY AnswersStep
<1>2. OwnerInv /\ AnswersInv => AnswersOwn
  BY DEF AnswersInv, Registers, Counting, AnswersOwn
<1>3. OwnerInv /\ [Next]_vars => OwnerInv' BY OwnerStep
<1>4. Init => OwnerInv /\ AnswersInv BY OwnerInit, AnswersInit
<1> QED BY <1>1, <1>2, <1>3, <1>4, PTL DEF Spec


-----------------------------------------------------------------------------
(* What is in the flash. While an upload is on, its writer with the Arbiter in
   front keeps FlashUpload's contract, and what FlashStoreProofs says of the
   array holds of it. The device is between frames when the upload begins, and
   what the bridges do with it otherwise changes nothing of the array. *)

\* A command of the serial bridge does not write to the flash by itself.
WriteOpcodes == {Flash!PAGE_PROGRAM, Flash!BLOCK_ERASE}

CommandsHarmless ==
  \A t \in Transactions : t[1] = 1 /\ Len(t) > 5 => t[6] \notin WriteOpcodes

Count   == offered[0] + offered[1]
Waiting == waiting[0] \/ waiting[1]

Number(a) == (a.blk * Pages + a.pg) * PageSize + a.off

NoOctet   == CHOOSE n : n \notin Byte
Octets(a) == Byte

UpW     == [valid |-> Waiting, addr |-> FlashAddr(Count - 1), data |-> Image[Count]]
UpFlush == flushes[0] \/ flushes[1]
UpSent  == {a \in Flash!Addr : Number(a) < Count}
UpImage == [a \in Flash!Addr |-> IF a \in UpSent THEN Image[Number(a) + 1] ELSE Flash!Erased]

Upload == INSTANCE FlashStoreProofs
            WITH w <- UpW, flush <- UpFlush, image <- UpImage, sent <- UpSent,
                 Payload <- Octets, session <- ops, resets <- ops, MaxBytes <- 0,
                 MaxSessions <- MaxOps, MaxResets <- 0, None <- NoOctet

Going ==
  /\ Upload!ProtocolInv /\ Upload!StoreInv
  /\ Count \in 1 .. Len(Image)
  /\ ~Waiting => addr_latch = FlashAddr(Count - 1)
  /\ UpFlush => Count = Len(Image)

UploadGoes == "upload" \in using => Going

\* The states of the bridges in which a frame may be open.
BridgeShifts == br \in {"DO_OUT", "DO_IN_REQ", "DO_IN_RESP", "RELEASE"} \/ spi # "IDLE"

FlashApart ==
  "upload" \notin using =>
    /\ Upload!FsmTypeOK /\ qi = <<>> /\ ~block_valid
    /\ mem \in [Flash!Addr -> Byte] /\ wel \in BOOLEAN /\ wip = FALSE
    /\ frame \in Seq(Nat)
    /\ ~BridgeShifts => frame = <<>> /\ buf = Flash!EmptyBuf /\ col \in 0 .. PageSize - 1
    /\ frame # <<>> => frame[1] \notin WriteOpcodes

\* The sixth octet of a command opens its frame.
OpcodeHarmless ==
  "bridge" \in using =>
    /\ br = "CMD_IDLE" /\ Left # <<>> /\ Left[1] = 1 /\ Len(Left) > 5 => Left[6] \notin WriteOpcodes
    /\ br = "WLEN_LO" /\ Len(Left) > 4 => Left[5] \notin WriteOpcodes
    /\ br = "WLEN_HI" /\ Len(Left) > 3 => Left[4] \notin WriteOpcodes
    /\ br = "RLEN_LO" /\ Len(Left) > 2 => Left[3] \notin WriteOpcodes
    /\ br = "RLEN_HI" /\ Len(Left) > 1 => Left[2] \notin WriteOpcodes
    /\ br = "DO_OUT" /\ frame = <<>> => Left[1] \notin WriteOpcodes

WholeInv == UploadGoes /\ FlashApart /\ OpcodeHarmless /\ UploadWhole

\* What FlashStoreProofs assumes holds of this writer.
LEMMA Given ==
  /\ NoOctet \notin Byte /\ \A a \in Upload!Addr : Octets(a) \subseteq Byte
  /\ Blocks \in Nat \ {0} /\ Pages \in Nat \ {0} /\ PageSize \in Nat \ {0}
  /\ Byte \subseteq Nat
  /\ {Upload!Erased, Upload!WRITE_ENABLE, Upload!READ_STATUS, Upload!PAGE_PROGRAM,
      Upload!BLOCK_ERASE} \subseteq Byte
  /\ 0 .. Blocks - 1 \subseteq Byte /\ 0 .. Pages - 1 \subseteq Byte /\ 0 .. PageSize - 1 \subseteq Byte
  /\ \A x, y \in Byte : /\ BitAnd(x, y) \in Byte
                        /\ BitAnd(Upload!Erased, x) = x /\ BitAnd(x, Upload!Erased) = x
  /\ Contents \subseteq [Upload!Addr -> Byte]
  /\ MaxOps \in Nat /\ 0 \in Nat
<1>1. NoOctet \notin Byte
  <2>1. \E n : n \notin Byte BY NoSetContainsEverything
  <2> QED BY <2>1 DEF NoOctet
<1>2. \A a \in Upload!Addr : Octets(a) \subseteq Byte BY DEF Octets
<1>3. Contents \subseteq [Upload!Addr -> Byte]
  BY FlashAssumption DEF Flash!Addr, Upload!Addr
<1>4. Blocks \in Nat \ {0} /\ Pages \in Nat \ {0} /\ PageSize \in Nat \ {0}
  BY FlashAssumption DEF Flash!GeometryAssumption
<1> USE DEF Flash!Erased, Flash!WRITE_ENABLE, Flash!READ_STATUS, Flash!PAGE_PROGRAM,
            Flash!BLOCK_ERASE, Upload!Erased, Upload!WRITE_ENABLE, Upload!READ_STATUS,
            Upload!PAGE_PROGRAM, Upload!BLOCK_ERASE
<1>5. /\ Byte \subseteq Nat
      /\ {Upload!Erased, Upload!WRITE_ENABLE, Upload!READ_STATUS, Upload!PAGE_PROGRAM,
          Upload!BLOCK_ERASE} \subseteq Byte
      /\ 0 .. Blocks - 1 \subseteq Byte /\ 0 .. Pages - 1 \subseteq Byte
      /\ 0 .. PageSize - 1 \subseteq Byte
  BY FlashAssumption DEF Flash!ByteAssumption
<1>6. \A x, y \in Byte : /\ BitAnd(x, y) \in Byte
                         /\ BitAnd(Upload!Erased, x) = x /\ BitAnd(x, Upload!Erased) = x
  BY FlashAssumption DEF Flash!AndAssumption
<1> QED BY <1>1, <1>2, <1>3, <1>4, <1>5, <1>6, FlashAssumption

LEMMA UploadStores ==
  ASSUME Upload!ProtocolInv, Upload!StoreInv, [Upload!Next]_(Upload!core)
  PROVE  Upload!ProtocolInv' /\ Upload!StoreInv'
<1>1. Upload!StoreInv /\ Upload!ProtocolInv /\ [Upload!Next]_(Upload!core) => Upload!StoreInv'
  BY Given, Upload!StoreStep
<1>2. Upload!ProtocolInv /\ [Upload!Next]_(Upload!core) => Upload!ProtocolInv'
  BY Given, Upload!ProtocolStep
<1> QED BY <1>1, <1>2

LEMMA UploadFlushes ==
  ASSUME Upload!ProtocolInv, Upload!StoreInv, Upload!Flushed
  PROVE  /\ ~wip
         /\ \A a \in Flash!Addr : (\E s \in UpSent : s.blk = a.blk) => mem[a] = UpImage[a]
BY Given, Upload!FlushStores DEF Flash!Addr, Upload!Addr

LEMMA AddressNumbered ==
  ASSUME NEW a \in Flash!Addr
  PROVE  Number(a) \in 0 .. Upload!Capacity - 1 /\ FlashAddr(Number(a)) = a
<1>1. a \in Upload!Addr BY DEF Flash!Addr, Upload!Addr
<1>2. /\ Upload!Cell(Upload!Number(a)) = a
      /\ Upload!Number(a) \in 0 .. Upload!Capacity - 1
  BY <1>1, Given, Upload!CellOfNumber
<1> QED
  BY <1>2 DEF Upload!Number, Number, Upload!Cell, FlashAddr

LEMMA NumberAddressed ==
  ASSUME NEW n \in 0 .. Upload!Capacity - 1
  PROVE  FlashAddr(n) \in Flash!Addr /\ Number(FlashAddr(n)) = n
<1>2. Upload!Cell(n) \in Upload!Addr /\ Upload!Number(Upload!Cell(n)) = n
  BY Given, Upload!NumberOfCell
<1>3. Upload!Cell(n) = FlashAddr(n) BY DEF Upload!Cell, FlashAddr
<1>4. Upload!Number(FlashAddr(n)) = Number(FlashAddr(n)) BY DEF Upload!Number, Number
<1> QED BY <1>2, <1>3, <1>4 DEF Flash!Addr, Upload!Addr

LEMMA CountedFollows ==
  ASSUME NEW last \in Flash!Addr, NEW a \in Flash!Addr, Number(a) = Number(last) + 1,
         \A s \in UpSent : Number(s) <= Number(last)
  PROVE  Upload!MayFollow(last, a)
<1>1. last \in Upload!Addr /\ a \in Upload!Addr /\ \A s \in UpSent : s \in Upload!Addr
  BY DEF Flash!Addr, Upload!Addr, UpSent
<1>2. \A s : Upload!Number(s) = Number(s) BY DEF Upload!Number, Number
<1> QED BY <1>1, <1>2, Given, Upload!SequentialFollows

\* The Arbiter in front of the two writers, of which one has something to say.
LEMMA PortView ==
  ASSUME WritersInTurn
  PROVE  /\ Count \in Nat
         /\ Waiting => PortW = UpW /\ Granted \in Writer /\ waiting[Granted]
         /\ \A i \in Writer : waiting[i] => Granted = i
         /\ ~Waiting => /\ ~PortW.valid
                        /\ Granted # None /\ flushes[Granted % 2] <=> UpFlush
<1>1. /\ offered[0] \in Nat /\ offered[1] \in Nat /\ waiting[0] \in BOOLEAN /\ waiting[1] \in BOOLEAN
      /\ flushes[0] \in BOOLEAN /\ flushes[1] \in BOOLEAN
      /\ offered[0] = 0 \/ offered[1] = 0
      /\ waiting[0] \/ flushes[0] => offered[0] # 0
      /\ waiting[1] \/ flushes[1] => offered[1] # 0
      /\ flushes[0] => ~waiting[0]
      /\ flushes[1] => ~waiting[1]
  BY DEF WritersInTurn, Writer
<1>2. CASE waiting[0]
  <2>1. Granted = 0 /\ Granted % 2 = 0 /\ Granted # None
    BY <1>2 DEF Granted, WriterActive, None
  <2>2. Count = offered[0] /\ ~waiting[1] /\ Waiting BY <1>1, <1>2 DEF Count, Waiting
  <2>3. PortW = UpW BY <1>2, <2>1, <2>2 DEF PortW, UpW
  <2> QED BY <1>1, <1>2, <2>1, <2>2, <2>3 DEF Writer
<1>3. CASE waiting[1]
  <2>1. ~waiting[0] /\ ~flushes[0] BY <1>1, <1>3
  <2>2. Granted = 1 /\ Granted % 2 = 1 /\ Granted # None
    BY <1>3, <2>1 DEF Granted, WriterActive, None
  <2>3. Count = offered[1] /\ Waiting BY <1>1, <1>3 DEF Count, Waiting
  <2>4. PortW = UpW BY <1>3, <2>2, <2>3 DEF PortW, UpW
  <2> QED BY <1>1, <1>3, <2>1, <2>2, <2>3, <2>4 DEF Writer
<1>4. CASE ~waiting[0] /\ ~waiting[1]
  <2>1. ~Waiting /\ Count \in Nat BY <1>1, <1>4 DEF Waiting, Count
  <2>2. Granted = IF flushes[0] THEN 0 ELSE IF flushes[1] THEN 1 ELSE None
    BY <1>4 DEF Granted, WriterActive
  <2>3. ~PortW.valid BY <1>4, <2>2 DEF PortW, None
  <2>4. Granted # None /\ flushes[Granted % 2] <=> UpFlush BY <1>1, <2>2 DEF None, UpFlush
  <2> QED BY <1>4, <2>1, <2>3, <2>4 DEF Writer
<1> QED BY <1>2, <1>3, <1>4

\* The FSM's actions are the same formulas on the port and on the writer's view of it.
LEMMA UploadTakes ==
  ASSUME PortW = UpW, Flash!TakesByte
  PROVE  Upload!TakesByte /\ addr_latch' = UpW.addr
BY DEF Flash!TakesByte, Flash!Idle, Flash!WriteNextByte, Flash!Accept, Flash!device, Flash!PageOf,
       Upload!TakesByte, Upload!Idle, Upload!WriteNextByte, Upload!Accept, Upload!device,
       Upload!PageOf

LEMMA UploadShifts == ASSUME NEW b PROVE Flash!ShiftIn(b) <=> Upload!ShiftIn(b)
BY DEF Flash!ShiftIn, Upload!ShiftIn

LEMMA UploadRises == Flash!ChipSelectRise <=> Upload!ChipSelectRise
BY DEF Upload!ChipSelectRise, Flash!ChipSelectRise, Flash!Erases, Flash!Programs, Upload!Erases,
       Upload!Programs, Flash!HasAddress, Upload!HasAddress, Flash!Command, Upload!Command,
       Flash!FrameBlock, Upload!FrameBlock, Flash!FramePage, Upload!FramePage, Flash!Programmed,
       Upload!Programmed, Flash!EmptyBuf, Upload!EmptyBuf, Flash!Addr, Upload!Addr, Flash!Erased,
       Upload!Erased, Flash!PAGE_PROGRAM, Upload!PAGE_PROGRAM, Flash!BLOCK_ERASE,
       Upload!BLOCK_ERASE, Flash!WRITE_ENABLE, Upload!WRITE_ENABLE

LEMMA UploadWorks ==
  ASSUME WritersInTurn, Flash!WorksAlone
  PROVE  Upload!WorksAlone /\ addr_latch' = addr_latch
<1> USE UploadRises
    DEF Flash!device, Upload!device, Flash!regs, Upload!regs, Flash!PageOf, Upload!PageOf
<1>1. CASE Flash!Wren
  BY <1>1, UploadShifts DEF Flash!Wren, Upload!Wren, Flash!WRITE_ENABLE, Upload!WRITE_ENABLE,
     Upload!WorksAlone
<1>2. CASE Flash!WrenRelease
  BY <1>2 DEF Flash!WrenRelease, Upload!WrenRelease, Upload!WorksAlone
<1>3. CASE Flash!EraseCmd
  BY <1>3, UploadShifts DEF Flash!EraseCmd, Upload!EraseCmd, Flash!SendOpcode, Upload!SendOpcode,
     Flash!BLOCK_ERASE, Upload!BLOCK_ERASE, Upload!WorksAlone
<1>4. CASE Flash!EraseAddr
  BY <1>4, UploadShifts DEF Flash!EraseAddr, Upload!EraseAddr, Upload!WorksAlone
<1>5. CASE Flash!EraseRelease
  BY <1>5 DEF Flash!EraseRelease, Upload!EraseRelease, Upload!WorksAlone
<1>6. CASE Flash!WriteCmd
  BY <1>6, UploadShifts DEF Flash!WriteCmd, Upload!WriteCmd, Flash!SendOpcode, Upload!SendOpcode,
     Flash!PAGE_PROGRAM, Upload!PAGE_PROGRAM, Upload!WorksAlone
<1>7. CASE Flash!WriteAddr
  BY <1>7, UploadShifts DEF Flash!WriteAddr, Upload!WriteAddr, Upload!WorksAlone
<1>8. CASE Flash!WriteData
  BY <1>8, UploadShifts DEF Flash!WriteData, Upload!WriteData, Upload!WorksAlone
<1>9. CASE Flash!WriteNextFlush
  <2>1. UpFlush /\ ~UpW.valid BY <1>9, PortView DEF Flash!WriteNextFlush, UpW
  <2> QED BY <1>9, <2>1 DEF Flash!WriteNextFlush, Upload!WriteNextFlush, Upload!WorksAlone
<1>10. CASE Flash!WriteRelease
  BY <1>10 DEF Flash!WriteRelease, Upload!WriteRelease, Upload!WorksAlone
<1>11. CASE Flash!PollCmd
  BY <1>11, UploadShifts DEF Flash!PollCmd, Upload!PollCmd, Flash!READ_STATUS, Upload!READ_STATUS,
     Upload!WorksAlone
<1>12. CASE Flash!PollRead BY <1>12 DEF Flash!PollRead, Upload!PollRead, Upload!WorksAlone
<1>13. CASE Flash!PollCapture
  BY <1>13 DEF Flash!PollCapture, Upload!PollCapture, Upload!WorksAlone
<1>14. CASE Flash!PollRelease
  BY <1>14 DEF Flash!PollRelease, Upload!PollRelease, Upload!WorksAlone
<1> QED BY <1>1, <1>2, <1>3, <1>4, <1>5, <1>6, <1>7, <1>8, <1>9, <1>10, <1>11, <1>12, <1>13, <1>14
        DEF Flash!WorksAlone

-----------------------------------------------------------------------------
(* The bridges on the bus: no frame of theirs writes. *)

LEMMA StillApart ==
  ASSUME FlashApart, "upload" \notin using, UNCHANGED flash,
         BridgeShifts => BridgeShifts'
  PROVE  FlashApart'
BY DEF FlashApart, flash, fsm, Upload!FsmTypeOK

\* The registers of the FSM rest while the octets are the bridges'.
LEMMA ShiftApart ==
  ASSUME FlashApart, "upload" \notin using, UNCHANGED fsm, NEW b \in Nat, Flash!ShiftIn(b),
         frame = <<>> => b \notin WriteOpcodes, BridgeShifts'
  PROVE  FlashApart' /\ frame' # <<>> /\ mem' = mem
<1>1. frame \in Seq(Nat) /\ (frame # <<>> => frame[1] \notin WriteOpcodes) BY DEF FlashApart
<1>2. UNCHANGED <<mem, wel, wip>> BY DEF Flash!ShiftIn
<1>3. frame' \in Seq(Nat) /\ frame' # <<>> /\ frame'[1] \notin WriteOpcodes
  <2>1. CASE Len(frame) < 4
    <3>1. frame' = Append(frame, b) BY <2>1 DEF Flash!ShiftIn
    <3>2. frame' \in Seq(Nat) /\ frame' # <<>> BY <1>1, <3>1
    <3>3. CASE frame = <<>> BY <3>1, <3>3
    <3>4. CASE frame # <<>>
      <4>1. frame'[1] = frame[1] BY <1>1, <3>1, <3>4
      <4> QED BY <1>1, <3>2, <3>4, <4>1
    <3> QED BY <3>2, <3>3, <3>4
  <2>2. CASE ~(Len(frame) < 4)
    <3>1. frame' = frame /\ frame # <<>> BY <2>2 DEF Flash!ShiftIn
    <3> QED BY <1>1, <3>1
  <2> QED BY <2>1, <2>2
<1> QED BY <1>2, <1>3 DEF FlashApart, fsm, Upload!FsmTypeOK

LEMMA RiseApart ==
  ASSUME FlashApart, "upload" \notin using, UNCHANGED fsm, Flash!ChipSelectRise
  PROVE  FlashApart' /\ frame' = <<>> /\ mem' = mem
<1>1. ~Flash!Erases /\ ~Flash!Programs
  BY DEF FlashApart, WriteOpcodes, Flash!Erases, Flash!Programs, Flash!Command
<1>2. mem' = mem /\ frame' = <<>> /\ buf' = Flash!EmptyBuf /\ col' = 0 /\ wip' = wip
  BY <1>1 DEF Flash!ChipSelectRise, FlashApart
<1>3. wel' \in BOOLEAN
  <2>1. wel' = (wel \/ Flash!Command(Flash!WRITE_ENABLE)) BY <1>1 DEF Flash!ChipSelectRise
  <2> QED BY <2>1
<1>4. col' \in 0 .. PageSize - 1 /\ frame' \in Seq(Nat) BY <1>2, Given
<1> QED BY <1>2, <1>3, <1>4 DEF FlashApart, fsm, Upload!FsmTypeOK

LEMMA WholeSame ==
  ASSUME UploadWhole, "upload" \notin using, "upload" \notin using', mem' = mem, flushes' = flushes
  PROVE  UploadWhole'
BY DEF UploadWhole

\* The octets of a command move on to the frame.
LEMMA TakesHarmless ==
  ASSUME OwnerInv, AnswersInv, WholeInv, using = {"bridge"}, BrTakes,
         UNCHANGED <<wire, flash, host>>
  PROVE  OpcodeHarmless' /\ ~BridgeShifts
<1>1. Registers /\ AtCommand /\ AtLengths /\ OpcodeHarmless
  BY DEF AnswersInv, BridgeInv, WholeInv
<1>2. rx # <<>> /\ rx' = Tail(rx) /\ script' = script /\ frame' = frame
  BY DEF BrTakes, BrCommand, BrLengthLo, BrWlenHi, BrRlenHi, Takes, host, flash
<1> DEFINE n == Len(Left)  m == Len(Left)'
<1>3. /\ n \in Nat /\ n > 0 /\ Head(rx) = Left[1] /\ m = n - 1
      /\ n > 1 => Left'[1] = Left[2]
      /\ n > 2 => Left'[2] = Left[3]
      /\ n > 3 => Left'[3] = Left[4]
      /\ n > 4 => Left'[4] = Left[5]
      /\ n > 5 => Left'[5] = Left[6]
  BY <1>1, <1>2, LeftTaken
<1>4. using' = using /\ "bridge" \in using BY DEF host
<1>5. spi = "IDLE" BY DEF OwnerInv, VendorUsed
<1>6. CASE BrCommand
  <2>1. br = "CMD_IDLE" /\ br' = IF Left[1] = 1 THEN "WLEN_LO" ELSE "CMD_IDLE"
    BY <1>3, <1>6 DEF BrCommand, Takes
  <2>2. Left # <<>> BY <1>3
  <2>3. CASE Left[1] = 1
    <3>1. n > 5 => Left[6] \notin WriteOpcodes
      BY <1>1, <1>4, <2>1, <2>2, <2>3 DEF OpcodeHarmless
    <3> HIDE DEF n, m
    <3>2. m > 4 => Left'[5] \notin WriteOpcodes BY <1>3, <3>1
    <3> QED BY <1>5, <2>1, <2>3, <3>2 DEF OpcodeHarmless, BridgeShifts, m
  <2>4. CASE Left[1] # 1
    <3>1. Len(Left) = 1 BY <1>1, <2>1, <2>2, <2>4 DEF AtCommand
    <3>2. Left' = <<>> BY <1>3, <3>1
    <3> QED BY <1>5, <2>1, <2>4, <3>2 DEF OpcodeHarmless, BridgeShifts
  <2> QED BY <2>3, <2>4
<1>7. CASE BrLengthLo
  <2>1. (br = "WLEN_LO" /\ br' = "WLEN_HI") \/ (br = "RLEN_LO" /\ br' = "RLEN_HI")
    BY <1>7 DEF BrLengthLo, Takes
  <2>2. /\ br = "WLEN_LO" /\ n > 4 => Left[5] \notin WriteOpcodes
        /\ br = "RLEN_LO" /\ n > 2 => Left[3] \notin WriteOpcodes
    BY <1>1, <1>4 DEF OpcodeHarmless
  <2>3. /\ br = "WLEN_LO" /\ m > 3 => Left'[4] \notin WriteOpcodes
        /\ br = "RLEN_LO" /\ m > 1 => Left'[2] \notin WriteOpcodes
    <3> HIDE DEF n, m
    <3> QED BY <1>3, <2>2
  <2> QED BY <1>5, <2>1, <2>3 DEF OpcodeHarmless, BridgeShifts
<1>8. CASE BrWlenHi
  <2>1. br = "WLEN_HI" /\ br' = "RLEN_LO" BY <1>8 DEF BrWlenHi, Takes
  <2>2. n > 3 => Left[4] \notin WriteOpcodes BY <1>1, <1>4, <2>1 DEF OpcodeHarmless
  <2>3. m > 2 => Left'[3] \notin WriteOpcodes
    <3> HIDE DEF n, m
    <3> QED BY <1>3, <2>2
  <2> QED BY <1>5, <2>1, <2>3 DEF OpcodeHarmless, BridgeShifts
<1>9. CASE BrRlenHi
  <2>1. /\ br = "RLEN_HI" /\ br' \in {"DO_OUT", "DO_IN_REQ", "RELEASE"}
        /\ br' = "DO_OUT" => out_cnt # 0
    BY <1>9 DEF BrRlenHi, Takes
  <2>2. br' = "DO_OUT" => n > 1
    <3>1. n = 1 + out_cnt /\ out_cnt \in Nat BY <1>1, <2>1 DEF AtLengths, Registers
    <3> HIDE DEF n
    <3> QED BY <2>1, <3>1
  <2>3. n > 1 => Left[2] \notin WriteOpcodes BY <1>1, <1>4, <2>1 DEF OpcodeHarmless
  <2>4. br' = "DO_OUT" => Left'[1] \notin WriteOpcodes
    <3> HIDE DEF n
    <3> QED BY <1>3, <2>2, <2>3
  <2> QED BY <1>5, <2>1, <2>4 DEF OpcodeHarmless, BridgeShifts
<1> QED BY <1>6, <1>7, <1>8, <1>9 DEF BrTakes

LEMMA BridgeApart ==
  ASSUME OwnerInv, AnswersInv, WholeInv, BridgeStep
  PROVE  WholeInv'
<1>1. using = {"bridge"} BY DEF BridgeStep, OwnerInv, OneFunction, BridgeUsed, BrTakes, BrCommand,
     BrLengthLo, BrWlenHi, BrRlenHi, BrOut, BrInReq, BrInResp, BrRelease, Takes
<1>2. "upload" \notin using /\ FlashApart /\ UploadWhole /\ OpcodeHarmless
  BY <1>1 DEF WholeInv
<1>3. UNCHANGED <<host, flushes, using, script>> BY DEF BridgeStep, writers, host
<1>4. UploadGoes' BY <1>2, <1>3 DEF UploadGoes
<1>5. CASE BrTakes /\ UNCHANGED <<wire, flash>>
  <2>1. OpcodeHarmless' /\ ~BridgeShifts BY <1>1, <1>3, <1>5, TakesHarmless
  <2>2. UploadWhole' BY <1>2, <1>3, <1>5, WholeSame DEF flash
  <2>3. FlashApart' BY <1>2, <1>5, <2>1, StillApart
  <2> QED BY <1>4, <2>1, <2>2, <2>3 DEF WholeInv
<1>6. CASE BrOut /\ Octet(1, Head(rx))
  <2>1. /\ br = "DO_OUT" /\ br' \in {"DO_OUT", "DO_IN_REQ", "RELEASE"} /\ rx # <<>>
        /\ Flash!ShiftIn(Head(rx)) /\ UNCHANGED fsm
    BY <1>6 DEF BrOut, Takes, AfterOut, Octet
  <2>2. Head(rx) = Left[1] /\ Head(rx) \in Nat
    <3>1. Registers /\ rx' = Tail(rx) /\ script' = script
      BY <1>3, <1>6 DEF AnswersInv, BrOut, Takes
    <3> QED BY <2>1, <3>1, LeftTaken
  <2>3. frame = <<>> => Head(rx) \notin WriteOpcodes
    BY <1>1, <1>2, <2>1, <2>2 DEF OpcodeHarmless
  <2>4. BridgeShifts' BY <2>1 DEF BridgeShifts
  <2>5. FlashApart' /\ frame' # <<>> /\ mem' = mem BY <1>2, <2>1, <2>2, <2>3, <2>4, ShiftApart
  <2>6. OpcodeHarmless' BY <2>1, <2>5 DEF OpcodeHarmless
  <2>7. UploadWhole' BY <1>2, <1>3, <2>5, WholeSame
  <2> QED BY <1>4, <2>5, <2>6, <2>7 DEF WholeInv
<1>7. CASE BrInReq /\ Read(1)
  <2>1. br' = "DO_IN_RESP" /\ Flash!ShiftIn(0) /\ UNCHANGED fsm BY <1>7 DEF BrInReq, Read
  <2>2. 0 \notin WriteOpcodes BY DEF WriteOpcodes, Flash!PAGE_PROGRAM, Flash!BLOCK_ERASE
  <2>3. BridgeShifts' BY <2>1 DEF BridgeShifts
  <2>4. FlashApart' /\ mem' = mem BY <1>2, <2>1, <2>2, <2>3, ShiftApart
  <2>5. OpcodeHarmless' BY <2>1 DEF OpcodeHarmless
  <2>6. UploadWhole' BY <1>2, <1>3, <2>4, WholeSame
  <2> QED BY <1>4, <2>4, <2>5, <2>6 DEF WholeInv
<1>8. CASE BrInResp(Head(replies)) /\ Reply
  <2>1. br' \in {"RELEASE", "DO_IN_REQ"} /\ UNCHANGED flash BY <1>8 DEF BrInResp, Reply
  <2>2. UploadWhole' BY <1>2, <1>3, <2>1, WholeSame DEF flash
  <2>3. FlashApart' BY <1>2, <2>1, StillApart DEF BridgeShifts
  <2>4. OpcodeHarmless' BY <2>1 DEF OpcodeHarmless
  <2> QED BY <1>4, <2>2, <2>3, <2>4 DEF WholeInv
<1>9. CASE BrRelease /\ Rise
  <2>1. br = "RELEASE" /\ br' = "CMD_IDLE" /\ rx' = rx /\ Flash!ChipSelectRise /\ UNCHANGED fsm
    BY <1>9 DEF BrRelease, Rise
  <2>2. FlashApart' /\ mem' = mem BY <1>2, <2>1, RiseApart
  <2>3. Left' = <<>>
    <3>1. Left = <<>> BY <1>1, <2>1 DEF AnswersInv, BridgeInv, InTransfer
    <3> QED BY <1>3, <2>1, <3>1 DEF Left
  <2>4. OpcodeHarmless' BY <2>1, <2>3 DEF OpcodeHarmless
  <2>5. UploadWhole' BY <1>2, <1>3, <2>2, WholeSame
  <2> QED BY <1>4, <2>2, <2>4, <2>5 DEF WholeInv
<1> QED BY <1>5, <1>6, <1>7, <1>8, <1>9 DEF BridgeStep

LEMMA VendorApart ==
  ASSUME OwnerInv, AnswersInv, WholeInv, VendorStep
  PROVE  WholeInv'
<1>1. using = {"vendor"}
  BY DEF VendorStep, OwnerInv, OneFunction, VendorUsed, VsShiftNone, VsShiftW, VsShiftReq,
         VsShiftResp, VsRelease
<1>2. "upload" \notin using /\ "bridge" \notin using /\ FlashApart /\ UploadWhole
  BY <1>1 DEF WholeInv
<1>3. UNCHANGED <<using, flushes, br>> BY DEF VendorStep, writers, host, br_vars
<1>4. UploadGoes' /\ OpcodeHarmless' BY <1>2, <1>3 DEF UploadGoes, OpcodeHarmless
<1>5. 0 \notin WriteOpcodes /\ 0 \in Nat
  BY DEF WriteOpcodes, Flash!PAGE_PROGRAM, Flash!BLOCK_ERASE
<1>6. FlashApart' /\ mem' = mem
  <2>1. CASE VsShiftNone /\ UNCHANGED <<flash, wire>>
    <3>1. spi' # "IDLE" BY <2>1 DEF VsShiftNone, VsWritten
    <3>2. UploadWhole' BY <1>2, <1>3, <2>1, WholeSame DEF flash
    <3> QED BY <1>2, <2>1, <3>1, <3>2, StillApart DEF BridgeShifts, flash
  <2>2. CASE VsShiftW /\ Octet(None, 0)
    <3>1. spi' # "IDLE" /\ Flash!ShiftIn(0) /\ UNCHANGED fsm
      BY <2>2 DEF VsShiftW, VsWritten, Octet
    <3> QED BY <1>2, <1>5, <3>1, ShiftApart DEF BridgeShifts
  <2>3. CASE VsShiftReq /\ Read(None)
    <3>1. spi' # "IDLE" /\ Flash!ShiftIn(0) /\ UNCHANGED fsm BY <2>3 DEF VsShiftReq, Read
    <3> QED BY <1>2, <1>5, <3>1, ShiftApart DEF BridgeShifts
  <2>4. CASE VsShiftResp(Head(replies)) /\ Reply
    <3>1. spi' # "IDLE" /\ UNCHANGED flash BY <2>4 DEF VsShiftResp, Reply
    <3>2. UploadWhole' BY <1>2, <1>3, <3>1, WholeSame DEF flash
    <3> QED BY <1>2, <3>1, <3>2, StillApart DEF BridgeShifts, flash
  <2>5. CASE VsRelease /\ Rise
    <3>1. Flash!ChipSelectRise /\ UNCHANGED fsm BY <2>5 DEF Rise
    <3> QED BY <1>2, <3>1, RiseApart
  <2> QED BY <2>1, <2>2, <2>3, <2>4, <2>5 DEF VendorStep
<1>7. UploadWhole' BY <1>2, <1>3, <1>6, WholeSame
<1> QED BY <1>4, <1>6, <1>7 DEF WholeInv

-----------------------------------------------------------------------------
(* The upload. *)

LEMMA UploadSame ==
  ASSUME UNCHANGED <<flash, writers>>
  PROVE  UNCHANGED Upload!core
<1>1. Count' = Count /\ Waiting' = Waiting /\ UpFlush' = UpFlush
  BY DEF Count, Waiting, UpFlush, writers
<1>2. UpW' = UpW /\ UpSent' = UpSent /\ UpImage' = UpImage
  BY <1>1 DEF UpW, UpSent, UpImage
<1> QED
  BY <1>1, <1>2 DEF flash, fsm, Upload!core, Upload!device, Upload!fsm, Upload!regs, Upload!port

LEMMA GoingSame == ASSUME Going, UNCHANGED <<flash, writers>> PROVE Going'
<1>1. Upload!ProtocolInv' /\ Upload!StoreInv' BY UploadSame, UploadStores DEF Going
<1>2. Count' = Count /\ Waiting' = Waiting /\ UpFlush' = UpFlush /\ addr_latch' = addr_latch
  BY DEF Count, Waiting, UpFlush, writers, flash, fsm
<1> QED BY <1>1, <1>2 DEF Going

LEMMA ImageRange ==
  /\ Image \in Seq(Byte) /\ Len(Image) \in 1 .. Upload!Capacity
  /\ \A n \in 1 .. Len(Image) : n - 1 \in 0 .. Upload!Capacity - 1 /\ Image[n] \in Byte
<1>1. Image \in Seq(Byte) /\ Len(Image) \in 1 .. Upload!Capacity
  BY FlashAssumption DEF Upload!Capacity
<1>2. \A n \in 1 .. Len(Image) : Image[n] \in Byte BY <1>1
<1> DEFINE c == Upload!Capacity  l == Len(Image)
<1>3. c \in Nat
  BY FlashAssumption DEF Flash!GeometryAssumption, Upload!Capacity
<1>4. \A n \in 1 .. l : n - 1 \in 0 .. c - 1
  <2>1. l \in 1 .. c BY <1>1
  <2> HIDE DEF c, l
  <2> QED BY <1>3, <2>1
<1> QED BY <1>1, <1>2, <1>4

LEMMA Lowered ==
  ASSUME NEW u \in [valid : BOOLEAN, addr : Flash!Addr, data : Byte],
         NEW v \in [valid : BOOLEAN, addr : Flash!Addr, data : Byte],
         ~v.valid, v.addr = u.addr, v.data = u.data
  PROVE  v = [u EXCEPT !.valid = FALSE]
OBVIOUS

\* The port lets go of the byte that is taken.
LEMMA TakenGoes ==
  ASSUME WritersInTurn, Going, Flash!TakesByte, Taken
  PROVE  Going'
<1>1. Waiting /\ PortW = UpW /\ Granted \in Writer /\ waiting[Granted]
      /\ \A i \in Writer : waiting[i] => Granted = i
  BY PortView DEF Flash!TakesByte, Flash!Idle, Flash!WriteNextByte, Flash!Accept
<1>2. Upload!TakesByte /\ addr_latch' = UpW.addr BY <1>1, UploadTakes
<1>3. Count' = Count /\ UpFlush' = UpFlush BY DEF Taken, Count, UpFlush
<1>4. ~Waiting'
  <2>1. waiting \in [Writer -> BOOLEAN] /\ 0 \in Writer /\ 1 \in Writer
    BY DEF WritersInTurn, Writer
  <2>2. waiting' = [waiting EXCEPT ![Granted] = FALSE] BY DEF Taken
  <2>3. \A i \in Writer : ~waiting'[i] BY <1>1, <2>1, <2>2
  <2> QED BY <2>1, <2>3 DEF Waiting
<1>5. UpSent' = UpSent /\ UpImage' = UpImage BY <1>3 DEF UpSent, UpImage
<1>6. Count \in 1 .. Len(Image) /\ Upload!ProtocolInv /\ Upload!StoreInv BY DEF Going
<1>7. FlashAddr(Count - 1) \in Flash!Addr /\ Image[Count] \in Byte
  BY <1>6, ImageRange, NumberAddressed
<1>8. UpW' = [UpW EXCEPT !.valid = FALSE]
  <2> DEFINE p == FlashAddr(Count - 1)  d == Image[Count]
  <2>1. UpW = [valid |-> Waiting, addr |-> p, data |-> d] BY DEF UpW
  <2>2. UpW' = [valid |-> Waiting', addr |-> p, data |-> d] BY <1>3 DEF UpW
  <2>3. p \in Flash!Addr /\ d \in Byte BY <1>7
  <2>4. Waiting \in BOOLEAN /\ Waiting' \in BOOLEAN
    BY DEF Waiting
  <2> HIDE DEF p, d
  <2>5. /\ UpW \in [valid : BOOLEAN, addr : Flash!Addr, data : Byte]
        /\ UpW' \in [valid : BOOLEAN, addr : Flash!Addr, data : Byte]
        /\ ~UpW'.valid /\ UpW'.addr = UpW.addr /\ UpW'.data = UpW.data
    BY <1>4, <2>1, <2>2, <2>3, <2>4
  <2> QED BY <2>5, Lowered
<1>9. Upload!TakeByte BY <1>2, <1>3, <1>5, <1>8 DEF Upload!TakeByte
<1>10. Upload!ProtocolInv' /\ Upload!StoreInv'
  BY <1>6, <1>9, UploadStores DEF Upload!Next, Upload!FsmStep
<1>11. addr_latch' = FlashAddr(Count' - 1) BY <1>2, <1>3 DEF UpW
<1> QED BY <1>3, <1>6, <1>10, <1>11 DEF Going

LEMMA WorkGoes ==
  ASSUME WritersInTurn, Going, Flash!WorksAlone, UNCHANGED writers
  PROVE  Going'
<1>1. Upload!WorksAlone /\ addr_latch' = addr_latch BY UploadWorks
<1>2. Count' = Count /\ Waiting' = Waiting /\ UpFlush' = UpFlush
  BY DEF Count, Waiting, UpFlush, writers
<1>3. UpW' = UpW /\ UpSent' = UpSent /\ UpImage' = UpImage
  BY <1>2 DEF UpW, UpSent, UpImage
<1>4. Upload!ProtocolInv' /\ Upload!StoreInv'
  BY <1>1, <1>2, <1>3, UploadStores DEF Going, Upload!Next, Upload!FsmStep, Upload!port
<1> QED BY <1>1, <1>2, <1>4 DEF Going

LEMMA WriteEndGoes ==
  ASSUME Going, Flash!WriteEnds, UNCHANGED <<fsm, writers>>
  PROVE  Going'
<1>1. Count' = Count /\ Waiting' = Waiting /\ UpFlush' = UpFlush /\ addr_latch' = addr_latch
  BY DEF Count, Waiting, UpFlush, writers, fsm
<1>2. UpW' = UpW /\ UpSent' = UpSent /\ UpImage' = UpImage
  BY <1>1 DEF UpW, UpSent, UpImage
<1>3. Upload!WriteEnds BY DEF Flash!WriteEnds, Upload!WriteEnds
<1>4. Upload!ProtocolInv' /\ Upload!StoreInv'
  BY <1>1, <1>2, <1>3, UploadStores
     DEF Going, Upload!Next, Upload!DeviceStep, Upload!port, fsm, Upload!fsm, Upload!regs
<1> QED BY <1>1, <1>4 DEF Going

\* The next byte of the image, and the flush behind the last.
LEMMA OfferGoes ==
  ASSUME WritersInTurn, Going, NEW i \in Writer, Offer(i)
  PROVE  Going'
<1>1. /\ offered[i] # 0 /\ ~waiting[i] /\ ~flushes[i] /\ UNCHANGED flash
      /\ Upload!ProtocolInv /\ Upload!StoreInv /\ Count \in 1 .. Len(Image)
      /\ ~Waiting => addr_latch = FlashAddr(Count - 1)
  BY DEF Offer, Going
<1>2. offered[1 - i] = 0 /\ ~waiting[1 - i] /\ ~flushes[1 - i] /\ offered[i] \in Nat
      /\ ((i = 0 /\ 1 - i = 1) \/ (i = 1 /\ 1 - i = 0))
  BY <1>1 DEF WritersInTurn, Writer
<1>3. ~Waiting /\ ~UpFlush /\ Count = offered[i]
  BY <1>1, <1>2 DEF Waiting, UpFlush, Count
<1>4. UNCHANGED <<Upload!device, Upload!fsm, addr_latch>>
  BY <1>1 DEF flash, fsm, Upload!device, Upload!fsm, Upload!regs
<1>5. CASE offered[i] = Len(Image)
  <2>1. flushes' = [flushes EXCEPT ![i] = TRUE] /\ UNCHANGED <<offered, waiting>>
    BY <1>5 DEF Offer
  <2>2. UpFlush' = TRUE BY <1>2, <2>1 DEF WritersInTurn, UpFlush, Writer
  <2>3. Count' = Count /\ Waiting' = Waiting BY <2>1 DEF Count, Waiting
  <2>4. UpW' = UpW /\ UpSent' = UpSent /\ UpImage' = UpImage
    BY <2>3 DEF UpW, UpSent, UpImage
  <2>5. Upload!RaiseFlush BY <1>3, <1>4, <2>2, <2>4 DEF Upload!RaiseFlush, Upload!fsm
  <2>6. Upload!ProtocolInv' /\ Upload!StoreInv'
    BY <1>1, <2>5, UploadStores DEF Upload!Next, Upload!WriterStep
  <2> QED BY <1>1, <1>3, <1>4, <1>5, <2>3, <2>6 DEF Going
<1>6. CASE offered[i] # Len(Image)
  <2> DEFINE c == Count  a == FlashAddr(c)  d == Image[c + 1]  last == FlashAddr(c - 1)
  <2>1. /\ offered' = [offered EXCEPT ![i] = offered[i] + 1]
        /\ waiting' = [waiting EXCEPT ![i] = TRUE] /\ UNCHANGED flushes
    BY <1>6 DEF Offer
  <2>2. Count' = c + 1 /\ Waiting' = TRUE /\ UpFlush' = UpFlush
    BY <1>2, <2>1 DEF WritersInTurn, Count, Waiting, UpFlush, Writer
  <2>3. c \in Nat /\ c > 0 /\ c + 1 \in 1 .. Len(Image)
    <3> DEFINE l == Len(Image)
    <3>1. l \in Nat BY ImageRange
    <3>2. c \in 1 .. l BY <1>1
    <3>3. c # l BY <1>3, <1>6
    <3> HIDE DEF c, l
    <3>4. c \in Nat /\ c > 0 /\ c + 1 \in 1 .. l BY ONLY <3>1, <3>2, <3>3
    <3> QED BY <3>4 DEF l
  <2>4. c \in 0 .. Upload!Capacity - 1 /\ c - 1 \in 0 .. Upload!Capacity - 1 /\ d \in Byte
    <3>1. (c + 1) - 1 = c BY <2>3
    <3> HIDE DEF c
    <3> QED BY <1>1, <2>3, <3>1, ImageRange DEF c
  <2>5. a \in Flash!Addr /\ Number(a) = c /\ last \in Flash!Addr /\ Number(last) = c - 1
    BY <2>4, NumberAddressed
  <2>6. addr_latch = last BY <1>1, <1>3
  <2>7. UpW' = [valid |-> TRUE, addr |-> a, data |-> d]
    <3>1. Count' - 1 = c BY <2>2, <2>3
    <3>2. UpW' = [valid |-> Waiting', addr |-> FlashAddr(Count' - 1), data |-> Image[Count']]
      BY DEF UpW
    <3> QED BY <2>2, <3>1, <3>2
  <2> HIDE DEF c, a, d, last
  <2>8. UpSent = {s \in Flash!Addr : Number(s) < c} BY DEF UpSent, c
  <2>9. UpSent' = UpSent \cup {a}
    <3>1. UpSent' = {s \in Flash!Addr : Number(s) < c + 1} BY <2>2 DEF UpSent
    <3>2. \A s \in Flash!Addr : Number(s) < c + 1 <=> Number(s) < c \/ s = a
      <4>1. \A s \in Flash!Addr : Number(s) = c => s = a
        BY AddressNumbered, <2>5 DEF a
      <4>2. \A s \in Flash!Addr : Number(s) \in Int BY AddressNumbered
      <4> QED BY <2>3, <2>5, <4>1, <4>2
    <3> QED BY <2>5, <2>8, <3>1, <3>2
  <2>10. a \notin UpSent BY <2>3, <2>5, <2>8
  <2>11. UpImage' = [UpImage EXCEPT ![a] = d]
    <3>1. UpImage \in [Flash!Addr -> UNION {{UpImage[s]} : s \in Flash!Addr}]
      BY DEF UpImage
    <3>2. ASSUME NEW s \in Flash!Addr
          PROVE  UpImage'[s] = IF s = a THEN d ELSE UpImage[s]
      BY <2>5, <2>9, <2>10 DEF UpImage, d
    <3>3. UpImage' = [s \in Flash!Addr |-> UpImage'[s]] BY DEF UpImage
    <3>4. [UpImage EXCEPT ![a] = d] = [s \in Flash!Addr |-> IF s = a THEN d ELSE UpImage[s]]
      BY DEF UpImage
    <3> QED BY <3>2, <3>3, <3>4
  <2>12. Upload!MayFollow(addr_latch, a)
    <3>1. Number(a) = Number(last) + 1 BY <2>3, <2>5
    <3>2. \A s \in UpSent : Number(s) <= Number(last)
      <4>1. \A s \in Flash!Addr : Number(s) \in Int BY AddressNumbered
      <4> QED BY <2>3, <2>5, <2>8, <4>1
    <3> QED BY <2>5, <2>6, <3>1, <3>2, CountedFollows
  <2>13. Upload!Put(addr_latch, a, d)
    BY <2>7, <2>9, <2>10, <2>11, <2>12 DEF Upload!Put
  <2>14. Upload!Offer(a, d)
    BY <1>3, <1>4, <2>2, <2>13 DEF Upload!Offer, UpW
  <2>15. a \in Upload!Addr /\ d \in Octets(a)
    BY <2>4, <2>5 DEF Octets, Upload!Addr, Flash!Addr
  <2>16. Upload!ProtocolInv' /\ Upload!StoreInv'
    BY <1>1, <2>14, <2>15, UploadStores DEF Upload!Next, Upload!WriterStep
  <2> QED BY <1>3, <2>2, <2>3, <2>16 DEF Going
<1> QED BY <1>5, <1>6

-----------------------------------------------------------------------------
(* The beginning of an upload, and its end. *)

\* One byte is on the port, and the FSM has taken none.
LEMMA UploadBegins ==
  ASSUME OwnerInv, FlashApart, using = {}, StartUpload
  PROVE  Going'
<1>1. /\ UNCHANGED flash /\ state = "IDLE" /\ br = "CMD_IDLE" /\ spi = "IDLE"
      /\ flushes' = [k \in Writer |-> FALSE]
      /\ \E i \in Writer : /\ offered' = [k \in Writer |-> IF k = i THEN 1 ELSE 0]
                           /\ waiting' = [k \in Writer |-> k = i]
  BY DEF StartUpload, OwnerInv, FlashUsed, BridgeUsed, VendorUsed
<1>2. /\ Upload!FsmTypeOK /\ qi = <<>> /\ ~block_valid /\ wip = FALSE /\ wel \in BOOLEAN
      /\ mem \in [Flash!Addr -> Byte]
      /\ frame = <<>> /\ buf = Flash!EmptyBuf /\ col \in 0 .. PageSize - 1
  BY <1>1 DEF FlashApart, BridgeShifts
<1>3. Count' = 1 /\ Waiting' = TRUE /\ UpFlush' = FALSE
  <2>1. PICK i \in Writer : /\ offered' = [k \in Writer |-> IF k = i THEN 1 ELSE 0]
                            /\ waiting' = [k \in Writer |-> k = i]
    BY <1>1
  <2>2. 0 \in Writer /\ 1 \in Writer /\ (i = 0 \/ i = 1) BY DEF Writer
  <2>3. offered'[0] + offered'[1] = 1 BY <2>1, <2>2
  <2>4. (waiting'[0] \/ waiting'[1]) = TRUE BY <2>1, <2>2
  <2>5. (flushes'[0] \/ flushes'[1]) = FALSE BY <1>1, <2>2
  <2> QED BY <2>3, <2>4, <2>5 DEF Count, Waiting, UpFlush
<1> DEFINE zero == FlashAddr(0)
<1>4. Image[1] \in Byte /\ zero \in Flash!Addr /\ Number(zero) = 0 /\ 1 \in 1 .. Len(Image)
  <2>1. 1 \in 1 .. Len(Image)
    BY FlashAssumption
  <2>2. Image[1] \in Byte /\ 1 - 1 \in 0 .. Upload!Capacity - 1 BY <2>1, ImageRange
  <2> QED BY <2>1, <2>2, NumberAddressed
<1>5. UpW' = [valid |-> TRUE, addr |-> zero, data |-> Image[1]]
  <2>1. UpW' = [valid |-> Waiting', addr |-> FlashAddr(Count' - 1), data |-> Image[Count']]
    BY DEF UpW
  <2>2. Count' - 1 = 0 BY <1>3
  <2> QED BY <1>3, <2>1, <2>2
<1> HIDE DEF zero
<1>6. UpSent' = {zero}
  <2>1. UpSent' = {s \in Flash!Addr : Number(s) < 1} BY <1>3 DEF UpSent
  <2>2. \A s \in Flash!Addr : Number(s) < 1 <=> s = zero
    <3>1. \A s \in Flash!Addr : Number(s) \in 0 .. Upload!Capacity - 1 BY AddressNumbered
    <3>2. \A s \in Flash!Addr : Number(s) = 0 => s = zero BY AddressNumbered DEF zero
    <3>3. \A s \in Flash!Addr : Number(s) \in Nat BY <3>1
    <3> QED BY <1>4, <3>2, <3>3
  <2> QED BY <1>4, <2>1, <2>2
<1>7. UpImage' = [s \in Flash!Addr |-> IF s = zero THEN Image[1] ELSE Flash!Erased]
  <2>1. UpImage' = [s \in Flash!Addr |-> IF s \in {zero} THEN Image[Number(s) + 1]
                                                          ELSE Flash!Erased]
    BY <1>6 DEF UpImage
  <2>2. Image[Number(zero) + 1] = Image[1] BY <1>4
  <2> QED BY <2>1, <2>2
<1>8. UNCHANGED <<mem, wel, wip, frame, buf, col, state, addr_latch, data_latch, current_block,
                  block_valid, current_page, addr_count, wren_target, poll_return, has_next,
                  status, qi>>
  BY <1>1 DEF flash, fsm
<1>9. Upload!TypeOK'
  <2>1. buf \in [0 .. PageSize - 1 -> Byte] BY <1>2, Given DEF Flash!EmptyBuf, Flash!Erased, Upload!Erased
  <2>2. frame \in Seq(Byte) /\ Len(frame) <= 4 BY <1>2
  <2>3. mem \in [Upload!Addr -> Byte] BY <1>2 DEF Upload!Addr, Flash!Addr
  <2>4. Upload!DeviceTypeOK' BY <1>2, <1>8, <2>1, <2>2, <2>3 DEF Upload!DeviceTypeOK
  <2>5. Upload!FsmTypeOK' BY <1>2, <1>8 DEF Upload!FsmTypeOK
  <2>6. UpW' \in [valid : BOOLEAN, addr : Upload!Addr, data : Byte] /\ UpFlush' \in BOOLEAN
    BY <1>3, <1>4, <1>5 DEF Upload!Addr, Flash!Addr
  <2>7. UpImage' \in [Upload!Addr -> Byte] /\ UpSent' \subseteq Upload!Addr
    BY <1>4, <1>6, <1>7, Given DEF Upload!Addr, Flash!Addr, Upload!Erased, Flash!Erased
  <2> QED BY <2>4, <2>5, <2>6, <2>7 DEF Upload!TypeOK
<1>10. Upload!ProtocolInv'
  BY <1>1, <1>2, <1>8, <1>9
     DEF Upload!ProtocolInv, Upload!FrameShape, Upload!NotBusy, Upload!LatchSet, Upload!OneReply,
         Upload!AtBoundary, Upload!Addressed, Upload!Enabled, Upload!PollStates
<1>11. /\ state' = "IDLE" /\ ~block_valid' /\ buf' = Upload!EmptyBuf
       /\ UpW'.valid /\ UpW'.addr = zero /\ UpW'.data = Image[1]
  BY <1>1, <1>2, <1>5, <1>8 DEF Flash!EmptyBuf, Upload!EmptyBuf, Flash!Erased, Upload!Erased
<1>12. Upload!Accepted' = {} BY <1>6, <1>11 DEF Upload!Accepted
<1>13. ~Upload!LatchLive' /\ ~Upload!EraseDue'
  BY <1>11 DEF Upload!LatchLive, Upload!EraseDue, Upload!Polling
<1>14. Upload!PortHolds'
  <2>1. UpImage'[zero] = Image[1] /\ zero \in UpSent' BY <1>4, <1>6, <1>7
  <2>2. \A s \in Upload!Addr \ UpSent' : UpImage'[s] = Upload!Erased
    BY <1>6, <1>7 DEF Flash!Erased, Upload!Erased, Flash!Addr, Upload!Addr
  <2> QED BY <1>11, <1>12, <2>1, <2>2 DEF Upload!PortHolds, Upload!Follows
<1>15. Upload!Closes' BY <1>11, <1>12 DEF Upload!Closes
<1>16. Upload!LatchHolds' BY <1>11, <1>13 DEF Upload!LatchHolds
<1>17. Upload!FrameAddressed' /\ Upload!PageHolds'
  BY <1>11 DEF Upload!FrameAddressed, Upload!PageHolds, Upload!Addressed
<1>18. Upload!BufHolds' BY <1>11 DEF Upload!BufHolds, Upload!InOpen, Upload!Addressed
<1>19. Upload!MemHolds' BY <1>12 DEF Upload!MemHolds, Upload!Touched
<1>20. Upload!StoreInv' BY <1>14, <1>15, <1>16, <1>17, <1>18, <1>19 DEF Upload!StoreInv
<1> QED BY <1>3, <1>4, <1>10, <1>20 DEF Going

\* The flush closes the last page; the array holds the image, the device rests.
LEMMA UploadEnds ==
  ASSUME OwnerInv, Going, EndUpload
  PROVE  FlashApart' /\ UploadWhole'
<1>1. /\ UNCHANGED <<flash, writers, br_vars, vs_vars>> /\ state = "IDLE"
      /\ using = {"upload"} /\ using' = {} /\ \E i \in Writer : flushes[i]
  BY DEF EndUpload, End, OwnerInv, OneFunction
<1>2. UpFlush /\ ~Waiting
  <2>1. PICK i \in Writer : flushes[i] BY <1>1
  <2>2. /\ ~waiting[i] /\ offered[i] # 0 /\ offered[1 - i] = 0 /\ ~waiting[1 - i]
        /\ ((i = 0 /\ 1 - i = 1) \/ (i = 1 /\ 1 - i = 0))
    BY <2>1 DEF OwnerInv, WritersInTurn, Writer
  <2> QED BY <2>1, <2>2 DEF UpFlush, Waiting
<1>3. Count = Len(Image) /\ Upload!ProtocolInv /\ Upload!StoreInv BY <1>2 DEF Going
<1>4. Upload!Flushed BY <1>1, <1>2 DEF Upload!Flushed, UpW
<1>5. /\ ~wip
      /\ \A a \in Flash!Addr : (\E s \in UpSent : s.blk = a.blk) => mem[a] = UpImage[a]
  BY <1>3, <1>4, UploadFlushes
<1>6. UploadWhole'
  <2>1. ASSUME NEW n \in 1 .. Len(Image) PROVE mem[FlashAddr(n - 1)] = Image[n]
    <3> DEFINE a == FlashAddr(n - 1)  l == Len(Image)
    <3>1. a \in Flash!Addr /\ Number(a) = n - 1 BY ImageRange, NumberAddressed
    <3>2. l \in Nat /\ n \in 1 .. l BY ImageRange
    <3> HIDE DEF a, l
    <3>3. Number(a) < l /\ Number(a) + 1 = n BY <3>1, <3>2
    <3>4. a \in UpSent BY <1>3, <3>1, <3>3 DEF UpSent, l
    <3>5. UpImage[a] = Image[n] BY <3>1, <3>3, <3>4 DEF UpImage
    <3> QED BY <1>5, <3>1, <3>4, <3>5 DEF a
  <2>2. mem' = mem BY <1>1 DEF flash
  <2> QED BY <2>1, <2>2 DEF UploadWhole
<1>7. /\ Upload!DeviceTypeOK /\ Upload!FsmTypeOK /\ ~block_valid /\ qi = <<>> /\ frame = <<>>
      /\ buf = Upload!EmptyBuf
  BY <1>1, <1>3
     DEF Upload!ProtocolInv, Upload!TypeOK, Upload!FrameShape, Upload!OneReply,
         Upload!AtBoundary, Upload!StoreInv, Upload!Closes, Upload!BufHolds, Upload!Addressed
<1>8. /\ mem \in [Flash!Addr -> Byte] /\ wel \in BOOLEAN /\ wip = FALSE /\ frame \in Seq(Nat)
      /\ buf = Flash!EmptyBuf /\ col \in 0 .. PageSize - 1
  BY <1>5, <1>7
     DEF Upload!DeviceTypeOK, Upload!Addr, Flash!Addr, Upload!EmptyBuf, Flash!EmptyBuf,
         Upload!Erased, Flash!Erased
<1>9. UNCHANGED <<mem, wel, wip, frame, buf, col, state, addr_latch, data_latch, current_block,
                  block_valid, current_page, addr_count, wren_target, poll_return, has_next,
                  status, qi>>
  BY <1>1 DEF flash, fsm
<1>10. Upload!FsmTypeOK' BY <1>7, <1>9 DEF Upload!FsmTypeOK
<1> QED BY <1>6, <1>7, <1>8, <1>9, <1>10 DEF FlashApart

-----------------------------------------------------------------------------
(* The steps. *)

LEMMA OpcodeSame ==
  ASSUME OpcodeHarmless, UNCHANGED <<br, frame>>, Left' = Left, "bridge" \in using' => "bridge" \in using
  PROVE  OpcodeHarmless'
<1> DEFINE l == Left
<1>1. l' = l BY DEF l
<1>2. OpcodeHarmless <=>
      ("bridge" \in using =>
        /\ br = "CMD_IDLE" /\ l # <<>> /\ l[1] = 1 /\ Len(l) > 5 => l[6] \notin WriteOpcodes
        /\ br = "WLEN_LO" /\ Len(l) > 4 => l[5] \notin WriteOpcodes
        /\ br = "WLEN_HI" /\ Len(l) > 3 => l[4] \notin WriteOpcodes
        /\ br = "RLEN_LO" /\ Len(l) > 2 => l[3] \notin WriteOpcodes
        /\ br = "RLEN_HI" /\ Len(l) > 1 => l[2] \notin WriteOpcodes
        /\ br = "DO_OUT" /\ frame = <<>> => l[1] \notin WriteOpcodes)
  BY DEF OpcodeHarmless
<1> QED BY <1>1 DEF OpcodeHarmless

\* A step that touches neither the flash nor the writers, and no upload comes or goes.
LEMMA QuietWhole ==
  ASSUME WholeInv, UNCHANGED <<flash, writers>>, OpcodeHarmless',
         "upload" \in using' <=> "upload" \in using,
         "upload" \notin using => (BridgeShifts => BridgeShifts')
  PROVE  WholeInv'
<1>1. CASE "upload" \in using
  <2>1. Going' BY <1>1, GoingSame DEF WholeInv, UploadGoes
  <2>2. FlashApart' /\ UploadGoes' /\ UploadWhole'
    BY <1>1, <2>1 DEF FlashApart, UploadGoes, UploadWhole
  <2> QED BY <2>2 DEF WholeInv
<1>2. CASE "upload" \notin using
  <2>1. FlashApart' BY <1>2, StillApart DEF WholeInv
  <2>2. mem' = mem /\ flushes' = flushes BY DEF flash, writers
  <2>3. UploadWhole' BY <1>2, <2>2, WholeSame DEF WholeInv
  <2>4. UploadGoes' BY <1>2 DEF UploadGoes
  <2> QED BY <2>1, <2>3, <2>4 DEF WholeInv
<1> QED BY <1>1, <1>2

\* A step of the upload, while the bridges rest.
LEMMA GoneWhole ==
  ASSUME OwnerInv, "upload" \in using, using' = using, Going'
  PROVE  WholeInv'
<1>1. "upload" \in using' /\ "bridge" \notin using' BY DEF OwnerInv, OneFunction
<1> QED BY <1>1 DEF WholeInv, UploadGoes, FlashApart, OpcodeHarmless, UploadWhole

LEMMA FlashWhole == ASSUME OwnerInv, WholeInv, FlashStep PROVE WholeInv'
<1>1. CASE FlashOnBus
  <2>1. state # "IDLE" /\ Flash!WorksAlone /\ UNCHANGED writers /\ using' = using
    BY <1>1 DEF FlashOnBus, FlashActive, host
  <2>2. "upload" \in using /\ WritersInTurn BY <2>1 DEF OwnerInv, FlashUsed
  <2>3. Going' BY <2>1, <2>2, WorkGoes DEF WholeInv, UploadGoes
  <2> QED BY <2>1, <2>2, <2>3, GoneWhole
<1>2. CASE FlashOffBus
  <2>1. using' = using /\ WritersInTurn BY <1>2 DEF FlashOffBus, host, OwnerInv
  <2>2. CASE Flash!TakesByte /\ Taken
    <3>1. PortW.valid
      BY <2>2 DEF Flash!TakesByte, Flash!Idle, Flash!WriteNextByte, Flash!Accept
    <3>2. Granted \in Writer /\ waiting[Granted]
      BY <3>1 DEF PortW, Granted, WriterActive, Writer, None
    <3>3. "upload" \in using BY <3>2 DEF OwnerInv, FlashUsed
    <3>4. Going' BY <2>1, <2>2, <3>3, TakenGoes DEF WholeInv, UploadGoes
    <3> QED BY <2>1, <3>3, <3>4, GoneWhole
  <2>3. CASE Flash!WorksAlone /\ UNCHANGED writers
    <3>1. "upload" \in using BY <2>3, FlashWaits DEF OwnerInv, FlashUsed
    <3>2. Going' BY <2>1, <2>3, <3>1, WorkGoes DEF WholeInv, UploadGoes
    <3> QED BY <2>1, <3>1, <3>2, GoneWhole
  <2> QED BY <1>2, <2>2, <2>3 DEF FlashOffBus
<1> QED BY <1>1, <1>2 DEF FlashStep

\* No erase and no program goes on inside the flash but those of an upload.
LEMMA DeviceWhole == ASSUME OwnerInv, WholeInv, DeviceStep PROVE WholeInv'
<1>1. Flash!WriteEnds /\ UNCHANGED <<fsm, writers>> /\ using' = using
  BY DEF DeviceStep, host
<1>2. wip BY <1>1 DEF Flash!WriteEnds
<1>3. "upload" \in using BY <1>2 DEF WholeInv, FlashApart
<1>4. Going' BY <1>1, <1>3, WriteEndGoes DEF WholeInv, UploadGoes
<1> QED BY <1>1, <1>3, <1>4, GoneWhole

LEMMA VendorHostWhole == ASSUME OwnerInv, WholeInv, VendorHost PROVE WholeInv'
<1>1. UNCHANGED <<flash, writers, br_vars, arbiter, wire>> BY DEF VendorHost
<1>2. br' = br /\ rx' = rx /\ frame' = frame BY <1>1 DEF br_vars, flash
<1>3. spi' = spi \/ spi' = "SHIFT_W"
  BY DEF VendorHost, ReceiveOctet, StatusStarts, StatusDone, DataRequested, StreamOctet,
         ResultStatus, vs_spi
<1>4. BridgeShifts => BridgeShifts' BY <1>2, <1>3 DEF BridgeShifts
<1>5. CASE using' = using /\ script' = script
  <2>1. Left' = Left BY <1>2, <1>5 DEF Left
  <2>2. OpcodeHarmless' BY <1>2, <1>5, <2>1, OpcodeSame DEF WholeInv
  <2> QED BY <1>1, <1>4, <1>5, <2>2, QuietWhole
<1>6. CASE using \in {{"vendor"}, {"result"}} /\ using' \in {using, {}}
  <2>1. "bridge" \notin using' /\ "upload" \notin using /\ "upload" \notin using' BY <1>6
  <2>2. OpcodeHarmless' BY <2>1 DEF OpcodeHarmless
  <2> QED BY <1>1, <1>4, <2>1, <2>2, QuietWhole
<1>7. (using' = using /\ script' = script)
      \/ (using \in {{"vendor"}, {"result"}} /\ using' \in {using, {}})
  <2>1. CASE "vendor" \in using /\ UNCHANGED <<using, wanted, got, ops>>
    BY <2>1 DEF OwnerInv, OneFunction
  <2>2. CASE UNCHANGED host BY <2>2 DEF host
  <2>3. CASE End("vendor") BY <2>3 DEF End, OwnerInv, OneFunction
  <2>4. CASE End("result") BY <2>4 DEF End, OwnerInv, OneFunction
  <2> QED BY <2>1, <2>2, <2>3, <2>4 DEF VendorHost
<1> QED BY <1>5, <1>6, <1>7

LEMMA HostWhole == ASSUME OwnerInv, AnswersInv, WholeInv, HostGoesOn PROVE WholeInv'
<1>1. CASE Feed
  <2>1. /\ UNCHANGED <<flash, writers>> /\ br' = br /\ spi' = spi /\ using' = using
        /\ frame' = frame /\ rx = <<>> /\ script # <<>> /\ rx' = <<Head(script)>>
        /\ script' = Tail(script)
    BY <1>1 DEF Feed, vs_vars, vs_spi, flash
  <2>2. Left' = Left BY <2>1, LeftFed DEF AnswersInv
  <2>3. OpcodeHarmless' BY <2>1, <2>2, OpcodeSame DEF WholeInv
  <2>4. BridgeShifts' <=> BridgeShifts BY <2>1 DEF BridgeShifts
  <2> QED BY <2>1, <2>3, <2>4, QuietWhole
<1>2. CASE Collect
  <2>1. /\ UNCHANGED <<flash, writers>> /\ br' = br /\ spi' = spi /\ using' = using
        /\ frame' = frame /\ rx' = rx /\ script' = script
    BY <1>2 DEF Collect, vs_vars, vs_spi, flash
  <2>2. Left' = Left BY <2>1 DEF Left
  <2>3. OpcodeHarmless' BY <2>1, <2>2, OpcodeSame DEF WholeInv
  <2>4. BridgeShifts' <=> BridgeShifts BY <2>1 DEF BridgeShifts
  <2> QED BY <2>1, <2>3, <2>4, QuietWhole
<1>3. CASE EndBridge
  <2>1. UNCHANGED <<flash, writers>> /\ br' = br /\ spi' = spi
    BY <1>3 DEF EndBridge, br_vars, vs_vars, vs_spi
  <2>2. using = {"bridge"} /\ using' = {} BY <1>3 DEF EndBridge, End, OwnerInv, OneFunction
  <2>3. OpcodeHarmless' BY <2>2 DEF OpcodeHarmless
  <2>4. BridgeShifts' <=> BridgeShifts BY <2>1 DEF BridgeShifts
  <2> QED BY <2>1, <2>2, <2>3, <2>4, QuietWhole
<1>4. CASE VendorHost BY <1>4, VendorHostWhole
<1>5. CASE EndUpload
  <2>1. "upload" \in using /\ using' = {} BY <1>5 DEF EndUpload, End, OwnerInv, OneFunction
  <2>2. Going BY <2>1 DEF WholeInv, UploadGoes
  <2>3. FlashApart' /\ UploadWhole' BY <1>5, <2>2, UploadEnds
  <2>4. UploadGoes' /\ OpcodeHarmless' BY <2>1 DEF UploadGoes, OpcodeHarmless
  <2> QED BY <2>3, <2>4 DEF WholeInv
<1>6. ASSUME NEW i \in Writer, Offer(i) PROVE WholeInv'
  <2>1. "upload" \in using /\ using' = using /\ WritersInTurn
    BY <1>6 DEF Offer, host, OwnerInv
  <2>2. Going' BY <1>6, <2>1, OfferGoes DEF WholeInv, UploadGoes
  <2> QED BY <2>1, <2>2, GoneWhole
<1> QED BY <1>1, <1>2, <1>3, <1>4, <1>5, <1>6 DEF HostGoesOn

LEMMA StartWhole ==
  ASSUME CommandsFit, CommandsHarmless, OwnerInv, WholeInv, using = {}, HostStarts
  PROVE  WholeInv'
<1>1. FlashApart /\ UploadWhole /\ br = "CMD_IDLE" /\ rx = <<>> /\ spi = "IDLE"
  BY DEF WholeInv, OwnerInv, BridgeUsed, VendorUsed
<1>2. CASE StartBridge
  <2>1. /\ UNCHANGED <<flash, writers>> /\ br' = "CMD_IDLE" /\ spi' = spi /\ using' = {"bridge"}
        /\ rx' = <<>> /\ script' \in Transactions
    BY <1>1, <1>2 DEF StartBridge, Start, br_vars, vs_vars, vs_spi
  <2>2. Left' = script'
    <3>1. script' \in Seq(Nat) BY <2>1 DEF CommandsFit
    <3> QED BY <2>1, <3>1 DEF Left
  <2>3. script'[1] = 1 /\ Len(script') > 5 => script'[6] \notin WriteOpcodes
    BY <2>1 DEF CommandsHarmless
  <2>4. OpcodeHarmless' BY <2>1, <2>2, <2>3 DEF OpcodeHarmless
  <2>5. ~BridgeShifts BY <1>1 DEF BridgeShifts
  <2> QED BY <2>1, <2>4, <2>5, QuietWhole
<1>3. CASE StartUpload
  <2>1. Going' BY <1>1, <1>3, UploadBegins
  <2>2. using' = {"upload"} BY <1>3 DEF StartUpload, Start
  <2> QED BY <2>1, <2>2 DEF WholeInv, UploadGoes, FlashApart, OpcodeHarmless, UploadWhole
<1>4. CASE StartVendor
  <2>1. UNCHANGED <<flash, writers, br_vars>> BY <1>4 DEF StartVendor
  <2>2. spi' = spi /\ using' \in {{"vendor"}, {"result"}}
    BY <1>4 DEF StartVendor, Start, Exec, Result, vs_spi
  <2>3. OpcodeHarmless' BY <2>2 DEF OpcodeHarmless
  <2>4. ~BridgeShifts BY <1>1 DEF BridgeShifts
  <2> QED BY <2>1, <2>2, <2>3, <2>4, QuietWhole
<1> QED BY <1>2, <1>3, <1>4 DEF HostStarts

LEMMA WholeInit == ASSUME Init PROVE WholeInv
<1> DEFINE zero == [blk |-> 0, pg |-> 0, off |-> 0]
<1>1. /\ mem \in Contents /\ wel = FALSE /\ wip = FALSE /\ frame = <<>> /\ buf = Flash!EmptyBuf
      /\ col = 0 /\ state = "IDLE" /\ addr_latch = zero /\ data_latch = 0 /\ current_block = 0
      /\ block_valid = FALSE /\ current_page = <<0, 0>> /\ addr_count = 0
      /\ wren_target = "ERASE" /\ poll_return = "WREN_ERASE" /\ has_next = FALSE
      /\ status = FALSE /\ qi = <<>>
  BY DEF Init, Flash!DeviceInit, Flash!FsmInit, Flash!AddrZero
<1>2. using = {} /\ br = "CMD_IDLE" /\ spi = "IDLE" /\ \A i \in Writer : flushes[i] = FALSE
  BY DEF Init, BridgeInit, VendorInit
<1>3. /\ 0 \in 0 .. Blocks - 1 /\ 0 \in 0 .. Pages - 1 /\ 0 \in 0 .. PageSize - 1 /\ 0 \in Byte
  BY Given
<1>4. Upload!FsmTypeOK
  <2>1. addr_latch \in Upload!Addr BY <1>1, <1>3 DEF Upload!Addr
  <2>2. state \in Upload!States BY <1>1 DEF Upload!States
  <2>3. current_page \in (0 .. Blocks - 1) \X (0 .. Pages - 1) BY <1>1, <1>3
  <2>4. data_latch \in Byte /\ current_block \in 0 .. Blocks - 1 BY <1>1, <1>3
  <2>7. addr_count \in 0 .. 2 BY <1>1
  <2>8. block_valid \in BOOLEAN BY <1>1
  <2>5. /\ wren_target \in {"ERASE", "WRITE"} /\ poll_return \in {"WREN_ERASE", "WREN_WRITE", "IDLE"}
        /\ has_next \in BOOLEAN /\ status \in BOOLEAN
    BY <1>1
  <2>6. qi \in Seq(BOOLEAN) BY <1>1
  <2> QED BY ONLY <2>1, <2>2, <2>3, <2>4, <2>5, <2>6, <2>7, <2>8 DEF Upload!FsmTypeOK
<1>5. mem \in [Flash!Addr -> Byte] BY <1>1, FlashAssumption
<1>6. FlashApart
  <2>1. qi = <<>> /\ ~block_valid /\ wel \in BOOLEAN /\ wip = FALSE /\ frame = <<>> BY <1>1
  <2>2. frame \in Seq(Nat) BY <1>1
  <2>3. buf = Flash!EmptyBuf /\ col \in 0 .. PageSize - 1 BY <1>1, <1>3
  <2> QED BY ONLY <1>4, <1>5, <2>1, <2>2, <2>3 DEF FlashApart
<1> QED BY <1>2, <1>6 DEF WholeInv, UploadGoes, OpcodeHarmless, UploadWhole

LEMMA WholeStep ==
  ASSUME CommandsFit, CommandsHarmless, OwnerInv, AnswersInv, WholeInv, [Next]_vars
  PROVE  WholeInv'
<1>1. CASE Arbitrate \/ UNCHANGED vars
  <2>1. UNCHANGED <<flash, writers>> /\ br' = br /\ rx' = rx /\ spi' = spi /\ using' = using
        /\ script' = script /\ frame' = frame
    BY <1>1 DEF Arbitrate, vars, br_vars, vs_vars, vs_spi, host, flash
  <2>2. Left' = Left BY <2>1 DEF Left
  <2>3. OpcodeHarmless' BY <2>1, <2>2, OpcodeSame DEF WholeInv
  <2>4. BridgeShifts' <=> BridgeShifts BY <2>1 DEF BridgeShifts
  <2> QED BY <2>1, <2>3, <2>4, QuietWhole
<1>2. CASE Device
  BY <1>1, <1>2, FlashWhole, DeviceWhole, BridgeApart, VendorApart DEF Device
<1>3. CASE HostGoesOn BY <1>3, HostWhole
<1>4. CASE using = {} /\ HostStarts BY <1>4, StartWhole
<1> QED BY <1>1, <1>2, <1>3, <1>4 DEF Next

\* When an upload has ended the flash holds the image, for every geometry and image
\* that fits: whichever writer did it, whatever pauses it made, whoever had used
\* the bus before it and whoever has used it since, the bridges with any commands
\* that do not write to the flash themselves.
THEOREM UploadKept == ASSUME CommandsFit, CommandsHarmless PROVE Spec => []UploadWhole
<1>1. Init => OwnerInv /\ AnswersInv /\ WholeInv BY OwnerInit, AnswersInit, WholeInit
<1>2. OwnerInv /\ [Next]_vars => OwnerInv' BY OwnerStep
<1>3. OwnerInv /\ AnswersInv /\ [Next]_vars => AnswersInv' BY AnswersStep
<1>4. OwnerInv /\ AnswersInv /\ WholeInv /\ [Next]_vars => WholeInv' BY WholeStep
<1>5. WholeInv => UploadWhole BY DEF WholeInv
<1> QED BY <1>1, <1>2, <1>3, <1>4, <1>5, PTL DEF Spec

=============================================================================
