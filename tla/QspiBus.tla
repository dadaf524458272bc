------------------------------- MODULE QspiBus --------------------------------
(***************************************************************************)
(* Who drives the QSPI bus while USB is up: the composite backend of       *)
(* backends/composite.py, whose HoldArbiter shares the bus between the     *)
(* QspiFlash backing and the serial bridge and whose Arbiter shares the    *)
(* backing between two writers, and the mux of top.py that lets the vendor *)
(* bridge in before all of them. The host believes what the device tells   *)
(* it; its tools use one function of the device at a time.                 *)
(***************************************************************************)
EXTENDS SpiBridge, VendorSpi, FiniteSets

CONSTANTS
  Blocks, Pages, PageSize, Byte, BitAnd(_, _), Contents,  \* the flash
  Image,          \* what an upload writes, from address 0 on
  IdleHold,       \* HoldArbiter's idle_hold
  Transactions,   \* octets a host may send to the serial bridge in one go
  Execs,          \* [octets to write, octets to read] of a vendor request
  MaxOps          \* bound: operations a host starts

VARIABLES
  mem, wel, wip, frame, buf, col,
  state, addr_latch, data_latch, current_block, block_valid, current_page,
  addr_count, wren_target, poll_return, has_next, status, qi,
  offered, flushes,  \* of the two writers: octets put on the port; w.flush
  waiting,           \* of the two writers: w.valid
  grant, idle,       \* of HoldArbiter; 2 is nobody
  replies,           \* octets read on the bus, on their way back
  owners, reads,     \* history of the open frame: who has sent in it, octets read
  using,             \* the host: the functions it is using,
  script, wanted,    \* octets it has still to send and octets it waits for,
  got, ops           \* octets received, operations started

fsm     == <<state, addr_latch, data_latch, current_block, block_valid, current_page,
             addr_count, wren_target, poll_return, has_next, status, qi>>
flash   == <<mem, wel, wip, frame, buf, col, fsm>>
writers == <<offered, flushes, waiting>>
arbiter == <<grant, idle>>
wire    == <<replies, owners, reads>>
host    == <<using, script, wanted, got, ops>>
vars    == <<flash, writers, br_vars, vs_vars, arbiter, wire, host>>

Writer == 0 .. 1
None   == 2

\* Arbiter: the writer with the lowest index that has a byte or a flush.
WriterActive(i) == waiting[i] \/ flushes[i]
Granted == IF WriterActive(0) THEN 0 ELSE IF WriterActive(1) THEN 1 ELSE None

FlashAddr(n) == [blk |-> n \div (Pages * PageSize), pg |-> (n \div PageSize) % Pages,
                 off |-> n % PageSize]

PortW ==
  IF Granted = None \/ ~waiting[Granted % 2]
    THEN [valid |-> FALSE, addr |-> FlashAddr(0), data |-> 0]
    ELSE [valid |-> TRUE, addr |-> FlashAddr(offered[Granted] - 1),
          data |-> Image[offered[Granted]]]

Flash == INSTANCE QspiFlash
           WITH w <- PortW, flush <- Granted # None /\ flushes[Granted % 2]

ASSUME FlashAssumption ==
  /\ Flash!GeometryAssumption /\ Flash!ByteAssumption /\ Flash!AndAssumption
  /\ Contents \subseteq [Flash!Addr -> Byte]
  /\ Image \in Seq(Byte) /\ Len(Image) \in 1 .. Blocks * Pages * PageSize
  /\ MaxOps \in Nat

Init ==
  /\ Flash!DeviceInit(Contents) /\ Flash!FsmInit
  /\ offered = [i \in Writer |-> 0]
  /\ flushes = [i \in Writer |-> FALSE] /\ waiting = [i \in Writer |-> FALSE]
  /\ BridgeInit /\ VendorInit
  /\ grant = None /\ idle = 0
  /\ replies = <<>> /\ owners = {} /\ reads = 0
  /\ using = {} /\ script = <<>> /\ wanted = 0 /\ got = <<>> /\ ops = 0

-----------------------------------------------------------------------------
(* HoldArbiter, a cycle at a time. A participant is active while it offers an
   octet or waits for one; its octets come in such cycles. *)

FlashActive == state \notin {"IDLE", "WRITE_NEXT"}

Active(p) == IF p = 0 THEN FlashActive ELSE BrActive

\* Bug: a participant that falls silent keeps the bus.
ReleasedNever == FALSE

Released == idle = IdleHold

Latch ==
  /\ grant = None /\ (Active(0) \/ Active(1))
  /\ grant' = IF Active(0) THEN 0 ELSE 1
  /\ idle' = 0

Hold ==
  /\ grant # None /\ ~Active(grant)
  /\ grant' = IF Released THEN None ELSE grant
  /\ idle' = IF idle = IdleHold THEN idle ELSE idle + 1

Arbitrate == (Latch \/ Hold) /\ UNCHANGED <<flash, writers, br_vars, vs_vars, wire, host>>

\* p's octets reach the controller: the vendor bridge is not active.
HasBus(p) == ~vs_active /\ grant = p /\ idle' = 0 /\ UNCHANGED grant

\* An octet of p in the open frame, one clocked out of the flash, its reply, and
\* the end of the frame.
Sent(p) == owners' = owners \cup {p} /\ UNCHANGED <<replies, reads>>
Closed  == owners' = {} /\ reads' = 0 /\ UNCHANGED replies

Octet(p, b) == Flash!ShiftIn(b) /\ Sent(p) /\ UNCHANGED fsm
Read(p)     == /\ Flash!ShiftIn(0) /\ UNCHANGED fsm
               /\ owners' = owners \cup {p}
               /\ reads' = reads + 1 /\ replies' = Append(replies, reads + 1)
Rise        == Flash!ChipSelectRise /\ Closed /\ UNCHANGED fsm
Reply       == replies' = Tail(replies) /\ UNCHANGED <<flash, owners, reads>>

-----------------------------------------------------------------------------
(* The participants. *)

\* The byte of the granted writer is taken.
Taken == waiting' = [waiting EXCEPT ![Granted] = FALSE] /\ UNCHANGED <<offered, flushes>>

FlashOnBus ==
  /\ FlashActive /\ HasBus(0)
  /\ Flash!WorksAlone
  /\ IF frame' = <<>> THEN Closed ELSE Sent(0)
  /\ UNCHANGED <<writers, br_vars, vs_vars, host>>

FlashOffBus ==
  /\ ~FlashActive
  /\ \/ Flash!TakesByte /\ Taken
     \/ Flash!WorksAlone /\ UNCHANGED writers
  /\ UNCHANGED <<br_vars, vs_vars, arbiter, wire, host>>

FlashStep == FlashOnBus \/ FlashOffBus

DeviceStep ==
  /\ Flash!WriteEnds
  /\ UNCHANGED <<fsm, writers, br_vars, vs_vars, arbiter, wire, host>>

BridgeStep ==
  /\ \/ BrTakes /\ UNCHANGED <<arbiter, wire, flash>>
     \/ BrOut /\ HasBus(1) /\ Octet(1, Head(rx))
     \/ BrInReq /\ HasBus(1) /\ Read(1)
     \/ replies # <<>> /\ BrInResp(Head(replies)) /\ HasBus(1) /\ Reply
     \/ BrRelease /\ HasBus(1) /\ Rise
  /\ UNCHANGED <<writers, vs_vars, host>>

VendorStep ==
  /\ \/ VsShiftNone /\ UNCHANGED <<flash, wire>>
     \/ VsShiftW /\ Octet(None, 0)
     \/ VsShiftReq /\ Read(None)
     \/ replies # <<>> /\ VsShiftResp(Head(replies)) /\ Reply
     \/ VsRelease /\ Rise
  /\ UNCHANGED <<writers, br_vars, arbiter, host>>

-----------------------------------------------------------------------------
(* The host. It uses `script`, `wanted` and `got` for either bridge. *)

Start(function) ==
  /\ function \notin using /\ ops < MaxOps
  /\ using' = using \cup {function} /\ ops' = ops + 1

End(function) == function \in using /\ using' = using \ {function} /\ UNCHANGED ops

Bridges == {"bridge", "vendor", "result"}

StartBridge ==
  /\ Start("bridge") /\ using \cap Bridges = {}
  /\ script' \in Transactions
  /\ wanted' = IF script'[1] = 1 THEN script'[4] + Radix * script'[5] ELSE 0
  /\ got' = <<>>
  /\ UNCHANGED <<flash, writers, br_vars, vs_vars, arbiter, wire>>

\* An octet into the OUT endpoint, one out of the IN endpoint: at any time.
Feed ==
  /\ "bridge" \in using /\ script # <<>> /\ rx = <<>>
  /\ rx' = <<Head(script)>> /\ script' = Tail(script)
  /\ UNCHANGED <<flash, writers, br, out_cnt, in_cnt, len_lo, boot, tx, vs_vars, arbiter,
                 wire, using, wanted, got, ops>>

Collect ==
  /\ "bridge" \in using /\ tx # <<>>
  /\ got' = got \o tx /\ tx' = <<>>
  /\ UNCHANGED <<flash, writers, br, out_cnt, in_cnt, len_lo, boot, rx, vs_vars, arbiter,
                 wire, using, script, wanted, ops>>

\* The host has all it waits for, and what it does next takes longer than the
\* bridge needs for the octets it still holds.
EndBridge ==
  /\ End("bridge") /\ script = <<>> /\ Len(got) = wanted
  /\ rx = <<>> /\ br = "CMD_IDLE"
  /\ UNCHANGED <<flash, writers, br_vars, vs_vars, arbiter, wire, script, wanted, got>>

\* An upload by one of the writers, after the flush of the last is withdrawn.
StartUpload ==
  /\ Start("upload")
  /\ \E i \in Writer : /\ offered' = [k \in Writer |-> IF k = i THEN 1 ELSE 0]
                       /\ waiting' = [k \in Writer |-> k = i]
  /\ flushes' = [k \in Writer |-> FALSE]
  /\ UNCHANGED <<flash, br_vars, vs_vars, arbiter, wire, script, wanted, got>>

\* The next byte, or the end of the image.
Offer(i) ==
  /\ "upload" \in using /\ offered[i] # 0 /\ ~waiting[i] /\ ~flushes[i]
  /\ IF offered[i] = Len(Image)
       THEN flushes' = [flushes EXCEPT ![i] = TRUE] /\ UNCHANGED <<offered, waiting>>
       ELSE /\ offered' = [offered EXCEPT ![i] = offered[i] + 1]
            /\ waiting' = [waiting EXCEPT ![i] = TRUE] /\ UNCHANGED flushes
  /\ UNCHANGED <<flash, br_vars, vs_vars, arbiter, wire, host>>

\* The writer sees the backing idle again.
EndUpload ==
  /\ End("upload") /\ (\E i \in Writer : flushes[i]) /\ state = "IDLE"
  /\ UNCHANGED <<flash, writers, br_vars, vs_vars, arbiter, wire, script, wanted, got>>

StartVendor ==
  /\ using \cap Bridges = {}
  /\ \/ /\ Start("vendor")
        /\ \E e \in Execs : Exec(e[2]) /\ script' = [k \in 1 .. e[1] |-> 0]
        /\ UNCHANGED <<wanted, got>>
     \/ /\ Start("result") /\ rlen # 0
        /\ Result
        /\ wanted' = rlen /\ got' = <<>> /\ UNCHANGED script
  /\ UNCHANGED <<flash, writers, br_vars, arbiter, wire>>

\* The stages of the two requests. A host asks for data until it has all.
VendorHost ==
  /\ \/ /\ "vendor" \in using /\ script # <<>>
        /\ ReceiveOctet /\ script' = Tail(script) /\ UNCHANGED <<using, wanted, got, ops>>
     \/ script = <<>> /\ StatusStarts /\ UNCHANGED host
     \/ StatusDone /\ End("vendor") /\ UNCHANGED <<script, wanted, got>>
     \/ Len(result) < wanted /\ DataRequested /\ UNCHANGED host
     \/ StreamOctet(wanted) /\ UNCHANGED host
     \/ /\ Len(result) >= wanted
        /\ ResultStatus /\ End("result") /\ got' = result /\ UNCHANGED <<script, wanted>>
  /\ UNCHANGED <<flash, writers, br_vars, arbiter, wire>>

Device == Arbitrate \/ FlashStep \/ DeviceStep \/ BridgeStep \/ VendorStep

HostGoesOn ==
  \/ Feed \/ Collect \/ EndBridge \/ VendorHost \/ EndUpload
  \/ \E i \in Writer : Offer(i)

HostStarts == StartBridge \/ StartUpload \/ StartVendor

\* One function at a time, or as many as it likes.
Next       == Device \/ HostGoesOn \/ (using = {} /\ HostStarts)
SharedNext == Device \/ HostGoesOn \/ HostStarts

\* The clock runs, internal writes end, and a host goes on with what it has begun.
Fairness ==
  /\ WF_vars(Arbitrate) /\ WF_vars(FlashStep) /\ WF_vars(DeviceStep)
  /\ WF_vars(BridgeStep) /\ WF_vars(VendorStep) /\ WF_vars(HostGoesOn)

Spec       == Init /\ [][Next]_vars /\ Fairness
SharedSpec == Init /\ [][SharedNext]_vars

-----------------------------------------------------------------------------
(* Safety: a chip-select frame is one participant's. Two in one frame make the
   flash execute neither's command: the grant has to outlive the pauses of a
   frame and nobody may leave chip select low behind. *)
OneOwner == Cardinality(owners) <= 1

(* How a frame can come to two participants when the host uses several functions
   at once: its owner pauses in it, the flash FSM for the writer's next byte or
   the serial bridge for its host, and the grant is given up; or the vendor
   bridge, which asks nobody, breaks into it. *)
Pauses(p) == IF p = 0 THEN state = "WRITE_NEXT" ELSE br \in {"DO_OUT", "DO_IN_RESP"}

GivenUp    == \E p \in {0, 1} : p \in owners /\ grant = p /\ grant' # p
BrokenInto == owners # {} /\ ~vs_active /\ vs_active'

(* Action property, several functions at once: HoldArbiter takes the grant from a
   participant with an open frame in such a pause only, never between two octets
   that are to follow each other. *)
GrantHeld == GivenUp => Pauses(grant)

(* Safety: the octets a host gets are those its own operation read from the
   bus, in order, none lost and none twice: on the IN endpoint of the serial
   bridge, and through the staging buffer and the packets of RESULT. *)
AnswersOwn ==
  /\ \A k \in 1 .. Len(got) : got[k] = k
  /\ using = {} => Len(got) = wanted

(* Safety: when an upload has ended the flash holds the image, whichever of
   the writers did it and whoever used the bus before. *)
UploadWhole ==
  "upload" \notin using /\ (\E i \in Writer : flushes[i])
    => \A n \in 1 .. Len(Image) : mem[FlashAddr(n - 1)] = Image[n]

(* Liveness: every operation a host starts comes to its end. Nobody keeps the
   bus from the others, and no bridge waits for an octet that went elsewhere. *)
OpsComplete == using # {} ~> using = {}

=============================================================================
