------------------------------ MODULE DfuUpload -----------------------------
(***************************************************************************)
(* The DFU datapath of backends/dfu.py end to end: a host that downloads   *)
(* an image, DFUHandler, the QspiFlash backing on its device, and the warm *)
(* boot. Unlike the Mass Storage path, nothing of the handler and of its   *)
(* FIFO is reset with the bus.                                             *)
(***************************************************************************)
EXTENDS DFUHandler

CONSTANTS
  Blocks, Pages, PageSize, Byte, BitAnd(_, _), Contents,  \* the flash
  Images,        \* what a host may download
  TransferSize,  \* wTransferSize of the functional descriptor
  MaxPacket0,    \* packet size of the control endpoint
  MaxDownloads,  \* bound: downloads a host starts
  MaxResets      \* bound: USB bus resets

VARIABLES
  mem, wel, wip, frame, buf, col,
  state, addr_latch, data_latch, current_block, block_valid, current_page,
  addr_count, wren_target, poll_return, has_next, status, qi,
  pending, booted,  \* Warmboot
  stage,            \* of the control transfer: "none", "data", "packet", "status"
  image,            \* what the host downloads
  acked,            \* octets of it the device has acknowledged
  ahead,            \* octets of the transfer that are still to be sent
  ended,            \* history: a download has been ended since the last bus reset
  downloads, resets \* counters for the two bounds

host_vars == <<stage, image, acked, ahead, ended, downloads, resets>>

BlockSize == Pages * PageSize

FlashAddr(n) ==
  [blk |-> n \div BlockSize, pg |-> (n \div PageSize) % Pages, off |-> n % PageSize]

PortW ==
  [valid |-> fifo # <<>>,
   addr  |-> FlashAddr(addr),
   data  |-> IF fifo = <<>> THEN 0 ELSE Head(fifo)]

Flash == INSTANCE QspiFlash WITH w <- PortW, flush <- flushing

flash_fsm == <<state, addr_latch, data_latch, current_block, block_valid, current_page,
               addr_count, wren_target, poll_return, has_next, status, qi>>
flash     == <<mem, wel, wip, frame, buf, col, flash_fsm>>
vars      == <<dfu, flash, pending, booted, host_vars>>

ASSUME DownloadAssumption ==
  /\ AddrSpace = Blocks * BlockSize
  /\ Images \subseteq Seq(Octet) /\ <<>> \notin Images
  /\ TransferSize \in Nat \ {0} /\ MaxPacket0 \in Nat \ {0}
  /\ TransferSize <= StatusSpace
  /\ MaxDownloads \in Nat /\ MaxResets \in Nat

ASSUME FlashAssumption ==
  /\ Flash!GeometryAssumption /\ Flash!ByteAssumption /\ Flash!AndAssumption
  /\ Octet \subseteq Byte /\ Contents \subseteq [Flash!Addr -> Byte]

Init ==
  /\ DfuInit
  /\ Flash!DeviceInit(Contents) /\ Flash!FsmInit
  /\ pending = FALSE /\ booted = FALSE
  /\ stage = "none" /\ image = <<>> /\ acked = 0 /\ ahead = 0
  /\ ended = FALSE /\ downloads = 0 /\ resets = 0

-----------------------------------------------------------------------------
(* The host: one control transfer at a time. *)

InDownload == acked < Len(image) \/ dfu_state = "dfuDNLOAD_IDLE"

Request(r, length, value) == [ours |-> TRUE, request |-> r, length |-> length, value |-> value]

\* Scheduling assumption: a host that starts again does so later than the octets
\* of the download before are written.
Finished == fifo = <<>> /\ state = "IDLE"

\* The first block of a download.
StartDownload ==
  /\ stage = "none" /\ ~InDownload /\ Finished
  /\ downloads < MaxDownloads
  /\ downloads' = downloads + 1
  /\ image' \in Images
  /\ acked' = 0
  /\ LET n == IF Len(image') < TransferSize THEN Len(image') ELSE TransferSize
     IN ahead' = n /\ ReceiveSetup(Request("DFU_DNLOAD", n, 0))
  /\ stage' = "data"
  /\ UNCHANGED <<flash, pending, booted, ended, resets>>

\* The blocks that follow it, and the empty one at the end.
NextBlock ==
  /\ stage = "none" /\ InDownload
  /\ LET left == Len(image) - acked
         n == IF left < TransferSize THEN left ELSE TransferSize
     IN /\ ahead' = n /\ ReceiveSetup(Request("DFU_DNLOAD", n, 0))
        /\ stage' = IF n = 0 THEN "status" ELSE "data"
        /\ ended' = (ended \/ n = 0)
  /\ UNCHANGED <<flash, pending, booted, image, acked, downloads, resets>>

\* GETSTATUS between blocks, SET_INTERFACE and DETACH, a request to another
\* part of the device, a DFU request that is not implemented (ABORT, CLRSTATUS).
Chatter(s) ==
  /\ stage = "none"
  /\ s.request # "DFU_GETSTATUS" => ~InDownload
  /\ ReceiveSetup(s)
  /\ stage' = IF s.ours /\ s.request \in Requests THEN "status" ELSE "none"
  /\ UNCHANGED <<flash, pending, booted, image, acked, ahead, ended, downloads, resets>>

\* A data packet of at most MaxPacket0 octets, and how it ended.
SendPacket ==
  /\ stage = "data"
  /\ ReceiveData(SubSeq(image, acked + 1,
                        acked + IF ahead < MaxPacket0 THEN ahead ELSE MaxPacket0))
  /\ stage' = "packet"
  /\ UNCHANGED <<flash, pending, booted, image, acked, ahead, ended, downloads, resets>>

PacketGood ==
  /\ stage = "packet"
  /\ CommitPacket
  /\ LET n == IF ahead < MaxPacket0 THEN ahead ELSE MaxPacket0
     IN acked' = acked + n /\ ahead' = ahead - n
  /\ stage' = IF ahead' = 0 THEN "status" ELSE "data"
  /\ UNCHANGED <<flash, pending, booted, image, ended, downloads, resets>>

PacketBad ==
  /\ stage = "packet"
  /\ DiscardPacket
  /\ stage' = "data"
  /\ UNCHANGED <<flash, pending, booted, image, acked, ahead, ended, downloads, resets>>

Acknowledged ==
  /\ stage = "status"
  /\ StatusStage
  /\ stage' = "none"
  /\ UNCHANGED <<flash, pending, booted, image, acked, ahead, ended, downloads, resets>>

Others ==
  {Request("DFU_GETSTATUS", 6, 0), Request("SET_INTERFACE", 0, 1),
   Request("DFU_DETACH", 0, 0), Request("DFU_ABORT", 0, 0),
   [ours |-> FALSE, request |-> "SET_ADDRESS", length |-> 0, value |-> 0]}

HostStep == NextBlock \/ SendPacket \/ PacketGood

-----------------------------------------------------------------------------
(* The gateware. *)

Tick == pending' = (pending \/ flushing)

Store == Deliver /\ Flash!TakesByte

HandlerStep ==
  /\ (Dispatch \/ DispatchDnload) /\ UNCHANGED flash
  /\ Tick
  /\ UNCHANGED <<booted, host_vars>>

FlashStep ==
  /\ Store \/ (Flash!WorksAlone /\ UNCHANGED dfu)
  /\ Tick
  /\ UNCHANGED <<booted, host_vars>>

DeviceStep == Flash!WriteEnds /\ UNCHANGED <<dfu, flash_fsm, pending, booted, host_vars>>

\* Bug: a write to the flash does not count as activity.
QuietFifoOnly == fifo = <<>>

\* No activity for the idle window: nothing left to write, nothing to say.
Quiet ==
  /\ fifo = <<>>
  /\ state = "IDLE" \/ (state = "WRITE_NEXT" /\ ~flushing)

\* Scheduling assumption: a host in the middle of a download or of a transfer
\* lets the device answer more often than once in an idle window.
Boot ==
  /\ pending /\ Quiet
  /\ stage = "none" /\ ~InDownload
  /\ booted' = TRUE
  /\ UNCHANGED <<dfu, flash, pending, host_vars>>

Next ==
  /\ ~booted
  /\ \/ StartDownload \/ HostStep \/ PacketBad \/ Acknowledged
     \/ \E s \in Others : Chatter(s)
     \/ HandlerStep \/ FlashStep \/ DeviceStep \/ Boot

\* Clocks run, internal writes end, a host that has begun a download sees it
\* through, repeats a transfer's status stage, and gets a packet across in the end.
Fairness ==
  /\ WF_vars(~booted /\ HandlerStep) /\ WF_vars(~booted /\ FlashStep)
  /\ WF_vars(~booted /\ DeviceStep)
  /\ WF_vars(~booted /\ Boot)
  /\ SF_vars(~booted /\ NextBlock) /\ WF_vars(~booted /\ SendPacket)
  /\ SF_vars(~booted /\ PacketGood) /\ WF_vars(~booted /\ Acknowledged)

Spec == Init /\ [][Next]_vars /\ Fairness

-----------------------------------------------------------------------------
(* A bus reset reaches the flash FSM and the reload trigger, not the handler,
   its FIFO or the flush latch. *)
BusReset ==
  /\ resets < MaxResets /\ ~booted
  /\ resets' = resets + 1
  /\ Flash!ResetFsm
  /\ pending' = FALSE
  /\ stage' = "none" /\ image' = <<>> /\ acked' = 0 /\ ahead' = 0
  /\ ended' = FALSE
  /\ UNCHANGED <<dfu, booted, downloads>>

ResetSpec == Init /\ [][Next \/ BusReset]_vars

-----------------------------------------------------------------------------

Base == Areas[area_sel + 1]

\* What is in the FIFO is the part of the image that has been acknowledged and
\* not written, in order and without a gap, and addr is where its first octet
\* belongs: no octet is lost in a full FIFO, taken twice after a damaged packet,
\* or sent to the place of another, however the drain and the packets interleave.
DownloadPlaced ==
  dfu_state = "dfuDNLOAD_IDLE" \/ fifo # <<>> =>
    /\ fifo = SubSeq(image, acked - Len(fifo) + 1, acked)
    /\ addr = Base + acked - Len(fifo)

Covers(n) == n \in Base .. Base + Len(image) - 1

\* When the device reboots, a download has been ended and every block it touches
\* holds the image and nothing else, with no write still running.
FlashedAtBoot ==
  booted =>
    /\ ended /\ ~wip
    /\ \A n \in 0 .. AddrSpace - 1 :
         (\E k \in 0 .. AddrSpace - 1 : Covers(k) /\ k \div BlockSize = n \div BlockSize) =>
           mem[FlashAddr(n)] = IF Covers(n) THEN image[n - Base + 1] ELSE Flash!Erased

\* A status stage is not answered NAK for ever: the FIFO drains whatever the
\* flash is doing, and the FSM is where it waits for the host.
Answered == stage = "status" ~> stage # "status"

\* A download that has been ended makes the device reboot once the host stops
\* talking to it.
Reboots == [](ended /\ ~InDownload /\ [](stage = "none") => <>booted)

\* A bus reset cancels a pending reload (top.py:289): the device reboots only
\* for a download that has been ended since.
ResetCancelsReload == booted => ended

=============================================================================
