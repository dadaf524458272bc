----------------------------- MODULE DFUHandler -----------------------------
(***************************************************************************)
(* gateware/blocks/usb/dfu.py and the flush latch of backends/dfu.py: DFU  *)
(* requests on the control endpoint, a FIFO for the data stage, and the    *)
(* address counter that turns what leaves the FIFO into a write stream.    *)
(*                                                                         *)
(* The control endpoint (LUNA's, external) hands over a setup packet, the  *)
(* data packets of an OUT data stage, and the request for the status       *)
(* stage, which may be answered NAK and is then repeated. The cycles of    *)
(* new_request, manifest and download_start are one step here: they follow *)
(* each other, and the first data packet is microseconds away.             *)
(***************************************************************************)
EXTENDS Integers, Sequences

CONSTANTS
  Octet,         \* the bytes of an image
  Areas,         \* base address of each alternate setting
  AddrSpace,     \* 2^24 in the gateware
  Depth,         \* octets the FIFO holds
  StatusSpace    \* free octets that let a status stage through

ASSUME DfuAssumption ==
  /\ Len(Areas) \in {1, 2}
  /\ AddrSpace \in Nat \ {0}
  /\ \A k \in DOMAIN Areas : Areas[k] \in 0 .. AddrSpace - 1
  /\ Depth \in Nat /\ StatusSpace \in 0 .. Depth

VARIABLES
  dfu_fsm,     \* FSM state
  setup,       \* the last setup packet: ours, request, length, value
  dfu_state,   \* "dfuIDLE" or "dfuDNLOAD_IDLE"
  area_sel,
  addr,
  fifo,        \* committed octets
  fill,        \* octets of a data packet that is not committed yet
  flushing     \* DfuBackend's latch

dfu == <<dfu_fsm, setup, dfu_state, area_sel, addr, fifo, fill, flushing>>

Requests  == {"SET_INTERFACE", "DFU_DETACH", "DFU_DNLOAD", "DFU_GETSTATUS"}

DfuInit ==
  /\ dfu_fsm = "IDLE"
  /\ setup = [ours |-> FALSE, request |-> "NONE", length |-> 0, value |-> 0]
  /\ dfu_state = "dfuIDLE" /\ area_sel = 0 /\ addr = 0
  /\ fifo = <<>> /\ fill = <<>> /\ flushing = FALSE

space_available == Depth - Len(fifo) - Len(fill)

-----------------------------------------------------------------------------
(* A setup packet. Every state but DISPATCH goes to DISPATCH for a request to
   this interface; the others leave the FSM where it is. *)
ReceiveSetup(s) ==
  /\ setup' = s
  /\ dfu_fsm' = IF s.ours THEN "DISPATCH" ELSE dfu_fsm
  /\ UNCHANGED <<dfu_state, area_sel, addr, fifo, fill, flushing>>

(* DISPATCH decodes whatever setup packet is there, and has no way out for a
   request it does not know: it waits for one that it does. *)
Decodes == dfu_fsm = "DISPATCH" /\ setup.request \in Requests

\* area_sel is as wide as the number of areas needs.
Dispatch ==
  /\ Decodes /\ setup.request # "DFU_DNLOAD"
  /\ dfu_fsm' = setup.request
  /\ area_sel' = IF setup.request = "SET_INTERFACE" THEN setup.value % Len(Areas)
                 ELSE area_sel
  /\ UNCHANGED <<setup, dfu_state, addr, fifo, fill, flushing>>

\* The first block of a download goes to the base of the area.
NextAddr == IF dfu_state = "dfuIDLE" THEN Areas[area_sel + 1] ELSE addr

\* Bug: the empty block does not ask for the flush.
NextFlushingNever == flushing /\ dfu_state # "dfuIDLE"

\* The empty block at the end asks for the flush, a fresh download withdraws it.
NextFlushing == setup.length = 0 \/ (flushing /\ dfu_state # "dfuIDLE")

DispatchDnload ==
  /\ Decodes /\ setup.request = "DFU_DNLOAD"
  /\ dfu_fsm' = "DFU_DNLOAD"
  /\ dfu_state' = IF setup.length > 0 THEN "dfuDNLOAD_IDLE" ELSE "dfuIDLE"
  /\ addr' = NextAddr
  /\ flushing' = NextFlushing
  /\ UNCHANGED <<setup, area_sel, fifo, fill>>

(* The octets of a data packet; a full FIFO does not take them. *)
ReceiveData(packet) ==
  /\ dfu_fsm = "DFU_DNLOAD"
  /\ fill' = fill \o SubSeq(packet, 1, IF Len(packet) < space_available
                                       THEN Len(packet) ELSE space_available)
  /\ UNCHANGED <<dfu_fsm, setup, dfu_state, area_sel, addr, fifo, flushing>>

\* The packet ended well: it is committed and acknowledged.
CommitPacket ==
  /\ dfu_fsm = "DFU_DNLOAD"
  /\ fifo' = fifo \o fill /\ fill' = <<>>
  /\ UNCHANGED <<dfu_fsm, setup, dfu_state, area_sel, addr, flushing>>

\* The packet was damaged: the host, not answered, sends it again.
DiscardPacket ==
  /\ dfu_fsm = "DFU_DNLOAD"
  /\ fill' = <<>>
  /\ UNCHANGED <<dfu_fsm, setup, dfu_state, area_sel, addr, fifo, flushing>>

\* Bug: one transfer more than there is room for.
StatusReadyFull == dfu_fsm = "DFU_DNLOAD" => Len(fifo) < Depth

\* Bug: a block that waits for the flash is not let through until all is written.
StatusReadyEmptyOnly == dfu_fsm = "DFU_DNLOAD" => fifo = <<>> /\ ~flushing

\* DNLOAD's status stage is answered NAK until a whole transfer has room.
StatusReady ==
  dfu_fsm = "DFU_DNLOAD" => fifo = <<>> \/ space_available >= StatusSpace

(* The status stage of a request this handler has claimed. *)
StatusStage ==
  /\ dfu_fsm \in Requests
  /\ StatusReady
  /\ dfu_fsm' = "IDLE"
  /\ UNCHANGED <<setup, dfu_state, area_sel, addr, fifo, fill, flushing>>

(* An octet leaves the FIFO for the flash port. *)
Deliver ==
  /\ fifo # <<>>
  /\ fifo' = Tail(fifo)
  /\ addr' = (addr + 1) % AddrSpace
  /\ UNCHANGED <<dfu_fsm, setup, dfu_state, area_sel, fill, flushing>>

=============================================================================
