----------------------------- MODULE QspiFlash ------------------------------
(***************************************************************************)
(* gateware/blocks/qspi/flash.py: the single-bank backing. It takes a      *)
(* stream of (address, byte) pairs, erases each 64 KiB block on first use, *)
(* keeps a page program open while bytes stay in one page, polls the       *)
(* status register after every erase and program, and closes the last page *)
(* when `flush` is seen with no byte waiting.                              *)
(*                                                                         *)
(* One action per FSM state; a send state's action is the cycle in which   *)
(* the QSPI controller accepts its octet. The device answers the octet at  *)
(* once, its status reply travels through `qi`. The port, w and flush, is  *)
(* an input: the actions read it and leave it to whoever drives it.        *)
(***************************************************************************)
EXTENDS SpiFlash

VARIABLES
  state,          \* FSM state
  addr_latch, data_latch,
  current_block, block_valid,
  current_page,
  addr_count,
  wren_target,    \* "ERASE" or "WRITE"
  poll_return,
  has_next,
  status,         \* bit 0 of the latched status register
  qi,             \* status replies on their way back
  w,              \* the write stream: valid, addr, data
  flush

regs == <<addr_latch, data_latch, current_block, block_valid, current_page,
          addr_count, wren_target, poll_return, has_next, status>>
fsm  == <<state, regs, qi>>

States == {"IDLE", "WREN", "WREN_RELEASE",
           "ERASE_CMD", "ERASE_ADDR", "ERASE_RELEASE",
           "WRITE_CMD", "WRITE_ADDR", "WRITE_DATA", "WRITE_NEXT", "WRITE_RELEASE",
           "POLL_CMD", "POLL_READ", "POLL_CAPTURE", "POLL_RELEASE"}

PageOf(a) == <<a.blk, a.pg>>
AddrZero  == [blk |-> 0, pg |-> 0, off |-> 0]

FsmInit ==
  /\ state = "IDLE"
  /\ addr_latch = AddrZero /\ data_latch = 0
  /\ current_block = 0 /\ block_valid = FALSE /\ current_page = <<0, 0>>
  /\ addr_count = 0 /\ wren_target = "ERASE" /\ poll_return = "WREN_ERASE"
  /\ has_next = FALSE /\ status = FALSE
  /\ qi = <<>>

FsmTypeOK ==
  /\ state \in States
  /\ addr_latch \in Addr /\ data_latch \in Byte
  /\ current_block \in 0 .. Blocks - 1 /\ block_valid \in BOOLEAN
  /\ current_page \in (0 .. Blocks - 1) \X (0 .. Pages - 1)
  /\ addr_count \in 0 .. 2
  /\ wren_target \in {"ERASE", "WRITE"}
  /\ poll_return \in {"WREN_ERASE", "WREN_WRITE", "IDLE"}
  /\ has_next \in BOOLEAN /\ status \in BOOLEAN
  /\ qi \in Seq(BOOLEAN)

-----------------------------------------------------------------------------
(* The FSM. *)

Accept ==
  /\ w.valid
  /\ addr_latch' = w.addr
  /\ data_latch' = w.data

Idle ==
  /\ state = "IDLE"
  /\ Accept
  /\ wren_target' = IF ~block_valid \/ w.addr.blk # current_block THEN "ERASE" ELSE "WRITE"
  /\ state' = "WREN"
  /\ UNCHANGED <<device, qi, current_block, block_valid, current_page, addr_count,
                 poll_return, has_next, status>>

Wren ==
  /\ state = "WREN"
  /\ ShiftIn(WRITE_ENABLE)
  /\ state' = "WREN_RELEASE"
  /\ UNCHANGED <<regs, qi>>

WrenRelease ==
  /\ state = "WREN_RELEASE"
  /\ ChipSelectRise
  /\ state' = IF wren_target = "ERASE" THEN "ERASE_CMD" ELSE "WRITE_CMD"
  /\ UNCHANGED <<regs, qi>>

\* ERASE_CMD and WRITE_CMD, followed by the three address bytes.
SendOpcode(from, op, to) ==
  /\ state = from
  /\ ShiftIn(op)
  /\ addr_count' = 0
  /\ state' = to
  /\ UNCHANGED <<addr_latch, data_latch, current_block, block_valid, current_page,
                 wren_target, poll_return, has_next, status, qi>>

EraseCmd == SendOpcode("ERASE_CMD", BLOCK_ERASE, "ERASE_ADDR")
WriteCmd == SendOpcode("WRITE_CMD", PAGE_PROGRAM, "WRITE_ADDR")

\* Bug: one address byte too many.
EraseAddrLong ==
  /\ state = "ERASE_ADDR"
  /\ ShiftIn(IF addr_count = 0 THEN addr_latch.blk ELSE 0)
  /\ IF addr_count = 3
       THEN state' = "ERASE_RELEASE" /\ addr_count' = addr_count
       ELSE state' = state /\ addr_count' = addr_count + 1
  /\ UNCHANGED <<addr_latch, data_latch, current_block, block_valid, current_page,
                 wren_target, poll_return, has_next, status, qi>>

\* Bug: erases the block of the last upload.
EraseAddrStale ==
  /\ state = "ERASE_ADDR"
  /\ ShiftIn(IF addr_count = 0 THEN current_block ELSE 0)
  /\ IF addr_count = 2
       THEN state' = "ERASE_RELEASE" /\ addr_count' = addr_count
       ELSE state' = state /\ addr_count' = addr_count + 1
  /\ UNCHANGED <<addr_latch, data_latch, current_block, block_valid, current_page,
                 wren_target, poll_return, has_next, status, qi>>

EraseAddr ==
  /\ state = "ERASE_ADDR"
  /\ ShiftIn(IF addr_count = 0 THEN addr_latch.blk ELSE 0)
  /\ IF addr_count = 2
       THEN state' = "ERASE_RELEASE" /\ addr_count' = addr_count
       ELSE state' = state /\ addr_count' = addr_count + 1
  /\ UNCHANGED <<addr_latch, data_latch, current_block, block_valid, current_page,
                 wren_target, poll_return, has_next, status, qi>>

EraseRelease ==
  /\ state = "ERASE_RELEASE"
  /\ ChipSelectRise
  /\ current_block' = addr_latch.blk
  /\ block_valid' = TRUE
  /\ poll_return' = "WREN_WRITE"
  /\ state' = "POLL_CMD"
  /\ UNCHANGED <<addr_latch, data_latch, current_page, addr_count, wren_target,
                 has_next, status, qi>>

WriteAddr ==
  /\ state = "WRITE_ADDR"
  /\ ShiftIn(CASE addr_count = 0 -> addr_latch.blk
               [] addr_count = 1 -> addr_latch.pg
               [] OTHER -> addr_latch.off)
  /\ IF addr_count = 2
       THEN /\ current_page' = PageOf(addr_latch)
            /\ state' = "WRITE_DATA" /\ addr_count' = addr_count
       ELSE /\ addr_count' = addr_count + 1
            /\ UNCHANGED <<state, current_page>>
  /\ UNCHANGED <<addr_latch, data_latch, current_block, block_valid,
                 wren_target, poll_return, has_next, status, qi>>

WriteData ==
  /\ state = "WRITE_DATA"
  /\ ShiftIn(data_latch)
  /\ state' = "WRITE_NEXT"
  /\ UNCHANGED <<regs, qi>>

\* Bug: the open page is kept while the block, not the page, is the same.
WriteNextByteSameBlock ==
  /\ state = "WRITE_NEXT"
  /\ Accept
  /\ has_next' = TRUE
  /\ state' = IF w.addr.blk = current_page[1] THEN "WRITE_DATA" ELSE "WRITE_RELEASE"
  /\ UNCHANGED <<device, qi, current_block, block_valid, current_page, addr_count,
                 wren_target, poll_return, status>>

\* A waiting byte has priority over flush.
WriteNextByte ==
  /\ state = "WRITE_NEXT"
  /\ Accept
  /\ has_next' = TRUE
  /\ state' = IF PageOf(w.addr) = current_page THEN "WRITE_DATA" ELSE "WRITE_RELEASE"
  /\ UNCHANGED <<device, qi, current_block, block_valid, current_page, addr_count,
                 wren_target, poll_return, status>>

\* Bug: has_next is left set by the byte before.
WriteNextFlushKeepsNext ==
  /\ state = "WRITE_NEXT"
  /\ ~w.valid /\ flush
  /\ state' = "WRITE_RELEASE"
  /\ UNCHANGED <<device, qi, regs>>

WriteNextFlush ==
  /\ state = "WRITE_NEXT"
  /\ ~w.valid /\ flush
  /\ has_next' = FALSE
  /\ state' = "WRITE_RELEASE"
  /\ UNCHANGED <<device, qi, addr_latch, data_latch, current_block, block_valid,
                 current_page, addr_count, wren_target, poll_return, status>>

\* Bug: the first page of a new block is programmed without its erase.
WriteReleaseNoErase ==
  /\ state = "WRITE_RELEASE"
  /\ ChipSelectRise
  /\ poll_return' = IF ~has_next THEN "IDLE" ELSE "WREN_WRITE"
  /\ state' = "POLL_CMD"
  /\ UNCHANGED <<addr_latch, data_latch, current_block, block_valid, current_page,
                 addr_count, wren_target, has_next, status, qi>>

WriteRelease ==
  /\ state = "WRITE_RELEASE"
  /\ ChipSelectRise
  /\ poll_return' = IF ~has_next THEN "IDLE"
                    ELSE IF addr_latch.blk # current_block THEN "WREN_ERASE"
                    ELSE "WREN_WRITE"
  /\ state' = "POLL_CMD"
  /\ UNCHANGED <<addr_latch, data_latch, current_block, block_valid, current_page,
                 addr_count, wren_target, has_next, status, qi>>

PollCmd ==
  /\ state = "POLL_CMD"
  /\ ShiftIn(READ_STATUS)
  /\ state' = "POLL_READ"
  /\ UNCHANGED <<regs, qi>>

\* The device samples its busy bit as it shifts the status octet out.
PollRead ==
  /\ state = "POLL_READ"
  /\ qi' = Append(qi, wip)
  /\ state' = "POLL_CAPTURE"
  /\ UNCHANGED <<device, regs>>

PollCapture ==
  /\ state = "POLL_CAPTURE"
  /\ qi # <<>>
  /\ status' = Head(qi)
  /\ qi' = Tail(qi)
  /\ state' = "POLL_RELEASE"
  /\ UNCHANGED <<device, addr_latch, data_latch, current_block, block_valid,
                 current_page, addr_count, wren_target, poll_return, has_next>>

\* Bug: the status is read and not looked at.
PollReleaseUnchecked ==
  /\ state = "POLL_RELEASE"
  /\ ChipSelectRise
  /\ IF poll_return = "IDLE"
       THEN state' = "IDLE" /\ block_valid' = FALSE /\ UNCHANGED wren_target
       ELSE /\ state' = "WREN"
            /\ wren_target' = IF poll_return = "WREN_ERASE" THEN "ERASE" ELSE "WRITE"
            /\ UNCHANGED block_valid
  /\ UNCHANGED <<addr_latch, data_latch, current_block, current_page, addr_count,
                 poll_return, has_next, status, qi>>

PollRelease ==
  /\ state = "POLL_RELEASE"
  /\ ChipSelectRise
  /\ CASE status ->
            /\ state' = "POLL_CMD"
            /\ UNCHANGED <<wren_target, block_valid>>
       [] ~status /\ poll_return = "IDLE" ->
            /\ state' = "IDLE"
            /\ block_valid' = FALSE
            /\ UNCHANGED wren_target
       [] OTHER ->
            /\ state' = "WREN"
            /\ wren_target' = IF poll_return = "WREN_ERASE" THEN "ERASE" ELSE "WRITE"
            /\ UNCHANGED block_valid
  /\ UNCHANGED <<addr_latch, data_latch, current_block, current_page, addr_count,
                 poll_return, has_next, status, qi>>

\* w.ready is high in the two states that take a byte from the port.
TakesByte == Idle \/ WriteNextByte

WorksAlone ==
  \/ Wren \/ WrenRelease
  \/ EraseCmd \/ EraseAddr \/ EraseRelease
  \/ WriteCmd \/ WriteAddr \/ WriteData
  \/ WriteNextFlush \/ WriteRelease
  \/ PollCmd \/ PollRead \/ PollCapture \/ PollRelease

(* The ResetInserter of backends/__init__.py: every register of the FSM goes
   back to its reset value; the QSPI controller and the device behind it are
   not reset. The octet in flight is taken as either sent or not begun. *)
ResetFsm ==
  /\ state' = "IDLE"
  /\ addr_latch' = AddrZero /\ data_latch' = 0
  /\ current_block' = 0 /\ block_valid' = FALSE /\ current_page' = <<0, 0>>
  /\ addr_count' = 0 /\ wren_target' = "ERASE" /\ poll_return' = "WREN_ERASE"
  /\ has_next' = FALSE /\ status' = FALSE
  /\ UNCHANGED <<device, qi>>

-----------------------------------------------------------------------------
(* The shape of the frame, the latch and the status reply in each state. *)

AtBoundary == {"IDLE", "WREN", "ERASE_CMD", "WRITE_CMD", "POLL_CMD"}
Addressed  == {"WRITE_DATA", "WRITE_NEXT", "WRITE_RELEASE"}
Enabled    == {"ERASE_CMD", "ERASE_ADDR", "ERASE_RELEASE",
               "WRITE_CMD", "WRITE_ADDR"} \cup Addressed
PollStates == {"POLL_CMD", "POLL_READ", "POLL_CAPTURE", "POLL_RELEASE"}

FrameShape ==
  /\ state \in AtBoundary => frame = <<>>
  /\ state = "WREN_RELEASE" => frame = <<WRITE_ENABLE>>
  /\ state = "ERASE_ADDR" => Len(frame) = addr_count + 1 /\ frame[1] = BLOCK_ERASE
  /\ state = "ERASE_RELEASE" => Len(frame) = 4 /\ frame[1] = BLOCK_ERASE
  /\ state = "WRITE_ADDR" => Len(frame) = addr_count + 1 /\ frame[1] = PAGE_PROGRAM
  /\ state \in Addressed => Len(frame) = 4 /\ frame[1] = PAGE_PROGRAM
  /\ state \in PollStates \ {"POLL_CMD"} => frame = <<READ_STATUS>>

\* Outside a poll the device is known to be idle: the last status octet said so.
NotBusy ==
  /\ state \notin PollStates => ~wip
  /\ state = "POLL_RELEASE" /\ ~status => ~wip

LatchSet == state \in Enabled => wel

OneReply ==
  /\ state # "POLL_CAPTURE" => qi = <<>>
  /\ state = "POLL_CAPTURE" => Len(qi) = 1 /\ (~qi[1] => ~wip)

=============================================================================
