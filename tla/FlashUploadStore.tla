--------------------------- MODULE FlashUploadStore --------------------------
(***************************************************************************)
(* FlashUpload implements ImageStore: the latched byte and the page buffer *)
(* of the open program are what it has accepted and not stored yet.        *)
(***************************************************************************)
EXTENDS FlashUpload

CONSTANT None  \* no byte

ASSUME NoneAssumption == None \notin Byte

\* What the FSM has taken from the port in this upload.
Accepted == sent \ (IF w.valid THEN {w.addr} ELSE {})

Polling == state \in {"POLL_CMD", "POLL_READ", "POLL_CAPTURE", "POLL_RELEASE"}

\* data_latch holds a byte the device has not been given yet.
LatchLive ==
  /\ state \notin {"IDLE", "WRITE_NEXT"}
  /\ ~(state = "WRITE_RELEASE" /\ ~has_next)
  /\ ~(Polling /\ poll_return = "IDLE")

InOpenPage(a) ==
  HasAddress /\ Command(PAGE_PROGRAM) /\ a.blk = FrameBlock /\ a.pg = FramePage

Unstored(a) ==
  IF LatchLive /\ a = addr_latch THEN data_latch
  ELSE IF a \in Accepted /\ InOpenPage(a) THEN buf[a.off]
  ELSE None

\* The latched byte is waiting for its block's erase.
EraseDue ==
  \/ state \in {"WREN", "WREN_RELEASE"} /\ wren_target = "ERASE"
  \/ state \in {"ERASE_CMD", "ERASE_ADDR", "ERASE_RELEASE"}
  \/ state = "WRITE_RELEASE" /\ has_next /\ addr_latch.blk # current_block
  \/ Polling /\ poll_return = "WREN_ERASE"

ErasedBlocks ==
  {s.blk : s \in Accepted} \ (IF EraseDue THEN {addr_latch.blk} ELSE {})

Store == INSTANCE ImageStore WITH
  store   <- mem,
  pending <- [a \in Addr |-> Unstored(a)],
  fresh   <- ErasedBlocks

\* Every behaviour of the FSM and the device behind it, seen through the
\* mapping above, is a behaviour of ImageStore.
ImplementsStore == Store!Spec

=============================================================================
