---------------------------- MODULE FlashUpload -----------------------------
(***************************************************************************)
(* QspiFlash with a writer on its port. The writer's contract, which a     *)
(* sequential image satisfies, is in MayFollow and the flush actions.      *)
(***************************************************************************)
EXTENDS QspiFlash, FiniteSets

CONSTANTS
  Payload(_),   \* the bytes a writer may send to an address
  Contents,     \* what the array may hold before the first upload
  MaxBytes,     \* bound: bytes in an upload
  MaxSessions,  \* bound: uploads in a behaviour
  MaxResets     \* bound: USB bus resets in a behaviour

ASSUME WriterAssumption ==
  /\ \A a \in Addr : Payload(a) \subseteq Byte
  /\ Contents \subseteq [Addr -> Byte]
  /\ MaxBytes \in Nat
  /\ MaxSessions \in Nat
  /\ MaxResets \in Nat

VARIABLES
  image, sent,    \* history: what this upload has put on the port, and where
  session, resets \* history: counters for the two bounds

port == <<w, flush, image, sent>>
core == <<device, fsm, port>>
vars == <<core, session, resets>>

Blank == [a \in Addr |-> Erased]

\* Only the first byte of a page's run carries its address to the device, so
\* the runs a writer sends must be contiguous, and a block must not be come
\* back to: it would be erased again.
MayFollow(last, a) ==
  \/ sent = {}
  \/ PageOf(a) = PageOf(last) /\ a.off = last.off + 1
  \/ /\ \A s \in sent : PageOf(s) # PageOf(a)
     /\ a.blk = last.blk \/ \A s \in sent : s.blk # a.blk

Init ==
  /\ DeviceInit(Contents)
  /\ FsmInit
  /\ w = [valid |-> FALSE, addr |-> AddrZero, data |-> 0]
  /\ flush = FALSE
  /\ image = Blank /\ sent = {}
  /\ session = 1 /\ resets = 0

-----------------------------------------------------------------------------
\* A byte is put on the port, after the one at `last`.
Put(last, a, d) ==
  /\ a \notin sent /\ MayFollow(last, a)
  /\ w' = [valid |-> TRUE, addr |-> a, data |-> d]
  /\ image' = [image EXCEPT ![a] = d]
  /\ sent' = sent \cup {a}

Offer(a, d) ==
  /\ ~w.valid /\ ~flush
  /\ Put(addr_latch, a, d)
  /\ UNCHANGED <<device, fsm, flush>>

\* The end of the image is known while bytes of it may still be waiting.
RaiseFlush ==
  /\ ~flush
  /\ flush' = TRUE
  /\ UNCHANGED <<device, fsm, w, image, sent>>

Flushed == flush /\ ~w.valid /\ state = "IDLE"

\* The next upload starts once the last one is closed.
NextSession ==
  /\ Flushed
  /\ flush' = FALSE
  /\ image' = Blank /\ sent' = {}
  /\ UNCHANGED <<device, fsm, w>>

\* The byte behind the one that is taken may be on the port at once, with the
\* flush up or not: the FSM looks at it between bytes only.
TakeByte ==
  /\ TakesByte
  /\ \/ w' = [w EXCEPT !.valid = FALSE] /\ UNCHANGED <<image, sent>>
     \/ \E a \in Addr : \E d \in Payload(a) : Put(w.addr, a, d)
  /\ UNCHANGED flush

FsmStep == TakeByte \/ (WorksAlone /\ UNCHANGED port)

DeviceStep == WriteEnds /\ UNCHANGED <<fsm, port>>

WriterStep ==
  \/ \E a \in Addr : \E d \in Payload(a) : Offer(a, d)
  \/ RaiseFlush
  \/ NextSession

Next == FsmStep \/ WriterStep \/ DeviceStep

\* The counters, and the bounds on them.
Count ==
  /\ session' = IF flush /\ ~flush' THEN session + 1 ELSE session
  /\ session' <= MaxSessions /\ Cardinality(sent') <= MaxBytes
  /\ UNCHANGED resets

\* The clock never stops, and every internal erase or program ends.
Fairness == WF_core(FsmStep) /\ WF_core(DeviceStep)

Spec == Init /\ [][Next /\ Count]_vars /\ Fairness

-----------------------------------------------------------------------------
(* A USB bus reset, which does not reach the device; the host starts the upload
   again. *)
BusReset ==
  /\ resets < MaxResets
  /\ resets' = resets + 1
  /\ ResetFsm
  /\ w' = [w EXCEPT !.valid = FALSE]
  /\ flush' = FALSE
  /\ image' = Blank /\ sent' = {}
  /\ UNCHANGED session

ResetSpec == Init /\ [][(Next /\ Count) \/ BusReset]_vars

-----------------------------------------------------------------------------
\* Every register of the FSM and of the device stays within its width.
TypeOK ==
  /\ DeviceTypeOK
  /\ FsmTypeOK
  /\ w \in [valid : BOOLEAN, addr : Addr, data : Byte]
  /\ flush \in BOOLEAN
  /\ image \in [Addr -> Byte] /\ sent \subseteq Addr

ProtocolInv == TypeOK /\ FrameShape /\ NotBusy /\ LatchSet /\ OneReply

-----------------------------------------------------------------------------
\* Every erase and every page program the FSM puts on the wire is one the
\* device will carry out: write enable is latched and no earlier erase or
\* program is still running (flash.py's WREN before and poll after each).
CommandReady ==
  Command(BLOCK_ERASE) \/ Command(PAGE_PROGRAM) => wel /\ ~wip

\* Once a flushed upload has brought the FSM back to IDLE, every block the
\* upload touched holds exactly the image: each byte at its own address, and
\* nothing of the old contents between them.
FlushedImage ==
  Flushed =>
    /\ ~wip
    /\ \A a \in Addr : (\E s \in sent : s.blk = a.blk) => mem[a] = image[a]

\* The array changes only inside blocks the upload addresses.
OnlyUploadedBlocks ==
  [][\A a \in Addr : mem'[a] # mem[a] => \E s \in sent : s.blk = a.blk]_vars

\* A page program never lands on a cell that was not erased for it: flash.py's
\* "New block - erase first".
ProgramsErasedCells ==
  HasAddress /\ Command(PAGE_PROGRAM) =>
    \A o \in 0 .. PageSize - 1 :
      buf[o] # Erased => mem[[blk |-> FrameBlock, pg |-> FramePage, off |-> o]] = Erased

\* A flush returns the FSM to IDLE, with no byte left behind on the port: polling
\* ends, and no state waits for something that does not come.
FlushCompletes == flush ~> Flushed

=============================================================================
