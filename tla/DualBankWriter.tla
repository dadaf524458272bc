---------------------------- MODULE DualBankWriter ----------------------------
(***************************************************************************)
(* gateware/blocks/boot/dual_bank_writer.py: QspiFlash, QspiRam and        *)
(* BootHeader behind one port and one bus, with a writer on the port and   *)
(* the reload. ram_select chooses who has both; until the FLASH slot holds *)
(* the boot header, an upload to the PSRAM has to wait for BootHeader.     *)
(***************************************************************************)
EXTENDS QspiFlash, QspiRam, BootHeader, FiniteSets

CONSTANTS
  Payload(_),   \* the byte an image has at an address
  Contents,     \* what the FLASH may hold at first
  MaxBytes,     \* bound: bytes in an upload
  MaxUploads,   \* bound: uploads in a behaviour
  MaxResets     \* bound: USB bus resets

ASSUME UploadAssumption ==
  /\ \A a \in Addr : Payload(a) \in Byte
  /\ Contents \subseteq [Addr -> Byte]
  /\ MaxBytes \in Nat /\ MaxUploads \in Nat /\ MaxResets \in Nat

VARIABLES
  hdr,            \* the header FSM: "WAIT" or "RUN"
  header_done,
  ram_select,     \* of the port
  sent,           \* history: the addresses this upload has put on the port
  unchecked,      \* history: bytes for the FLASH since BootHeader last saw the header
  booted,         \* the reload has happened
  uploads, resets \* counters for the two bounds

flash_vars == <<fsm, device>>
port == <<w, flush, ram_select, sent, unchecked, uploads, resets>>
vars == <<flash_vars, ram_vars, bh_vars, hdr, header_done, port, booted>>

Init ==
  /\ DeviceInit(Contents) /\ FsmInit /\ RamInit /\ BhInit
  /\ hdr = "WAIT" /\ header_done = FALSE
  /\ w = [valid |-> FALSE, addr |-> AddrZero, data |-> 0]
  /\ flush = FALSE /\ ram_select = FALSE
  /\ sent = {} /\ unchecked = FALSE /\ uploads = 1 /\ resets = 0
  /\ booted = FALSE

ensuring == ram_select /\ ~header_done

\* The port and the flush go to one writer; the other's byte is not valid.
RamPort == [w EXCEPT !.valid = w.valid /\ ram_select /\ ~ensuring]

\* The device's chip select is the one the flip-flop passes it on from.
LatchBank ==
  /\ latch' = IF frame # <<>> /\ frame' = <<>> THEN target_bank ELSE latch
  /\ UNCHANGED <<ram, ram_regs, cnt, ram_chip, open_for>>

-----------------------------------------------------------------------------
(* Who has the bus. *)

FlashStep ==
  /\ ~ram_select
  /\ \/ TakesByte /\ w' = [w EXCEPT !.valid = FALSE]
     \/ WorksAlone /\ UNCHANGED w
  /\ LatchBank
  /\ UNCHANGED <<bh_vars, hdr, header_done, flush, ram_select, sent, unchecked, uploads, resets,
                 booted>>

RamStep ==
  /\ (ram_select /\ ~ensuring) \/ ram = "ARM_RAM"
  /\ \/ RamTakesByte(RamPort) /\ w' = [w EXCEPT !.valid = FALSE]
     \/ RamWorksAlone(RamPort, flush) /\ UNCHANGED w
  /\ UNCHANGED <<flash_vars, bh_vars, hdr, header_done, flush, ram_select, sent,
                 unchecked, uploads, resets, booted>>

HeaderStart ==
  /\ hdr = "WAIT" /\ ensuring /\ ram = "IDLE"
  /\ BhStart
  /\ hdr' = "RUN"
  /\ UNCHANGED <<fsm, ram_vars, header_done, port, booted>>

HeaderStep ==
  /\ hdr = "RUN" /\ ensuring
  /\ BhStep
  /\ LatchBank
  /\ UNCHANGED <<fsm, hdr, header_done, port, booted>>

HeaderEnd ==
  /\ hdr = "RUN" /\ BhDone
  /\ header_done' = TRUE
  /\ hdr' = "WAIT"
  /\ unchecked' = FALSE
  /\ UNCHANGED <<fsm, ram_vars, w, flush, ram_select, sent, uploads, resets, booted>>

DeviceStep ==
  /\ WriteEnds
  /\ UNCHANGED <<fsm, ram_vars, bh_vars, hdr, header_done, port, booted>>

-----------------------------------------------------------------------------
(* The writer: a sequential image for the slot, bytes in any order for the
   PSRAM. Nobody uses the port after an upload to the PSRAM. *)

Offer(a) ==
  /\ ~w.valid /\ ~flush
  /\ a \notin sent /\ Cardinality(sent) < MaxBytes
  /\ ~ram_select => Num(a) = Num(HeaderBase) + Cardinality(sent)
  /\ w' = [valid |-> TRUE, addr |-> a, data |-> Payload(a)]
  /\ sent' = sent \cup {a}
  /\ unchecked' = (unchecked \/ ~ram_select)
  /\ UNCHANGED <<flash_vars, ram_vars, bh_vars, hdr, header_done, flush, ram_select,
                 uploads, resets, booted>>

\* The end of the image is known while its last byte may still be waiting.
RaiseFlush ==
  /\ ~flush /\ sent # {}
  /\ flush' = TRUE
  /\ UNCHANGED <<flash_vars, ram_vars, bh_vars, hdr, header_done, w, ram_select, sent,
                 unchecked, uploads, resets, booted>>

BetweenUploads == ~w.valid /\ state = "IDLE" /\ ram = "IDLE"

NextUpload ==
  /\ flush /\ BetweenUploads /\ uploads < MaxUploads
  /\ flush' = FALSE /\ sent' = {}
  /\ uploads' = uploads + 1
  /\ UNCHANGED <<flash_vars, ram_vars, bh_vars, hdr, header_done, w, ram_select, unchecked, resets,
                 booted>>

\* Assumption: the bank is not changed under BootHeader, which the mux would cut
\* off, nor back to the FLASH without an upload to follow.
SelectBank ==
  /\ BetweenUploads
  /\ IF ram_select THEN ~ensuring /\ sent = {} ELSE sent = {} \/ flush
  /\ ram_select' = ~ram_select
  /\ UNCHANGED <<flash_vars, ram_vars, bh_vars, hdr, header_done, w, flush, sent, unchecked,
                 uploads, resets, booted>>

\* A USB bus reset. Assumption: not while the PSRAM writer is at work.
Clear ==
  /\ ram \in {"IDLE", "ARM_RAM"} /\ resets < MaxResets
  /\ header_done' = FALSE
  /\ resets' = resets + 1
  /\ UNCHANGED <<flash_vars, ram_vars, bh_vars, hdr, w, flush, ram_select, sent, unchecked, uploads,
                 booted>>

-----------------------------------------------------------------------------
arm == IF ram_select THEN boot_ready ELSE flush

\* No writer has driven the bus for the idle window, and no byte has waited.
Quiet ==
  /\ ~w.valid
  /\ state = "IDLE" \/ (state = "WRITE_NEXT" /\ ~flush)
  /\ ram = "IDLE" \/ (ram = "ARM_RAM" /\ target_bank = 1)
  /\ bh = "IDLE"

Boot ==
  /\ arm /\ Quiet
  /\ booted' = TRUE
  /\ UNCHANGED <<flash_vars, ram_vars, bh_vars, hdr, header_done, port>>

Next ==
  /\ ~booted
  /\ \/ FlashStep \/ RamStep \/ HeaderStart \/ HeaderStep \/ HeaderEnd \/ DeviceStep
     \/ \E a \in Addr : Offer(a)
     \/ RaiseFlush \/ NextUpload \/ SelectBank \/ Clear \/ Boot

\* The clock never stops, internal writes end, and the host falls silent.
Fairness ==
  /\ WF_vars(~booted /\ FlashStep) /\ WF_vars(~booted /\ RamStep)
  /\ WF_vars(~booted /\ (HeaderStart \/ HeaderStep \/ HeaderEnd))
  /\ WF_vars(~booted /\ DeviceStep) /\ WF_vars(~booted /\ Boot)

Spec == Init /\ [][Next]_vars /\ Fairness

-----------------------------------------------------------------------------

\* Every octet goes to the chip it is meant for: the flip-flop is on the PSRAM
\* through all of ram.py's bursts and on the FLASH through every frame of the
\* other two, whichever upload came before.
FrameToItsBank ==
  /\ ram \notin {"IDLE", "SWAP_ASSERT", "SWAP_RELEASE", "ARM_RAM"} => latch = 1
  /\ state # "IDLE" \/ bh # "IDLE" => latch = 0
  /\ frame = <<>> \/ ram_frame = <<>>

\* An erase or a program, the header's or the image's, finds the device idle and
\* write-enabled, whoever had the bus before.
CommandReady ==
  \A op \in {SECTOR_ERASE, BLOCK_ERASE, PAGE_PROGRAM} : Command(op) => wel /\ ~wip

\* The PSRAM is never selected for longer than it can go without a refresh, the
\* octet still to be sent included.
BurstBounded == open_for + OctetCycles <= TCEM

\* When the device is reconfigured the bank that was written holds the image and
\* no chip is busy or in a frame; for the PSRAM, in SPI mode, with the flip-flop
\* on the FLASH and the bank input on the PSRAM, so that the header is read first.
ReadyAtBoot ==
  booted =>
    /\ latch = 0 /\ frame = <<>> /\ ram_frame = <<>> /\ ~wip
    /\ target_bank = IF ram_select THEN 1 ELSE 0
    /\ \A a \in sent : Payload(a) = IF ram_select THEN psram[a] ELSE mem[a]
    /\ ram_select => ~quad

\* An image in the PSRAM is booted with the boot header in the FLASH slot, whatever
\* the slot held and whenever the bus was reset, unless an upload has put bytes on
\* the FLASH since BootHeader last looked: header_done outlives those.
HeaderAtBoot == booted /\ ram_select /\ ~unchecked => HeaderPresent

\* dual_bank_writer.py's docstring, without the exception: for a RAM transfer it
\* first ensures that the FLASH boot header is present in the slot. It does not
\* hold: MCDualBankStale.cfg.
HeaderEnsured == booted /\ ram_select => HeaderPresent

\* An upload to the PSRAM that is flushed is booted, whatever had to be erased
\* for the header and wherever the burst was when the flush came.
RamBoots == ram_select /\ flush /\ (w.valid \/ ram # "IDLE") ~> booted

=============================================================================
