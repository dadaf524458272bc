------------------------------ MODULE BootClients ------------------------------
(***************************************************************************)
(* The components that use the flash before USB comes up: FlashWake        *)
(* (qspi/flash_wake.py), FlashUID and SecurityPage (serial/), and the stay *)
(* sources NoValidApp and WriteEnable (staysource/). A client offers an    *)
(* octet, by its state; its step is a clock cycle in which the octet is    *)
(* accepted or not, and an octet read may be there for it.                 *)
(***************************************************************************)
EXTENDS QspiController

CONSTANTS
  SettleCycles,           \* FlashWake's settle_cycles
  UidBytes, DummyBytes,   \* FlashUID
  PageLen,                \* SecurityPage's read_len
  ProbeLen,               \* NoValidApp's probe_len
  SyncWord, PoisonWord    \* as sequences of octets, of the same length

VARIABLES
  wake, delay,                                       \* FlashWake
  uid_w, uid_r, write_count, read_count,             \* FlashUID: both FSMs
  page, send_idx, page_left,                         \* SecurityPage
  app, ai, cnt, window, sync_found, poison_found,    \* NoValidApp
  we, status_reg                                     \* WriteEnable

wake_vars == <<wake, delay>>
uid_vars  == <<uid_w, uid_r, write_count, read_count>>
page_vars == <<page, send_idx, page_left>>
app_vars  == <<app, ai, cnt, window, sync_found, poison_found>>
we_vars   == <<we, status_reg>>
client_vars == <<wake_vars, uid_vars, page_vars, app_vars, we_vars>>

UidTotal == UidBytes + DummyBytes

ClientInit ==
  /\ wake = "IDLE" /\ delay = 0
  /\ uid_w = "IDLE" /\ uid_r = "READ" /\ write_count = UidTotal - 1 /\ read_count = UidTotal - 1
  /\ page = "PROLOGUE" /\ send_idx = 0 /\ page_left = PageLen - 1
  /\ app = "IDLE" /\ ai = 0 /\ cnt = 0 /\ window = <<>>
  /\ sync_found = FALSE /\ poison_found = FALSE
  /\ we = "IDLE" /\ status_reg = 0

MODE_BIT_RESET    == 255
RELEASE_POWERDOWN == 171
UID_CMD           == 75
SECURITY_READ_CMD == 72
FAST_READ         == 11
READ_STATUS       == 5

\* On from a state when its octet is accepted.
On(state, accepted, next) ==
  IF accepted /\ state \in DOMAIN next THEN next[state] ELSE state

-----------------------------------------------------------------------------
(* FlashWake. *)

WakeOctet ==
  CASE wake = "MBR"  -> Put(MODE_BIT_RESET)
    [] wake = "WAKE" -> Put(RELEASE_POWERDOWN)
    [] wake \in {"MBR_RELEASE", "WAKE_RELEASE"} -> Release
    [] OTHER -> Nothing

WakeNext == [MBR |-> "MBR_RELEASE", MBR_RELEASE |-> "WAKE", WAKE |-> "WAKE_RELEASE",
             WAKE_RELEASE |-> "SETTLE"]

\* Bug: the flash is not given its time.
SettledAtOnce == TRUE

Settled == delay = 0

WakeStep(accepted) ==
  /\ wake' = CASE wake = "IDLE"   -> "MBR"
               [] wake = "SETTLE" -> IF Settled THEN "DONE" ELSE wake
               [] OTHER           -> On(wake, accepted, WakeNext)
  /\ delay' = IF wake = "WAKE_RELEASE" /\ accepted THEN SettleCycles
              ELSE IF wake = "SETTLE" /\ delay # 0 THEN delay - 1 ELSE delay

-----------------------------------------------------------------------------
(* FlashUID. The write path does not wait for the read path. *)

UidOctet ==
  CASE uid_w = "IDLE"    -> Put(UID_CMD)
    [] uid_w = "READ"    -> Get
    [] uid_w = "RELEASE" -> Release
    [] OTHER -> Nothing

UidForwards == uid_r = "READ" /\ read_count < UidBytes

\* Bug: the identifier's consumer holds the dummy octets too.
UidReadyAlways(sink) == uid_r = "READ" /\ sink

UidReady(sink) == uid_r = "READ" /\ (read_count < UidBytes => sink)

\* Bug: done with the last octet requested, not received.
UidDoneRequested == uid_w \in {"RELEASE", "DONE"}

UidDone == uid_r = "DONE"

UidStep(accepted, taken) ==
  /\ uid_w' = CASE uid_w = "IDLE" /\ accepted -> "READ"
                [] uid_w = "READ" /\ accepted /\ write_count = 0 -> "RELEASE"
                [] uid_w = "RELEASE" /\ accepted -> "DONE"
                [] OTHER -> uid_w
  /\ write_count' = IF uid_w = "READ" /\ accepted THEN (write_count - 1) % (UidTotal + 1)
                    ELSE write_count
  /\ uid_r' = IF taken /\ read_count = 0 THEN "DONE" ELSE uid_r
  /\ read_count' = IF taken THEN (read_count - 1) % (UidTotal + 1) ELSE read_count

-----------------------------------------------------------------------------
(* SecurityPage: five octets of prologue, then reads until the page is over or
   the parser has what it wants. *)

Prologue == <<SECURITY_READ_CMD, 0, 1, 0, 0>>

PageOctet ==
  CASE page = "PROLOGUE" -> Put(Prologue[send_idx + 1])
    [] page = "READ"     -> Get
    [] page = "RELEASE"  -> Release
    [] OTHER -> Nothing

PageStep(accepted, abort) ==
  /\ page' = CASE page = "PROLOGUE" /\ accepted /\ send_idx = Len(Prologue) - 1 -> "READ"
               [] page = "READ" /\ accepted /\ (page_left = 0 \/ abort) -> "RELEASE"
               [] page = "RELEASE" /\ accepted -> "DONE"
               [] OTHER -> page
  /\ send_idx' = IF page = "PROLOGUE" /\ accepted /\ send_idx < Len(Prologue) - 1
                   THEN send_idx + 1 ELSE send_idx
  /\ page_left' = IF page = "READ" /\ accepted THEN (page_left - 1) % (PageLen + 1)
                  ELSE page_left

-----------------------------------------------------------------------------
(* NoValidApp. The slot's address is three octets of no consequence here. *)

AppOctet ==
  CASE app = "CMD"                 -> Put(FAST_READ)
    [] app \in {"ADDR", "DUMMY"}   -> Put(0)
    [] app = "READ_PUSH"           -> Get
    [] app = "RELEASE"             -> Release
    [] OTHER -> Nothing

AppReady == app = "READ_CAP"

AppNext == [CMD |-> "ADDR", DUMMY |-> "READ_PUSH", READ_PUSH |-> "READ_CAP",
            RELEASE |-> "DONE"]

Size == Len(SyncWord)

\* Up to Size octets; the zeros of the register before them are left out.
Window(octet) ==
  LET seen == Append(window, octet)
  IN IF Len(seen) > Size THEN Tail(seen) ELSE seen

AppStep(accepted, taken, octet, poison) ==
  /\ app' = CASE app = "IDLE" -> "CMD"
              [] app = "ADDR" -> IF accepted /\ ai = 2 THEN "DUMMY" ELSE app
              [] app = "READ_CAP" -> IF ~taken THEN app
                                     ELSE IF cnt = 1 THEN "RELEASE" ELSE "READ_PUSH"
              [] OTHER -> On(app, accepted, AppNext)
  /\ ai' = CASE app = "CMD" /\ accepted -> 0
             [] app = "ADDR" /\ accepted /\ ai # 2 -> ai + 1
             [] OTHER -> ai
  /\ cnt' = CASE app = "DUMMY" /\ accepted -> ProbeLen
              [] taken /\ cnt # 1 -> cnt - 1
              [] OTHER -> cnt
  /\ window' = IF taken THEN Window(octet) ELSE window
  /\ sync_found' = (sync_found \/ (taken /\ window' = SyncWord))
  /\ poison_found' = (poison_found \/ (taken /\ poison /\ window' = PoisonWord))

AppStay == ~sync_found \/ poison_found

-----------------------------------------------------------------------------
(* WriteEnable. *)

WeOctet ==
  CASE we = "CMD"     -> Put(READ_STATUS)
    [] we = "READ"    -> Get
    [] we = "RELEASE" -> Release
    [] OTHER -> Nothing

WeReady == we = "CAPTURE"

WeNext == [CMD |-> "READ", READ |-> "CAPTURE", RELEASE |-> "DONE"]

WeStep(accepted, taken, octet) ==
  /\ we' = CASE we = "IDLE"    -> "CMD"
             [] we = "CAPTURE" -> IF taken THEN "RELEASE" ELSE we
             [] OTHER          -> On(we, accepted, WeNext)
  /\ status_reg' = IF taken THEN octet ELSE status_reg

\* WEL, bit 1 of the status register.
WeStay == (status_reg \div 2) % 2 = 1

=============================================================================
