----------------------------- MODULE BootSequence ------------------------------
(***************************************************************************)
(* From configuration to the choice between USB and the application: the   *)
(* FSM of top.py with its clients on the QSPI bus one after another, cycle *)
(* by cycle through the QSPI controller, then the serial number a host     *)
(* reads. The flash at the pins is external: it takes a bit in and gives   *)
(* one out as the clock rises, and looks at a frame as chip select does.   *)
(***************************************************************************)
EXTENDS BootClients, SerialNumber, SequencesExt


CONSTANTS
  Boards,        \* [source : {"uid", "page"}, ram : BOOLEAN,
                 \*  stay : SUBSET {"button", "we", "always"}]
  Uids, SecPages, Slots,   \* contents of the flash, as sequences of octets
  RES1,          \* cycles the flash takes to wake
  WLengths       \* lengths a host may ask for

ASSUME BootAssumption ==
  /\ Boards \subseteq [source : {"uid", "page"}, ram : BOOLEAN,
                      stay : SUBSET {"button", "we", "always"}]
  /\ {UidBytes, PageLen, ProbeLen} \subseteq Nat \ {0} /\ DummyBytes \in Nat
  /\ SettleCycles \in Nat /\ RES1 \in 0 .. SettleCycles
  /\ Uids \cup SecPages \cup Slots \cup {SyncWord, PoisonWord} \subseteq Seq(Nat)
  /\ Len(SyncWord) > 0 /\ Len(PoisonWord) = Len(SyncWord)

(* A bit is sampled in the middle of its time. It has to be back after the octet
   it ends has been accepted, and before the next bit is sampled. *)
ASSUME LatencyAssumption ==
  Latency \in Divisor - (Divisor + 1) \div 2 + 2 .. Divisor

\* The buffer is made for the identifier (serial/source.py).
ASSUME SerialAssumption ==
  /\ \A u \in Uids : Len(u) = UidBytes
  /\ 2 * UidBytes <= MaxLen
  /\ WLengths \subseteq Nat \ {0}

VARIABLES
  state, sel, por_boot,
  sync,             \* ButtonStaySource's synchroniser
  board,            \* what the gateware was built for
  uid, secpage, slot, wel, held,   \* what it finds: the flash, and the button
  bank,             \* the flip-flop that routes chip select
  awake,            \* cycles since the flash was woken, -1 before
  fr, clocked, nbits, heard,       \* the open frame: octets in, octets out, bits; who hears it
  frames,           \* history: the frames that are over
  consumed,         \* history: octets the client has taken
  received          \* what the host has got of the descriptor

top_vars  == <<state, sel, por_boot, sync>>
given     == <<board, uid, secpage, slot, wel, held>>
pin_vars  == <<bank, awake, fr, clocked, nbits, heard, frames>>
vars      == <<top_vars, given, pin_vars, consumed, received, ctl_vars, client_vars,
               text_vars, desc_vars>>

\* What no client of the board reads is left empty.
Init ==
  /\ board \in Boards
  /\ uid \in Uids
  /\ secpage \in IF board.source = "page" THEN SecPages ELSE {<<>>}
  /\ slot \in IF board.stay # {} THEN Slots ELSE {<<>>}
  /\ wel \in BOOLEAN
  /\ held \in IF "button" \in board.stay THEN BOOLEAN ELSE {FALSE}
  /\ bank \in IF board.ram THEN {"FLASH", "RAM"} ELSE {"FLASH"}
  /\ awake \in {-1, RES1}
  /\ state = IF board.ram THEN "SELECT-FLASH" ELSE "BOOT-READ"
  /\ sel = 1 /\ por_boot = FALSE /\ sync = <<FALSE, FALSE>>
  /\ fr = <<>> /\ clocked = 0 /\ nbits = 0 /\ heard = "FLASH" /\ frames = <<>>
  /\ consumed = 0 /\ received = <<>>
  /\ CtlInit /\ ClientInit /\ SerialInit

-----------------------------------------------------------------------------
(* The bus: whose octet the controller sees, and who takes the octet read. *)

auto_boot == board.stay # {}

Clients == <<"wake", "serial">> \o (IF auto_boot THEN <<"app">> ELSE <<>>)
                                \o (IF "we" \in board.stay THEN <<"we">> ELSE <<>>)

client == IF state = "BOOT-READ" /\ sel <= Len(Clients) THEN Clients[sel] ELSE "none"

FromUid  == client = "serial" /\ board.source = "uid"
FromPage == client = "serial" /\ board.source = "page"

Offered ==
  CASE state = "SELECT-FLASH"         -> Put(0)
    [] state = "SELECT-FLASH-RELEASE" -> Release
    [] client = "wake" -> WakeOctet
    [] FromUid         -> UidOctet
    [] FromPage        -> PageOctet
    [] client = "app"  -> AppOctet
    [] client = "we"   -> WeOctet
    [] OTHER -> Nothing

Ready ==
  CASE FromUid         -> UidReady(nibble = "LOW")
    [] FromPage        -> TRUE
    [] client = "app"  -> AppReady
    [] client = "we"   -> WeReady
    [] OTHER -> FALSE

accepted == Accepted(Offered, Ready)
taken    == octet_valid /\ Ready

ClientDone ==
  CASE client = "wake" -> wake = "DONE"
    [] FromUid         -> UidDone
    [] FromPage        -> page = "DONE"
    [] client = "app"  -> app = "DONE"
    [] client = "we"   -> we = "DONE"
    [] OTHER -> FALSE

ClientStep ==
  /\ IF client = "wake" THEN WakeStep(accepted) ELSE UNCHANGED wake_vars
  /\ IF FromUid THEN UidStep(accepted, taken) ELSE UNCHANGED uid_vars
  /\ IF FromPage THEN PageStep(accepted, ParserDone) ELSE UNCHANGED page_vars
  /\ IF client = "app" THEN AppStep(accepted, taken, Octet[3], board.ram) ELSE UNCHANGED app_vars
  /\ IF client = "we" THEN WeStep(accepted, taken, Octet[3]) ELSE UNCHANGED we_vars
  /\ CASE FromUid /\ octet_valid /\ UidForwards -> Encode(Octet[3])
       [] FromPage /\ taken                     -> Parse(Octet[3])
       [] OTHER                                 -> UNCHANGED text_vars
  /\ consumed' = IF ClientDone THEN 0 ELSE IF taken THEN consumed + 1 ELSE consumed

-----------------------------------------------------------------------------
(* The FSM of top.py. *)

Stay ==
  \/ AppStay
  \/ "we" \in board.stay /\ WeStay
  \/ "button" \in board.stay /\ sync[2]
  \/ "always" \in board.stay

\* Bug: only the slot decides.
DecideAppOnly == IF auto_boot /\ ~AppStay THEN "REBOOT-WAIT" ELSE "USB-CONNECT"

Decide == IF auto_boot /\ ~Stay THEN "REBOOT-WAIT" ELSE "USB-CONNECT"

TopStep ==
  /\ state' = CASE state = "SELECT-FLASH" /\ accepted -> "SELECT-FLASH-RELEASE"
                [] state = "SELECT-FLASH-RELEASE" /\ accepted -> "BOOT-READ"
                [] state = "BOOT-READ" /\ sel > Len(Clients) -> "BOOT-DECIDE"
                [] state = "BOOT-DECIDE" -> Decide
                [] OTHER -> state
  /\ sel' = IF ClientDone THEN sel + 1 ELSE sel
  /\ por_boot' = (por_boot \/ (state = "BOOT-DECIDE" /\ Decide = "REBOOT-WAIT"))
  /\ sync' = <<held, sync[1]>>

-----------------------------------------------------------------------------
(* The flash and the flip-flop outside the FPGA. *)

At(octets, k) == IF k \in 1 .. Len(octets) THEN octets[k] ELSE 255

Reply ==
  IF heard # "FLASH" \/ fr = <<>> THEN 255
  ELSE CASE fr[1] = UID_CMD           -> At(uid, clocked - DummyBytes + 1)
         [] fr[1] = SECURITY_READ_CMD -> At(secpage, clocked + 1)
         [] fr[1] = FAST_READ         -> At(slot, clocked + 1)
         [] fr[1] = READ_STATUS       -> IF wel THEN 2 ELSE 0
         [] OTHER                     -> 255

Bit == << <<Len(frames) + 1, clocked, Reply>>, nbits >>

Rises   == ClockRises(Offered, Ready)
OctetIn == Rises /\ nbits = Bits - 1
FrameEnds == cs /\ ~cs'

\* A frame that ends within an octet is no command.
Cut == -1

SelectsFlash == state \in {"SELECT-FLASH", "SELECT-FLASH-RELEASE", "BOOT-READ"}

PinStep ==
  /\ nbits' = IF FrameEnds THEN 0 ELSE IF Rises THEN (nbits + 1) % Bits ELSE nbits
  /\ fr' = IF FrameEnds THEN <<>>
           ELSE IF OctetIn /\ Offered.mode = "Put" THEN Append(fr, Offered.data) ELSE fr
  /\ clocked' = IF FrameEnds THEN 0
                ELSE IF OctetIn /\ Offered.mode = "Get" THEN clocked + 1 ELSE clocked
  /\ heard' = CASE ~cs /\ cs' /\ bank = "RAM" -> "RAM"
                [] ~cs /\ cs' /\ bank # "RAM" -> IF awake = RES1 THEN "FLASH" ELSE "ASLEEP"
                [] OTHER -> heard
  /\ frames' = IF FrameEnds
                 THEN Append(frames, [to |-> heard,
                                      sent |-> IF nbits = 0 THEN fr ELSE Append(fr, Cut)])
                 ELSE frames
  /\ bank' = IF FrameEnds /\ board.ram /\ SelectsFlash THEN "FLASH" ELSE bank
  /\ awake' = CASE FrameEnds /\ awake = -1 /\ heard = "ASLEEP" /\ fr = <<RELEASE_POWERDOWN>> -> 0
                [] awake \in 0 .. RES1 - 1 -> awake + 1
                [] OTHER -> awake

Tick ==
  /\ CtlStep(Offered, Ready, Bit)
  /\ ClientStep
  /\ TopStep
  /\ PinStep
  /\ UNCHANGED <<given, received, desc_vars>>

-----------------------------------------------------------------------------
(* The host asks once for the serial number, and for more of it until it has
   what it asked for or a packet is short. *)

Board == <<top_vars, given, pin_vars, consumed, ctl_vars, client_vars, text_vars>>

WantsMore == Len(received) < w_length /\ Len(received) % PacketSize = 0

HostAsks ==
  /\ state = "USB-CONNECT" /\ w_length = 0
  /\ \E n \in WLengths : GetDescriptor(n)
  /\ UNCHANGED <<Board, received>>

HostReads ==
  /\ \/ WantsMore /\ InToken /\ UNCHANGED received
     \/ SendOctet /\ received' = IF handler' = "CLAIM" THEN received \o packet' ELSE received
     \/ ~WantsMore /\ StatusStage /\ UNCHANGED received
  /\ UNCHANGED Board

Next == Tick \/ HostAsks \/ HostReads

Fairness == WF_vars(Tick) /\ WF_vars(HostReads)

Spec == Init /\ [][Next]_vars /\ Fairness

-----------------------------------------------------------------------------
(* What the boot is to do, from what the flash holds. *)

Holds(word) ==
  \E k \in 0 .. ProbeLen - Len(word) : \A n \in 1 .. Len(word) : At(slot, k + n) = word[n]

Bootable ==
  /\ auto_boot /\ "always" \notin board.stay
  /\ Holds(SyncWord) /\ ~(board.ram /\ Holds(PoisonWord))
  /\ "we" \in board.stay => ~wel
  /\ "button" \in board.stay => ~held

\* The least place at or after n where the page holds c; the page's end if none.
Place(c, n) == Min({k \in n .. PageLen : At(secpage, k) = c} \cup {PageLen + 1})

KeyEnds == {k \in Len(Key) .. PageLen :
              \A n \in 1 .. Len(Key) : At(secpage, k - Len(Key) + n) = Key[n]}

SerialOfPage ==
  IF KeyEnds = {} THEN <<>>
  ELSE LET opens  == Place(QUOTE, Place(COLON, Min(KeyEnds) + 1) + 1)
           closes == Place(QUOTE, opens + 1)
       IN [n \in 1 .. closes - opens - 1 |-> At(secpage, opens + n)]

\* The first n of a sequence, or all of it.
Upto(n, seq) == IF n < Len(seq) THEN SubSeq(seq, 1, n) ELSE seq

SerialOfFlash ==
  IF board.source = "page" THEN Upto(MaxLen, SerialOfPage)
  ELSE [n \in 1 .. 2 * UidBytes |->
          IF n % 2 = 1 THEN uid[(n + 1) \div 2] \div 16 ELSE uid[n \div 2] % 16]

\* The frames the flash is to see, and who may hear each.
Commands ==
  (IF board.ram THEN <<<<0>>>> ELSE <<>>)
    \o <<<<MODE_BIT_RESET>>, <<RELEASE_POWERDOWN>>>>
    \o <<IF board.source = "uid" THEN <<UID_CMD>> ELSE Prologue>>
    \o (IF auto_boot THEN <<<<FAST_READ, 0, 0, 0, 0>>>> ELSE <<>>)
    \o (IF "we" \in board.stay THEN <<<<READ_STATUS>>>> ELSE <<>>)

MayHear(command) ==
  CASE command = <<0>> -> {"FLASH", "ASLEEP", "RAM"}
    [] command \in {<<MODE_BIT_RESET>>, <<RELEASE_POWERDOWN>>} -> {"FLASH", "ASLEEP"}
    [] OTHER -> {"FLASH"}

(* Safety: the flash sees each client's command as a chip-select frame of its
   own, whole, once it is selected and awake. Nothing but the cycles it takes
   keeps a client that is done before its release of chip select has been
   accepted (flash_uid.py) from running on into the next client's frame. *)
FramesMeant ==
  /\ Len(frames) <= Len(Commands)
  /\ \A k \in 1 .. Len(frames) :
       frames[k].sent = Commands[k] /\ frames[k].to \in MayHear(Commands[k])
  /\ fr # <<>> => /\ Len(frames) < Len(Commands)
                  /\ IsPrefix(fr, Commands[Len(frames) + 1])

(* Safety: every octet the controller gives out was read in the frame of the
   client that takes it, whole, and is the next one: none is lost or late in
   the pipeline and the skid buffer when a client makes it wait. *)
FrameOf == (IF board.ram THEN 1 ELSE 0) + sel + 1

RepliesOwn ==
  octet_valid => client # "none" /\ Octet[1] = FrameOf /\ Octet[2] = consumed

(* Safety: the device reboots into the application exactly when the slot holds
   one and nothing asks it to stay. *)
DecisionRight ==
  /\ state = "REBOOT-WAIT" => Bootable
  /\ state = "USB-CONNECT" => ~Bootable
  /\ por_boot <=> state = "REBOOT-WAIT"

(* Safety: the descriptor a host reads is the serial number in the flash, as
   much of it as the host asked for, over however many packets that takes. *)
DescriptorOfFlash ==
  LET whole == DescriptorOf(SerialOfFlash)
      due   == Upto(w_length, whole)
  IN /\ IsPrefix(received, due)
     /\ w_length # 0 /\ handler = "IDLE" => Len(received) = Len(due)

(* Liveness: the boot comes to a decision, and a host that asks is answered. *)
Boots ==
  /\ <>(state \in {"REBOOT-WAIT", "USB-CONNECT"})
  /\ handler # "IDLE" ~> handler = "IDLE"

=============================================================================
