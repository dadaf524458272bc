------------------------------ MODULE BootProofs ------------------------------
(***************************************************************************)
(* Theorems about the two ends of a session: BootSequence, from            *)
(* configuration to the decision between USB and the application, for any  *)
(* controller timing, any content of the flash and every board; and        *)
(* Reconfigure, the trigger by which the device leaves for the             *)
(* application.                                                            *)
(***************************************************************************)
EXTENDS BootSequence, Reconfigure, SequenceTheorems, WellFoundedInduction, TLAPS

-----------------------------------------------------------------------------
(* The boot as a program for the controller: in each state of the clients, how
   many frames are over, the command of the frame at hand, how many of its
   octets have been accepted, and how many reads. *)

RamFrames == IF board.ram THEN 1 ELSE 0

Sample == (Divisor + 1) \div 2

Over ==
  CASE state \in {"SELECT-FLASH", "SELECT-FLASH-RELEASE"} -> 0
    [] state = "BOOT-READ" /\ client = "wake" ->
         RamFrames + (CASE wake \in {"IDLE", "MBR", "MBR_RELEASE"} -> 0
                        [] wake \in {"WAKE", "WAKE_RELEASE"} -> 1
                        [] OTHER -> 2)
    [] FromUid /\ uid_w = "DONE"            -> FrameOf
    [] FromPage /\ page = "DONE"            -> FrameOf
    [] client = "app" /\ app = "DONE"       -> FrameOf
    [] client = "we" /\ we = "DONE"         -> FrameOf
    [] OTHER -> FrameOf - 1

Command == Commands[Over + 1]

PutCount ==
  CASE state = "SELECT-FLASH-RELEASE" -> 1
    [] client = "wake" /\ wake \in {"MBR_RELEASE", "WAKE_RELEASE"} -> 1
    [] FromUid /\ uid_w \in {"READ", "RELEASE"} -> 1
    [] FromPage /\ page = "PROLOGUE" -> send_idx
    [] FromPage /\ page \in {"READ", "RELEASE"} -> 5
    [] client = "app" /\ app = "ADDR" -> 1 + ai
    [] client = "app" /\ app = "DUMMY" -> 4
    [] client = "app" /\ app \in {"READ_PUSH", "READ_CAP", "RELEASE"} -> 5
    [] client = "we" /\ we \in {"READ", "CAPTURE", "RELEASE"} -> 1
    [] OTHER -> 0

CountedDown(total, left) == IF left = total THEN total ELSE total - 1 - left

GetCount ==
  CASE FromUid  -> CountedDown(UidTotal, write_count)
    [] FromPage -> CountedDown(PageLen, page_left)
    [] client = "app" /\ app = "READ_PUSH" -> ProbeLen - cnt
    [] client = "app" /\ app = "READ_CAP"  -> ProbeLen - cnt + 1
    [] client = "app" /\ app \in {"RELEASE", "DONE"} -> ProbeLen
    [] client = "we" /\ we \in {"CAPTURE", "RELEASE", "DONE"} -> 1
    [] OTHER -> 0

Putting   == Offered.mode = "Put"
Reading   == Offered = Get
Releasing == Offered = Release

(* What may be offered: the octets of the command, then reads, then the release
   that ends the frame. *)
Offers ==
  /\ Over \in 0 .. Len(Commands) /\ PutCount \in Nat /\ GetCount \in Nat
  /\ Offered = Nothing \/ Reading \/ Releasing \/ Offered = Put(Command[PutCount + 1])
  /\ Putting => PutCount < Len(Command) /\ GetCount = 0
  /\ Reading \/ Releasing => PutCount = Len(Command) /\ PutCount > 0
  /\ PutCount > 0 => PutCount <= Len(Command)
  /\ PutCount > 0 \/ Offered # Nothing => Over < Len(Commands) /\ SelectsFlash
  /\ Reading => Over = FrameOf - 1
  /\ GetCount > 0 \/ Reading => client \notin {"none", "wake"}
  /\ Releasing /\ Over = RamFrames + 1 => client = "wake" /\ wake = "WAKE_RELEASE"

(* A cycle of the program. *)
Same(p, g) == Over' = Over /\ PutCount' = PutCount + p /\ GetCount' = GetCount + g

Keeps      == ~accepted /\ Offered' = Offered /\ Same(0, 0)
Resumes    == Offered = Nothing /\ Same(0, 0)
PutTaken   == accepted /\ Putting /\ Same(1, 0) /\ Offered' # Nothing
GetTaken   == accepted /\ Reading /\ Same(0, 1)
FrameDone  == /\ accepted /\ Releasing /\ Offered' # Release
              /\ Over' = Over + 1 /\ PutCount' = 0 /\ GetCount' = GetCount
ClientOver == /\ ClientDone /\ Offered' # Release
              /\ PutCount' = 0 /\ GetCount' = 0 /\ consumed' = 0
              /\ \/ Offered = Nothing /\ PutCount = 0 /\ Over' = Over
                 \/ Releasing /\ ~cs /\ Offered' = Nothing /\ Over' = Over + 1

Follows ==
  /\ FrameOf' = FrameOf /\ (FromUid' <=> FromUid) /\ (FromPage' <=> FromPage)
  /\ ((client = "app")' <=> client = "app")
  /\ consumed' = IF taken THEN consumed + 1 ELSE consumed

ProgramStep ==
  \/ ~ClientDone /\ Follows /\ (Keeps \/ Resumes \/ PutTaken \/ GetTaken \/ FrameDone)
  \/ ClientOver

-----------------------------------------------------------------------------
(* The states of the clients. *)

TopTypes ==
  /\ board \in Boards /\ wel \in BOOLEAN /\ held \in BOOLEAN
  /\ {uid, secpage, slot} \subseteq Seq(Nat)
  /\ sel \in 1 .. Len(Clients) + 1
  /\ state \in {"SELECT-FLASH", "SELECT-FLASH-RELEASE"} => sel = 1 /\ board.ram
  /\ state \in {"SELECT-FLASH", "SELECT-FLASH-RELEASE", "BOOT-READ", "BOOT-DECIDE",
                "REBOOT-WAIT", "USB-CONNECT"}
  /\ state \in {"BOOT-DECIDE", "REBOOT-WAIT", "USB-CONNECT"} => sel = Len(Clients) + 1
  /\ consumed \in Nat

WakeTypes ==
  /\ wake \in {"IDLE", "MBR", "MBR_RELEASE", "WAKE", "WAKE_RELEASE", "SETTLE", "DONE"}
  /\ delay \in Nat
  /\ sel > 1 => wake = "DONE"
  /\ state \in {"SELECT-FLASH", "SELECT-FLASH-RELEASE"} => wake = "IDLE"

UidTypes ==
  /\ uid_w \in {"IDLE", "READ", "RELEASE", "DONE"}
  /\ uid_r \in {"READ", "DONE"}
  /\ write_count \in 0 .. UidTotal /\ read_count \in 0 .. UidTotal
  /\ uid_w = "IDLE" => write_count = UidTotal - 1
  /\ uid_w = "READ" => write_count < UidTotal
  /\ uid_w \in {"RELEASE", "DONE"} => write_count = UidTotal
  /\ ~FromUid /\ sel <= 2 => uid_w = "IDLE" /\ uid_r = "READ" /\ read_count = UidTotal - 1
  /\ FromUid => consumed = CountedDown(UidTotal, read_count)
  /\ FromUid /\ uid_r = "READ" => read_count < UidTotal
  /\ FromUid /\ uid_r = "DONE" => /\ read_count = UidTotal
                       /\ uid_w \in {"RELEASE", "DONE"} /\ (uid_w = "RELEASE" => ~cs)

PageTypes ==
  /\ page \in {"PROLOGUE", "READ", "RELEASE", "DONE"}
  /\ send_idx \in 0 .. 4 /\ page_left \in 0 .. PageLen
  /\ page = "PROLOGUE" => page_left = PageLen - 1
  /\ page = "READ" => page_left < PageLen
  /\ ~FromPage /\ sel <= 2 => page = "PROLOGUE" /\ send_idx = 0

AppTypes ==
  /\ app \in {"IDLE", "CMD", "ADDR", "DUMMY", "READ_PUSH", "READ_CAP", "RELEASE", "DONE"}
  /\ ai \in 0 .. 2
  /\ client # "app" /\ sel <= 3 => app = "IDLE"
  /\ client = "app" =>
       CASE app \in {"READ_PUSH", "READ_CAP"} -> cnt \in 1 .. ProbeLen /\ consumed = ProbeLen - cnt
         [] app \in {"RELEASE", "DONE"} -> consumed = ProbeLen
         [] OTHER -> consumed = 0

WeTypes ==
  /\ we \in {"IDLE", "CMD", "READ", "CAPTURE", "RELEASE", "DONE"}
  /\ client # "we" /\ sel <= 4 => we = "IDLE"
  /\ client = "we" => consumed = IF we \in {"RELEASE", "DONE"} THEN 1 ELSE 0

ClientInv ==
  /\ TopTypes /\ WakeTypes /\ UidTypes /\ PageTypes /\ AppTypes /\ WeTypes
  /\ client \in {"none", "wake"} => consumed = 0

-----------------------------------------------------------------------------
(* The Enframer and the pins. *)

BitOut   == started /\ Offered.chip = 1 /\ timer > Sample
OctetOut == BitOut /\ cycle = Bits - 1

PutsOut == PutCount + (IF OctetOut /\ Offered.mode = "Put" THEN 1 ELSE 0)
GetsOut == GetCount + (IF OctetOut /\ Reading THEN 1 ELSE 0)

PinInv ==
  /\ timer \in 0 .. Divisor /\ cycle \in 0 .. Bits - 1 /\ started \in BOOLEAN /\ cs \in BOOLEAN
  /\ nbits = IF BitOut THEN (cycle + 1) % Bits ELSE cycle
  /\ ~started \/ Offered.chip = 0 => cycle = 0
  /\ started => cs
  /\ started /\ Offered.chip = 0 => timer = 0
  /\ Releasing /\ timer > 0 => ~cs
  /\ PutCount > 0 /\ ~Releasing => started
  /\ PutCount = 0 /\ Offered.chip = 0 => ~cs

FrameTypes == [to : {"FLASH", "ASLEEP", "RAM"}, sent : Seq(Int)]

\* The frames that are over, and the one that is open.
FramesOver ==
  /\ frames \in Seq(FrameTypes)
  /\ Len(frames) = Over + (IF Releasing /\ ~cs THEN 1 ELSE 0)
  /\ \A k \in 1 .. Len(frames) :
       frames[k].sent = Commands[k] /\ frames[k].to \in MayHear(Commands[k])

FrameOpen ==
  /\ fr \in Seq(Nat)
  /\ cs => /\ Len(fr) = PutsOut /\ \A k \in 1 .. Len(fr) : fr[k] = Command[k]
           /\ clocked = GetsOut
  /\ ~cs => fr = <<>> /\ clocked = 0

FrameInv == FramesOver /\ FrameOpen

DeviceInv ==
  /\ bank \in {"FLASH", "RAM"} /\ heard \in {"FLASH", "ASLEEP", "RAM"}
  /\ ~board.ram => bank = "FLASH"
  /\ Len(frames) >= RamFrames => bank = "FLASH"
  /\ awake \in -1 .. RES1
  /\ cs /\ Len(frames) >= RamFrames => heard # "RAM"
  /\ cs /\ Len(frames) >= RamFrames /\ awake = -1 => heard = "ASLEEP"
  /\ cs /\ heard = "FLASH" => awake = RES1
  /\ cs /\ Len(frames) >= RamFrames + 2 => heard = "FLASH"
  /\ Len(frames) >= RamFrames + 2 =>
       \/ awake = RES1
       \/ /\ client = "wake" /\ awake >= 0
          /\ wake = "WAKE_RELEASE" \/ (wake = "SETTLE" /\ awake + delay >= SettleCycles)

-----------------------------------------------------------------------------
(* The bits on their way back. *)

InPipe(k) == Len(pipe[k]) = 2
InSkid    == skid # <<>> /\ Len(skid[1]) = 2
Flying    == InSkid \/ \E k \in 1 .. Latency : InPipe(k)

Value(n) ==
  CASE FromUid        -> At(uid, n - DummyBytes + 1)
    [] FromPage       -> At(secpage, n + 1)
    [] client = "app" -> At(slot, n + 1)
    [] OTHER          -> IF wel THEN 2 ELSE 0

Due == <<FrameOf, consumed, Value(consumed)>>

Age == IF timer > Sample THEN timer - Sample - 1 ELSE timer + Divisor - Sample

BitsOut == IF Reading THEN nbits ELSE 0

Samples == (Nat \X Nat \X Nat) \X Nat
Tags    == {NoFrame, Plain} \cup Samples

\* Where a bit can be, and that it is the next one.
PipeInv ==
  /\ pipe \in [1 .. Latency -> Tags] /\ skid \in Seq(Tags) /\ shreg \in Seq(Samples)
  /\ \A k \in 1 .. Latency : InPipe(k) =>
       /\ pipe[k] = <<Due, Len(shreg)>> /\ skid = <<>>
       /\ Age <= k - 1
       /\ \A j \in 1 .. Latency : InPipe(j) => j = k
  /\ InSkid => skid[1] = <<Due, Len(shreg)>>
  /\ \A k \in 2 .. Len(skid) : Len(skid[k]) # 2
  /\ sel = 1 \/ FromPage => skid = <<>>

\* The bits of the octet so far, and how many more there are.
OctetInv ==
  /\ Len(shreg) <= Bits - 1
  /\ \A k \in 1 .. Len(shreg) : shreg[k] = <<Due, k - 1>>
  /\ Flying => \/ GetsOut = consumed /\ BitsOut = Len(shreg) + 1
               \/ GetsOut = consumed + 1 /\ BitsOut = 0 /\ Len(shreg) = Bits - 1
  /\ ~Flying => GetsOut = consumed /\ BitsOut = Len(shreg)

\* When a bit is back.
BackInv ==
  /\ Reading /\ BitOut => InPipe(timer - Sample)
  /\ client = "serial" /\ Releasing /\ cs => timer = 0 /\ InPipe(Divisor - Sample + 1)
  /\ FromPage /\ Releasing =>
       \A k \in 1 .. Latency : InPipe(k) => k = (timer + 1) + (Divisor - Sample)
  /\ FromPage /\ page = "DONE" => ~Flying

BootInv == ClientInv /\ PinInv /\ FrameInv /\ DeviceInv /\ PipeInv /\ OctetInv /\ BackInv

-----------------------------------------------------------------------------
(* The lists of clients and of commands, and the octets offered. *)

LEMMA Timing ==
  /\ Divisor \in Nat /\ Latency \in Nat /\ Bits \in Nat \ {0} /\ Sample \in Nat
  /\ 1 < Sample /\ Sample < Divisor
  /\ Divisor - Sample + 1 < Latency /\ Latency <= Divisor
<1>1. Divisor \in Nat /\ Latency \in Nat \ {0} /\ Bits \in Nat \ {0} BY TimingAssumption
<1>2. Sample \in Nat /\ 2 * Sample <= Divisor + 1 /\ Divisor <= 2 * Sample
  BY <1>1 DEF Sample
<1>3. Latency >= (Divisor - Sample) + 2 /\ Latency <= Divisor
  BY <1>1, <1>2, LatencyAssumption DEF Sample
<1> QED BY <1>1, <1>2, <1>3

LEMMA BoardType ==
  ASSUME NEW b \in Boards
  PROVE  /\ b.source \in {"uid", "page"} /\ b.ram \in BOOLEAN
         /\ b.stay \subseteq {"button", "we", "always"}
         /\ "we" \in b.stay => b.stay # {}
BY BootAssumption

LEMMA Joined ==
  ASSUME NEW S, NEW s \in Seq(S), NEW t \in Seq(S)
  PROVE  /\ s \o t \in Seq(S) /\ Len(s \o t) = Len(s) + Len(t)
         /\ \A i \in 1 .. Len(s) : (s \o t)[i] = s[i]
         /\ \A i \in 1 .. Len(t) : (s \o t)[Len(s) + i] = t[i]
OBVIOUS

LEMMA ClientList ==
  ASSUME board \in Boards
  PROVE  /\ "we" \in board.stay => Len(Clients) = 4
         /\ auto_boot /\ "we" \notin board.stay => Len(Clients) = 3
         /\ ~auto_boot => Len(Clients) = 2
         /\ Clients[1] = "wake" /\ Clients[2] = "serial"
         /\ auto_boot => Clients[3] = "app"
         /\ "we" \in board.stay => auto_boot /\ Clients[4] = "we"
<1>1. "we" \in board.stay => auto_boot BY BoardType DEF auto_boot
<1> DEFINE N  == {"wake", "serial", "app", "we"}
           s0 == <<"wake", "serial">>
           s1 == IF auto_boot THEN <<"app">> ELSE <<>>
           s2 == IF "we" \in board.stay THEN <<"we">> ELSE <<>>
<1>2. s0 \in Seq(N) /\ Len(s0) = 2 /\ s0[1] = "wake" /\ s0[2] = "serial" OBVIOUS
<1>3. /\ s1 \in Seq(N)
      /\ auto_boot => Len(s1) = 1 /\ s1[1] = "app"
      /\ ~auto_boot => Len(s1) = 0
  <2>1. <<"app">> \in Seq(N) /\ Len(<<"app">>) = 1 /\ <<"app">>[1] = "app" OBVIOUS
  <2>2. <<>> \in Seq(N) /\ Len(<<>>) = 0 OBVIOUS
  <2> QED BY <2>1, <2>2
<1>4. /\ s2 \in Seq(N)
      /\ "we" \in board.stay => Len(s2) = 1 /\ s2[1] = "we"
      /\ "we" \notin board.stay => Len(s2) = 0
  <2>1. <<"we">> \in Seq(N) /\ Len(<<"we">>) = 1 /\ <<"we">>[1] = "we" OBVIOUS
  <2>2. <<>> \in Seq(N) /\ Len(<<>>) = 0 OBVIOUS
  <2> QED BY <2>1, <2>2
<1>5. Clients = (s0 \o s1) \o s2 BY DEF Clients
<1> HIDE DEF s0, s1, s2, N
<1>6. /\ s0 \o s1 \in Seq(N) /\ Len(s0 \o s1) = Len(s0) + Len(s1)
      /\ \A i \in 1 .. Len(s0) : (s0 \o s1)[i] = s0[i]
      /\ \A i \in 1 .. Len(s1) : (s0 \o s1)[Len(s0) + i] = s1[i]
  BY <1>2, <1>3, Joined
<1>7. /\ Len((s0 \o s1) \o s2) = Len(s0 \o s1) + Len(s2)
      /\ \A i \in 1 .. Len(s0 \o s1) : ((s0 \o s1) \o s2)[i] = (s0 \o s1)[i]
      /\ \A i \in 1 .. Len(s2) : ((s0 \o s1) \o s2)[Len(s0 \o s1) + i] = s2[i]
  BY <1>4, <1>6, Joined
<1> DEFINE r == s0 \o s1
<1>8. /\ auto_boot => Len(r) = 3 /\ r[1] = "wake" /\ r[2] = "serial" /\ r[3] = "app"
      /\ ~auto_boot => Len(r) = 2 /\ r[1] = "wake" /\ r[2] = "serial"
  BY <1>2, <1>3, <1>6
<1>9. /\ Len(Clients) = Len(r) + Len(s2)
      /\ \A i \in 1 .. Len(r) : Clients[i] = r[i]
      /\ \A i \in 1 .. Len(s2) : Clients[Len(r) + i] = s2[i]
  BY <1>5, <1>7
<1> HIDE DEF r
<1> QED BY <1>1, <1>4, <1>8, <1>9

\* The client by its place.
Places ==
  /\ sel \in {1, 2, 3, 4, 5} /\ sel <= Len(Clients) + 1 /\ Len(Clients) \in {2, 3, 4}
  /\ client = "wake" <=> state = "BOOT-READ" /\ sel = 1
  /\ client = "serial" <=> state = "BOOT-READ" /\ sel = 2
  /\ client = "app" <=> state = "BOOT-READ" /\ sel = 3 /\ sel <= Len(Clients)
  /\ client = "we" <=> state = "BOOT-READ" /\ sel = 4 /\ sel <= Len(Clients)
  /\ client \in {"wake", "serial", "app", "we", "none"}
  /\ client = "none" <=> state # "BOOT-READ" \/ sel > Len(Clients)

LEMMA ClientAt ==
  TopTypes => Places
<1> SUFFICES ASSUME board \in Boards, sel \in 1 .. Len(Clients) + 1 PROVE Places
  BY DEF TopTypes
<1>1. Len(Clients) \in {2, 3, 4} /\ sel \in {1, 2, 3, 4, 5} /\ sel <= Len(Clients) + 1
  <2>1. Len(Clients) \in {2, 3, 4} BY ClientList
  <2> DEFINE L == Len(Clients)
  <2>2. L \in {2, 3, 4} /\ sel \in 1 .. L + 1 BY <2>1
  <2> HIDE DEF L
  <2>3. sel \in {1, 2, 3, 4, 5} /\ sel <= L + 1 BY <2>2
  <2> QED BY <2>1, <2>3 DEF L
<1>2. /\ Clients[1] = "wake" /\ Clients[2] = "serial"
      /\ 3 <= Len(Clients) => Clients[3] = "app"
      /\ 4 <= Len(Clients) => Clients[4] = "we"
  BY ClientList
<1>3. client = IF state = "BOOT-READ" /\ sel <= Len(Clients) THEN Clients[sel] ELSE "none"
  BY DEF client
<1>4. CASE sel = 1 BY <1>1, <1>2, <1>3, <1>4 DEF Places
<1>5. CASE sel = 2 BY <1>1, <1>2, <1>3, <1>5 DEF Places
<1>6. CASE sel = 3 BY <1>1, <1>2, <1>3, <1>6 DEF Places
<1>7. CASE sel = 4 BY <1>1, <1>2, <1>3, <1>7 DEF Places
<1>8. CASE sel = 5 BY <1>1, <1>2, <1>3, <1>8 DEF Places
<1> QED BY <1>1, <1>4, <1>5, <1>6, <1>7, <1>8 DEF Places

\* The commands by their place.
LEMMA CommandList ==
  ASSUME board \in Boards
  PROVE  /\ Commands \in Seq(Seq(Nat))
         /\ RamFrames \in {0, 1} /\ Len(Commands) = RamFrames + Len(Clients) + 1
         /\ board.ram => Commands[1] = <<0>>
         /\ Commands[RamFrames + 1] = <<MODE_BIT_RESET>>
         /\ Commands[RamFrames + 2] = <<RELEASE_POWERDOWN>>
         /\ Commands[RamFrames + 3] = IF board.source = "uid" THEN <<UID_CMD>> ELSE Prologue
         /\ auto_boot => Commands[RamFrames + 4] = <<FAST_READ, 0, 0, 0, 0>>
         /\ "we" \in board.stay => Commands[RamFrames + 5] = <<READ_STATUS>>
<1> DEFINE C   == Seq(Nat)
           ser == IF board.source = "uid" THEN <<UID_CMD>> ELSE Prologue
           s0  == IF board.ram THEN <<<<0>>>> ELSE <<>>
           s1  == <<<<MODE_BIT_RESET>>, <<RELEASE_POWERDOWN>>>>
           s2  == <<ser>>
           s3  == IF auto_boot THEN <<<<FAST_READ, 0, 0, 0, 0>>>> ELSE <<>>
           s4  == IF "we" \in board.stay THEN <<<<READ_STATUS>>>> ELSE <<>>
<1>1. ser \in C
  BY DEF UID_CMD, Prologue, SECURITY_READ_CMD
<1>2. /\ <<0>> \in C /\ <<MODE_BIT_RESET>> \in C /\ <<RELEASE_POWERDOWN>> \in C
      /\ <<FAST_READ, 0, 0, 0, 0>> \in C /\ <<READ_STATUS>> \in C
  BY DEF MODE_BIT_RESET, RELEASE_POWERDOWN, FAST_READ, READ_STATUS
<1>3. Commands = (((s0 \o s1) \o s2) \o s3) \o s4 BY DEF Commands
<1>4. /\ "we" \in board.stay => auto_boot /\ Len(Clients) = 4
      /\ auto_boot /\ "we" \notin board.stay => Len(Clients) = 3
      /\ ~auto_boot => Len(Clients) = 2
  BY ClientList
<1> HIDE DEF C
<1>5. ASSUME NEW c \in C PROVE <<c>> \in Seq(C) /\ Len(<<c>>) = 1 /\ <<c>>[1] = c OBVIOUS
<1>6. <<>> \in Seq(C) /\ Len(<<>>) = 0 OBVIOUS
<1>7. /\ s0 \in Seq(C) /\ Len(s0) = RamFrames /\ RamFrames \in {0, 1}
      /\ board.ram => RamFrames = 1 /\ s0[1] = <<0>>
  BY <1>2, <1>5, <1>6 DEF RamFrames
<1>8. /\ s1 \in Seq(C) /\ Len(s1) = 2
      /\ s1[1] = <<MODE_BIT_RESET>> /\ s1[2] = <<RELEASE_POWERDOWN>>
  BY <1>2
<1>9. s2 \in Seq(C) /\ Len(s2) = 1 /\ s2[1] = ser BY <1>1, <1>5
<1>10. /\ s3 \in Seq(C) /\ (~auto_boot => Len(s3) = 0)
       /\ auto_boot => Len(s3) = 1 /\ s3[1] = <<FAST_READ, 0, 0, 0, 0>>
  BY <1>2, <1>5, <1>6
<1>11. /\ s4 \in Seq(C) /\ ("we" \notin board.stay => Len(s4) = 0)
       /\ "we" \in board.stay => Len(s4) = 1 /\ s4[1] = <<READ_STATUS>>
  BY <1>2, <1>5, <1>6
<1> HIDE DEF s0, s1, s2, s3, s4, ser
<1> DEFINE r1 == s0 \o s1
           r2 == r1 \o s2
           r3 == r2 \o s3
<1>12. ASSUME NEW s \in Seq(C), NEW t \in Seq(C)
       PROVE  /\ s \o t \in Seq(C) /\ Len(s \o t) = Len(s) + Len(t)
              /\ \A i \in 1 .. Len(s) : (s \o t)[i] = s[i]
              /\ \A i \in 1 .. Len(t) : (s \o t)[Len(s) + i] = t[i]
  BY Joined
<1>13. /\ s0 \in Seq(C) /\ s1 \in Seq(C) /\ s2 \in Seq(C) /\ s3 \in Seq(C) /\ s4 \in Seq(C)
       /\ r1 \in Seq(C) /\ r2 \in Seq(C) /\ r3 \in Seq(C)
  BY <1>7, <1>8, <1>9, <1>10, <1>11, <1>12
<1>14. /\ Len(r1) = Len(s0) + Len(s1)
       /\ \A i \in 1 .. Len(s0) : r1[i] = s0[i]
       /\ \A i \in 1 .. Len(s1) : r1[Len(s0) + i] = s1[i]
  BY <1>12, <1>13
<1>15. /\ Len(r2) = Len(r1) + Len(s2)
       /\ \A i \in 1 .. Len(r1) : r2[i] = r1[i]
       /\ \A i \in 1 .. Len(s2) : r2[Len(r1) + i] = s2[i]
  <2> HIDE DEF r1
  <2> QED BY <1>12, <1>13
<1>27. /\ Len(r3) = Len(r2) + Len(s3)
       /\ \A i \in 1 .. Len(r2) : r3[i] = r2[i]
       /\ \A i \in 1 .. Len(s3) : r3[Len(r2) + i] = s3[i]
  <2> HIDE DEF r2
  <2> QED BY <1>12, <1>13
<1>28. Commands = r3 \o s4 BY <1>3
<1> HIDE DEF r1, r2, r3
<1>16. /\ Commands \in Seq(C) /\ Len(Commands) = Len(r3) + Len(s4)
       /\ \A i \in 1 .. Len(r3) : Commands[i] = r3[i]
       /\ \A i \in 1 .. Len(s4) : Commands[Len(r3) + i] = s4[i]
  BY <1>28, <1>12, <1>13
<1>17. /\ Len(r1) = RamFrames + 2 /\ (board.ram => r1[1] = <<0>>)
       /\ r1[RamFrames + 1] = <<MODE_BIT_RESET>> /\ r1[RamFrames + 2] = <<RELEASE_POWERDOWN>>
  BY <1>7, <1>8, <1>14
<1>18. Len(r2) = RamFrames + 3 /\ r2[RamFrames + 3] = ser BY <1>7, <1>9, <1>15, <1>17
<1>19. \A i \in 1 .. RamFrames + 2 : r2[i] = r1[i] BY <1>7, <1>15, <1>17
<1>20. /\ auto_boot => Len(r3) = RamFrames + 4 /\ r3[RamFrames + 4] = <<FAST_READ, 0, 0, 0, 0>>
       /\ ~auto_boot => Len(r3) = RamFrames + 3
  BY <1>7, <1>10, <1>27, <1>18
<1>21. \A i \in 1 .. RamFrames + 3 : r3[i] = r2[i] BY <1>7, <1>27, <1>18
<1>22. /\ Len(Commands) = RamFrames + Len(Clients) + 1
       /\ "we" \in board.stay => Commands[RamFrames + 5] = <<READ_STATUS>>
  <2> DEFINE n  == Len(r3)
             m  == Len(s4)
             l  == Len(Clients)
             lc == Len(Commands)
  <2>1. n = IF auto_boot THEN RamFrames + 4 ELSE RamFrames + 3 BY <1>20
  <2>2. m = IF "we" \in board.stay THEN 1 ELSE 0 BY <1>11
  <2>3. lc = n + m BY <1>16
  <2>4. "we" \in board.stay => Commands[n + 1] = <<READ_STATUS>>
    BY <1>11, <1>16
  <2>5. RamFrames \in Nat BY <1>7
  <2>6. /\ "we" \in board.stay => auto_boot /\ l = 4
        /\ auto_boot /\ "we" \notin board.stay => l = 3
        /\ ~auto_boot => l = 2
    BY <1>4
  <2> HIDE DEF n, m, l, lc
  <2>7. lc = RamFrames + l + 1 BY <2>1, <2>2, <2>3, <2>5, <2>6
  <2>8. "we" \in board.stay => n + 1 = RamFrames + 5 BY <2>1, <2>5, <2>6
  <2> QED BY <2>4, <2>7, <2>8 DEF l, lc
<1>23. \A i \in 1 .. RamFrames + 3 : Commands[i] = r2[i]
  BY <1>7, <1>16, <1>20, <1>21
<1>24. auto_boot => Commands[RamFrames + 4] = <<FAST_READ, 0, 0, 0, 0>>
  BY <1>7, <1>16, <1>20
<1>25. /\ board.ram => Commands[1] = <<0>>
       /\ Commands[RamFrames + 1] = <<MODE_BIT_RESET>>
       /\ Commands[RamFrames + 2] = <<RELEASE_POWERDOWN>>
  BY <1>7, <1>17, <1>19, <1>23
<1>26. Commands[RamFrames + 3] = ser BY <1>7, <1>18, <1>23
<1> QED BY <1>7, <1>16, <1>22, <1>24, <1>25, <1>26 DEF ser, C

-----------------------------------------------------------------------------
(* What the bus sees of each client. *)

LEMMA NoneView ==
  client = "none" =>
    /\ ~FromUid /\ ~FromPage /\ ~Ready /\ ~ClientDone
    /\ Offered = IF state = "SELECT-FLASH" THEN Put(0)
                 ELSE IF state = "SELECT-FLASH-RELEASE" THEN Release ELSE Nothing
    /\ Over = IF state \in {"SELECT-FLASH", "SELECT-FLASH-RELEASE"} THEN 0 ELSE FrameOf - 1
    /\ PutCount = IF state = "SELECT-FLASH-RELEASE" THEN 1 ELSE 0
    /\ GetCount = 0
BY DEF FromUid, FromPage, Ready, ClientDone, Offered, Over, PutCount, GetCount

LEMMA WakeView ==
  TopTypes /\ client = "wake" =>
    /\ state = "BOOT-READ" /\ sel = 1 /\ FrameOf = RamFrames + 2
    /\ ~FromUid /\ ~FromPage /\ ~Ready
    /\ ClientDone <=> wake = "DONE"
    /\ Offered = WakeOctet
    /\ Over = RamFrames + (IF wake \in {"IDLE", "MBR", "MBR_RELEASE"} THEN 0
                           ELSE IF wake \in {"WAKE", "WAKE_RELEASE"} THEN 1 ELSE 2)
    /\ PutCount = IF wake \in {"MBR_RELEASE", "WAKE_RELEASE"} THEN 1 ELSE 0
    /\ GetCount = 0
BY ClientAt DEF Places, FromUid, FromPage, Ready, ClientDone, Offered, Over, PutCount, GetCount,
     FrameOf, RamFrames

LEMMA UidView ==
  TopTypes /\ FromUid =>
    /\ client = "serial" /\ state = "BOOT-READ" /\ sel = 2 /\ FrameOf = RamFrames + 3
    /\ board.source = "uid" /\ ~FromPage
    /\ Ready <=> UidReady(nibble = "LOW")
    /\ ClientDone <=> uid_r = "DONE"
    /\ Offered = UidOctet
    /\ Over = IF uid_w = "DONE" THEN FrameOf ELSE FrameOf - 1
    /\ PutCount = IF uid_w \in {"READ", "RELEASE"} THEN 1 ELSE 0
    /\ GetCount = CountedDown(UidTotal, write_count)
BY ClientAt DEF Places, FromUid, FromPage, Ready, ClientDone, UidDone, Offered, Over, PutCount, GetCount,
     FrameOf, RamFrames

LEMMA PageView ==
  TopTypes /\ FromPage =>
    /\ client = "serial" /\ state = "BOOT-READ" /\ sel = 2 /\ FrameOf = RamFrames + 3
    /\ board.source = "page" /\ ~FromUid
    /\ Ready
    /\ ClientDone <=> page = "DONE"
    /\ Offered = PageOctet
    /\ Over = IF page = "DONE" THEN FrameOf ELSE FrameOf - 1
    /\ PutCount = IF page = "PROLOGUE" THEN send_idx
                  ELSE IF page \in {"READ", "RELEASE"} THEN 5 ELSE 0
    /\ GetCount = CountedDown(PageLen, page_left)
BY ClientAt DEF Places, FromUid, FromPage, Ready, ClientDone, Offered, Over, PutCount, GetCount,
     FrameOf, RamFrames

LEMMA AppView ==
  TopTypes /\ client = "app" =>
    /\ state = "BOOT-READ" /\ sel = 3 /\ auto_boot /\ FrameOf = RamFrames + 4
    /\ ~FromUid /\ ~FromPage
    /\ Ready <=> app = "READ_CAP"
    /\ ClientDone <=> app = "DONE"
    /\ Offered = AppOctet
    /\ Over = IF app = "DONE" THEN FrameOf ELSE FrameOf - 1
    /\ PutCount = IF app = "ADDR" THEN 1 + ai ELSE IF app = "DUMMY" THEN 4
                  ELSE IF app \in {"READ_PUSH", "READ_CAP", "RELEASE"} THEN 5 ELSE 0
    /\ GetCount = IF app = "READ_PUSH" THEN ProbeLen - cnt
                  ELSE IF app = "READ_CAP" THEN (ProbeLen - cnt) + 1
                  ELSE IF app \in {"RELEASE", "DONE"} THEN ProbeLen ELSE 0
<1>1. TopTypes /\ client = "app" => state = "BOOT-READ" /\ sel = 3 /\ auto_boot
  <2> DEFINE L == Len(Clients)
  <2>1. TopTypes => (~auto_boot => L = 2) BY ClientList DEF TopTypes
  <2>2. TopTypes /\ client = "app" => state = "BOOT-READ" /\ sel = 3 /\ sel <= L BY ClientAt DEF Places
  <2> HIDE DEF L
  <2> QED BY <2>1, <2>2
<1> QED BY <1>1 DEF FromUid, FromPage, Ready, AppReady, ClientDone, Offered, Over, PutCount,
     GetCount, FrameOf, RamFrames

LEMMA WeView ==
  TopTypes /\ client = "we" =>
    /\ state = "BOOT-READ" /\ sel = 4 /\ "we" \in board.stay /\ FrameOf = RamFrames + 5
    /\ ~FromUid /\ ~FromPage
    /\ Ready <=> we = "CAPTURE"
    /\ ClientDone <=> we = "DONE"
    /\ Offered = WeOctet
    /\ Over = IF we = "DONE" THEN FrameOf ELSE FrameOf - 1
    /\ PutCount = IF we \in {"READ", "CAPTURE", "RELEASE"} THEN 1 ELSE 0
    /\ GetCount = IF we \in {"CAPTURE", "RELEASE", "DONE"} THEN 1 ELSE 0
<1>1. TopTypes /\ client = "we" => state = "BOOT-READ" /\ sel = 4 /\ "we" \in board.stay
  <2> DEFINE L == Len(Clients)
  <2>1. TopTypes => /\ auto_boot /\ "we" \notin board.stay => L = 3
                    /\ ~auto_boot => L = 2
    BY ClientList DEF TopTypes
  <2>2. TopTypes /\ client = "we" => state = "BOOT-READ" /\ sel = 4 /\ sel <= L BY ClientAt DEF Places
  <2> HIDE DEF L
  <2> QED BY <2>1, <2>2
<1> QED BY <1>1 DEF FromUid, FromPage, Ready, WeReady, ClientDone, Offered, Over, PutCount,
     GetCount, FrameOf, RamFrames

-----------------------------------------------------------------------------
(* What is offered. *)

LEMMA OctetsDiffer ==
  /\ \A d : /\ Put(d) # Get /\ Put(d) # Release /\ Put(d) # Nothing
            /\ Put(d).valid /\ Put(d).chip = 1 /\ Put(d).mode = "Put" /\ Put(d).data = d
  /\ Get # Release /\ Get # Nothing /\ Release # Nothing
  /\ Get.valid /\ Get.chip = 1 /\ Get.mode = "Get"
  /\ Release.valid /\ Release.chip = 0 /\ Release.mode = "Dummy"
  /\ ~Nothing.valid /\ Nothing.chip = 0 /\ Nothing.mode = "Dummy"
BY DEF Put, Get, Release, Nothing

\* The places of the commands, in the frames that are over and in those of the clients.
LEMMA CommandOf ==
  ASSUME TopTypes
  PROVE  /\ RamFrames \in {0, 1} /\ Len(Commands) \in Nat /\ Len(Commands) >= RamFrames + 3
         /\ Len(Commands) = RamFrames + Len(Clients) + 1
         /\ board.ram <=> RamFrames = 1
         /\ board.ram /\ Over = 0 => Command = <<0>>
         /\ Over = RamFrames => Command = <<MODE_BIT_RESET>>
         /\ Over = RamFrames + 1 => Command = <<RELEASE_POWERDOWN>>
         /\ Over = RamFrames + 2 => Command = IF board.source = "uid" THEN <<UID_CMD>> ELSE Prologue
         /\ auto_boot /\ Over = RamFrames + 3 => Command = <<FAST_READ, 0, 0, 0, 0>>
         /\ "we" \in board.stay /\ Over = RamFrames + 4 => Command = <<READ_STATUS>>
         /\ auto_boot => Len(Commands) >= RamFrames + 4
         /\ "we" \in board.stay => Len(Commands) >= RamFrames + 5
<1>1. board \in Boards BY DEF TopTypes
<1> DEFINE L  == Len(Clients)
           LC == Len(Commands)
<1>2. /\ L \in {2, 3, 4} /\ (auto_boot => L >= 3) /\ ("we" \in board.stay => L = 4)
      /\ LC = RamFrames + L + 1 /\ RamFrames \in {0, 1}
  BY <1>1, ClientList, CommandList
<1>3. board.ram <=> RamFrames = 1 BY <1>1 DEF RamFrames
<1>4. /\ board.ram /\ Over = 0 => Command = <<0>>
      /\ Over = RamFrames => Command = <<MODE_BIT_RESET>>
  BY <1>1, CommandList DEF Command
<1>5. /\ Over = RamFrames + 1 => Over + 1 = RamFrames + 2
      /\ Over = RamFrames + 2 => Over + 1 = RamFrames + 3
      /\ Over = RamFrames + 3 => Over + 1 = RamFrames + 4
      /\ Over = RamFrames + 4 => Over + 1 = RamFrames + 5
  BY <1>2
<1>7. Commands[RamFrames + 2] = <<RELEASE_POWERDOWN>> BY <1>1, CommandList
<1>8. Commands[RamFrames + 3] = IF board.source = "uid" THEN <<UID_CMD>> ELSE Prologue
  BY <1>1, CommandList
<1>9. auto_boot => Commands[RamFrames + 4] = <<FAST_READ, 0, 0, 0, 0>> BY <1>1, CommandList
<1>10. "we" \in board.stay => Commands[RamFrames + 5] = <<READ_STATUS>> BY <1>1, CommandList
<1>11. /\ Over = RamFrames + 1 => Command = <<RELEASE_POWERDOWN>>
       /\ Over = RamFrames + 2 => Command = IF board.source = "uid" THEN <<UID_CMD>> ELSE Prologue
       /\ auto_boot /\ Over = RamFrames + 3 => Command = <<FAST_READ, 0, 0, 0, 0>>
       /\ "we" \in board.stay /\ Over = RamFrames + 4 => Command = <<READ_STATUS>>
  BY <1>5, <1>7, <1>8, <1>9, <1>10, Zenon DEF Command
<1> HIDE DEF L, LC
<1>6. LC \in Nat /\ LC >= RamFrames + 3 /\ (auto_boot => LC >= RamFrames + 4)
      /\ ("we" \in board.stay => LC >= RamFrames + 5)
  BY <1>2
<1> QED BY <1>2, <1>3, <1>4, <1>11, <1>6 DEF L, LC

LEMMA OfferLengths ==
  /\ Len(<<0>>) = 1 /\ <<0>>[1] = 0
  /\ Len(<<MODE_BIT_RESET>>) = 1 /\ <<MODE_BIT_RESET>>[1] = MODE_BIT_RESET
  /\ Len(<<RELEASE_POWERDOWN>>) = 1 /\ <<RELEASE_POWERDOWN>>[1] = RELEASE_POWERDOWN
  /\ Len(<<UID_CMD>>) = 1 /\ <<UID_CMD>>[1] = UID_CMD
  /\ Len(Prologue) = 5
  /\ Len(<<FAST_READ, 0, 0, 0, 0>>) = 5
  /\ <<FAST_READ, 0, 0, 0, 0>>[1] = FAST_READ
  /\ \A k \in 2 .. 5 : <<FAST_READ, 0, 0, 0, 0>>[k] = 0
  /\ Len(<<READ_STATUS>>) = 1 /\ <<READ_STATUS>>[1] = READ_STATUS
BY DEF Prologue

\* One of the clients, or none.
LEMMA ClientsCovered ==
  TopTypes => client = "none" \/ client = "wake" \/ FromUid \/ FromPage \/ client = "app" \/ client = "we"
<1>1. TopTypes => board.source \in {"uid", "page"} BY BoardType DEF TopTypes
<1> QED BY <1>1, ClientAt DEF Places, FromUid, FromPage

LEMMA OffersNothing ==
  ASSUME Len(Commands) \in Nat, Over \in Nat, Over <= Len(Commands), Offered = Nothing,
         PutCount \in Nat, GetCount \in Nat,
         PutCount > 0 => Over < Len(Commands) /\ SelectsFlash /\ PutCount <= Len(Command),
         GetCount > 0 => client \notin {"none", "wake"}
  PROVE  Offers
BY OctetsDiffer DEF Offers, Putting, Reading, Releasing

LEMMA OffersPut ==
  ASSUME Len(Commands) \in Nat, Over \in Nat, Over < Len(Commands), SelectsFlash,
         Offered = Put(Command[PutCount + 1]),
         Len(Command) \in Nat, PutCount \in Nat, PutCount < Len(Command), GetCount = 0
  PROVE  Offers
BY OctetsDiffer DEF Offers, Putting, Reading, Releasing

LEMMA OffersGet ==
  ASSUME Len(Commands) \in Nat, Over \in Nat, Over < Len(Commands), SelectsFlash,
         Offered = Get, Len(Command) \in Nat \ {0}, PutCount = Len(Command), GetCount \in Nat,
         Over = FrameOf - 1, client \notin {"none", "wake"}
  PROVE  Offers
BY OctetsDiffer DEF Offers, Putting, Reading, Releasing

LEMMA OffersRelease ==
  ASSUME Len(Commands) \in Nat, Over \in Nat, Over < Len(Commands), SelectsFlash,
         Offered = Release, Len(Command) \in Nat \ {0}, PutCount = Len(Command), GetCount \in Nat,
         GetCount > 0 => client \notin {"none", "wake"},
         Over = RamFrames + 1 => client = "wake" /\ wake = "WAKE_RELEASE"
  PROVE  Offers
BY OctetsDiffer DEF Offers, Putting, Reading, Releasing

LEMMA OffersHold ==
  ClientInv => Offers
<1> SUFFICES ASSUME ClientInv PROVE Offers
  OBVIOUS
<1>0. TopTypes /\ WakeTypes /\ UidTypes /\ PageTypes /\ AppTypes /\ WeTypes BY DEF ClientInv
<1> DEFINE R  == RamFrames
           LC == Len(Commands)
<1>1. R \in {0, 1} /\ LC \in Nat /\ LC >= R + 3 /\ (board.ram <=> R = 1)
  BY <1>0, CommandOf
<1>2. CASE client = "none"
  <2>1. CASE state = "SELECT-FLASH"
    <3>1. /\ Offered = Put(0) /\ Over = 0 /\ PutCount = 0 /\ GetCount = 0 /\ R = 1
          /\ Command = <<0>> /\ SelectsFlash
      BY <1>0, <1>1, <1>2, <2>1, NoneView, CommandOf DEF TopTypes, SelectsFlash
    <3>2. Offered = Put(Command[PutCount + 1]) /\ Len(Command) = 1
      BY <3>1, OfferLengths
    <3> QED BY <1>1, <3>1, <3>2, OffersPut
  <2>2. CASE state = "SELECT-FLASH-RELEASE"
    <3>1. /\ Offered = Release /\ Over = 0 /\ PutCount = 1 /\ GetCount = 0 /\ R = 1
          /\ Command = <<0>> /\ SelectsFlash
      BY <1>0, <1>1, <1>2, <2>2, NoneView, CommandOf DEF TopTypes, SelectsFlash
    <3>2. Len(Command) = 1
      BY <3>1, OfferLengths
    <3> QED BY <1>1, <3>1, <3>2, OffersRelease
  <2>3. CASE state \notin {"SELECT-FLASH", "SELECT-FLASH-RELEASE"}
    <3>1. Offered = Nothing /\ Over = FrameOf - 1 /\ PutCount = 0 /\ GetCount = 0
      BY <1>2, <2>3, NoneView
    <3>2. Over = LC
      <4> DEFINE L == Len(Clients)
      <4>1. sel = L + 1 /\ L \in {2, 3, 4} BY <1>0, <1>2, <2>3, ClientAt DEF Places, TopTypes
      <4>2. LC = R + L + 1 BY <1>0, CommandOf
      <4> HIDE DEF L
      <4> QED BY <1>1, <4>1, <4>2, <3>1 DEF FrameOf, RamFrames
    <3> QED BY <1>1, <3>1, <3>2, OffersNothing
  <2> QED BY <2>1, <2>2, <2>3
<1>3. CASE client = "wake"
  <2>1. /\ Offered = WakeOctet /\ GetCount = 0 /\ SelectsFlash
        /\ Over = R + (IF wake \in {"IDLE", "MBR", "MBR_RELEASE"} THEN 0
                       ELSE IF wake \in {"WAKE", "WAKE_RELEASE"} THEN 1 ELSE 2)
        /\ PutCount = IF wake \in {"MBR_RELEASE", "WAKE_RELEASE"} THEN 1 ELSE 0
    BY <1>0, <1>3, WakeView DEF SelectsFlash
  <2>2. /\ wake \in {"IDLE", "MBR", "MBR_RELEASE"} => Command = <<MODE_BIT_RESET>>
        /\ wake \in {"WAKE", "WAKE_RELEASE"} => Command = <<RELEASE_POWERDOWN>>
    BY <1>0, <1>1, <2>1, CommandOf
  <2>3. CASE wake = "MBR"
    <3>1. Offered = Put(Command[PutCount + 1]) /\ Len(Command) = 1 /\ PutCount = 0 /\ Over = R
      BY <1>1, <2>1, <2>2, <2>3, OfferLengths DEF WakeOctet
    <3> QED BY <1>1, <2>1, <3>1, OffersPut
  <2>4. CASE wake = "WAKE"
    <3>1. Offered = Put(Command[PutCount + 1]) /\ Len(Command) = 1 /\ PutCount = 0 /\ Over = R + 1
      BY <1>1, <2>1, <2>2, <2>4, OfferLengths DEF WakeOctet
    <3> QED BY <1>1, <2>1, <3>1, OffersPut
  <2>5. CASE wake = "MBR_RELEASE"
    <3>1. Offered = Release /\ Len(Command) = 1 /\ PutCount = 1 /\ Over = R
      BY <1>1, <2>1, <2>2, <2>5, OfferLengths DEF WakeOctet
    <3> QED BY <1>1, <2>1, <3>1, OffersRelease
  <2>6. CASE wake = "WAKE_RELEASE"
    <3>1. Offered = Release /\ Len(Command) = 1 /\ PutCount = 1 /\ Over = R + 1
      BY <1>1, <2>1, <2>2, <2>6, OfferLengths DEF WakeOctet
    <3> QED BY <1>1, <1>3, <2>1, <2>6, <3>1, OffersRelease
  <2>7. CASE wake \in {"IDLE", "SETTLE", "DONE"}
    <3>1. Offered = Nothing /\ PutCount = 0 /\ Over \in {R, R + 2}
      BY <1>1, <2>1, <2>7 DEF WakeOctet
    <3> QED BY <1>1, <2>1, <3>1, OffersNothing
  <2> QED BY <1>0, <2>3, <2>4, <2>5, <2>6, <2>7 DEF WakeTypes
<1>4. CASE FromUid
  <2>1. /\ Offered = UidOctet /\ SelectsFlash /\ client = "serial"
        /\ FrameOf = R + 3
        /\ Over = IF uid_w = "DONE" THEN R + 3 ELSE R + 2
        /\ PutCount = IF uid_w \in {"READ", "RELEASE"} THEN 1 ELSE 0
        /\ GetCount = CountedDown(UidTotal, write_count)
        /\ board.source = "uid"
    BY <1>0, <1>1, <1>4, UidView DEF SelectsFlash
  <2>2. uid_w # "DONE" => Command = <<UID_CMD>>
    BY <1>0, <2>1, CommandOf
  <2>3. GetCount \in Nat /\ (uid_w = "IDLE" => GetCount = 0)
    BY <1>0, <2>1, BootAssumption DEF UidTypes, CountedDown, UidTotal
  <2>4. CASE uid_w = "IDLE"
    <3>1. Offered = Put(Command[PutCount + 1]) /\ Len(Command) = 1 /\ PutCount = 0 /\ Over = R + 2
      BY <2>1, <2>2, <2>4, OfferLengths DEF UidOctet
    <3> QED BY <1>1, <2>1, <2>3, <2>4, <3>1, OffersPut
  <2>5. CASE uid_w = "READ"
    <3>1. Offered = Get /\ Len(Command) = 1 /\ PutCount = 1 /\ Over = R + 2
      BY <2>1, <2>2, <2>5, OfferLengths DEF UidOctet
    <3> QED BY <1>1, <2>1, <2>3, <3>1, OffersGet
  <2>6. CASE uid_w = "RELEASE"
    <3>1. Offered = Release /\ Len(Command) = 1 /\ PutCount = 1 /\ Over = R + 2
      BY <2>1, <2>2, <2>6, OfferLengths DEF UidOctet
    <3> QED BY <1>1, <2>1, <2>3, <3>1, OffersRelease
  <2>7. CASE uid_w = "DONE"
    <3>1. Offered = Nothing /\ PutCount = 0 /\ Over = R + 3
      BY <2>1, <2>7 DEF UidOctet
    <3> QED BY <1>1, <2>1, <2>3, <3>1, OffersNothing
  <2> QED BY <1>0, <2>4, <2>5, <2>6, <2>7 DEF UidTypes
<1>5. CASE FromPage
  <2>1. /\ Offered = PageOctet /\ SelectsFlash /\ client = "serial"
        /\ FrameOf = R + 3
        /\ Over = IF page = "DONE" THEN R + 3 ELSE R + 2
        /\ PutCount = IF page = "PROLOGUE" THEN send_idx
                      ELSE IF page \in {"READ", "RELEASE"} THEN 5 ELSE 0
        /\ GetCount = CountedDown(PageLen, page_left)
        /\ board.source = "page"
    BY <1>0, <1>1, <1>5, PageView DEF SelectsFlash
  <2>2. page # "DONE" => Command = Prologue /\ Len(Command) = 5
    <3>1. page # "DONE" => Command = Prologue BY <1>0, <2>1, CommandOf
    <3> QED BY <3>1, OfferLengths
  <2>3. GetCount \in Nat /\ (page = "PROLOGUE" => GetCount = 0)
    BY <1>0, <2>1, BootAssumption DEF PageTypes, CountedDown
  <2>4. CASE page = "PROLOGUE"
    <3>1. Offered = Put(Command[PutCount + 1]) /\ PutCount \in 0 .. 4 /\ Over = R + 2
      BY <1>0, <2>1, <2>2, <2>4 DEF PageOctet, PageTypes
    <3> QED BY <1>1, <2>1, <2>2, <2>3, <2>4, <3>1, OffersPut
  <2>5. CASE page = "READ"
    <3>1. Offered = Get /\ PutCount = 5 /\ Over = R + 2
      BY <2>1, <2>2, <2>5 DEF PageOctet
    <3> QED BY <1>1, <2>1, <2>2, <2>3, <2>5, <3>1, OffersGet
  <2>6. CASE page = "RELEASE"
    <3>1. Offered = Release /\ PutCount = 5 /\ Over = R + 2
      BY <2>1, <2>2, <2>6 DEF PageOctet
    <3> QED BY <1>1, <2>1, <2>2, <2>3, <2>6, <3>1, OffersRelease
  <2>7. CASE page = "DONE"
    <3>1. Offered = Nothing /\ PutCount = 0 /\ Over = R + 3
      BY <2>1, <2>7 DEF PageOctet
    <3> QED BY <1>1, <2>1, <2>3, <3>1, OffersNothing
  <2> QED BY <1>0, <2>4, <2>5, <2>6, <2>7 DEF PageTypes
<1>6. CASE client = "app"
  <2>1. /\ Offered = AppOctet /\ SelectsFlash /\ auto_boot
        /\ FrameOf = R + 4
        /\ Over = IF app = "DONE" THEN R + 4 ELSE R + 3
        /\ PutCount = IF app = "ADDR" THEN 1 + ai ELSE IF app = "DUMMY" THEN 4
                      ELSE IF app \in {"READ_PUSH", "READ_CAP", "RELEASE"} THEN 5 ELSE 0
        /\ GetCount = IF app = "READ_PUSH" THEN ProbeLen - cnt
                      ELSE IF app = "READ_CAP" THEN (ProbeLen - cnt) + 1
                      ELSE IF app \in {"RELEASE", "DONE"} THEN ProbeLen ELSE 0
    BY <1>0, <1>1, <1>6, AppView DEF SelectsFlash
  <2>2. app # "DONE" => Command = <<FAST_READ, 0, 0, 0, 0>>
    BY <1>0, <2>1, CommandOf
  <2>3. GetCount \in Nat
    BY <1>0, <1>6, <2>1, BootAssumption DEF AppTypes
  <2>4. LC >= R + 4 BY <1>0, <2>1, CommandOf
  <2>5. CASE app = "CMD"
    <3>1. Offered = Put(Command[PutCount + 1]) /\ Len(Command) = 5 /\ PutCount = 0 /\ Over = R + 3
      BY <2>1, <2>2, <2>5, OfferLengths DEF AppOctet
    <3> QED BY <1>1, <2>1, <2>4, <2>5, <3>1, OffersPut
  <2>6. CASE app \in {"ADDR", "DUMMY"}
    <3>1. PutCount \in 1 .. 4 /\ Over = R + 3 /\ Offered = Put(0) /\ Len(Command) = 5 /\ GetCount = 0
      BY <1>0, <2>1, <2>2, <2>6, OfferLengths DEF AppOctet, AppTypes
    <3>2. Command[PutCount + 1] = 0
      <4>1. PutCount + 1 \in 2 .. 5 BY <3>1
      <4> QED BY <2>2, <2>6, <4>1, OfferLengths
    <3>3. Offered = Put(Command[PutCount + 1]) BY <3>1, <3>2
    <3> QED BY <1>1, <2>1, <2>4, <3>1, <3>3, OffersPut
  <2>7. CASE app = "READ_PUSH"
    <3>1. Offered = Get /\ Len(Command) = 5 /\ PutCount = 5 /\ Over = R + 3
      BY <2>1, <2>2, <2>7, OfferLengths DEF AppOctet
    <3> QED BY <1>1, <1>6, <2>1, <2>3, <2>4, <3>1, OffersGet
  <2>8. CASE app = "RELEASE"
    <3>1. Offered = Release /\ Len(Command) = 5 /\ PutCount = 5 /\ Over = R + 3
      BY <2>1, <2>2, <2>8, OfferLengths DEF AppOctet
    <3> QED BY <1>1, <1>6, <2>1, <2>3, <2>4, <3>1, OffersRelease
  <2>9. CASE app = "READ_CAP"
    <3>1. Offered = Nothing /\ Len(Command) = 5 /\ PutCount = 5 /\ Over = R + 3
      BY <2>1, <2>2, <2>9, OfferLengths DEF AppOctet
    <3> QED BY <1>1, <1>6, <2>1, <2>3, <2>4, <3>1, OffersNothing
  <2>10. CASE app \in {"IDLE", "DONE"}
    <3>1. Offered = Nothing /\ PutCount = 0 /\ Over \in {R + 3, R + 4}
      BY <1>1, <2>1, <2>10 DEF AppOctet
    <3> QED BY <1>1, <1>6, <2>1, <2>3, <2>4, <3>1, OffersNothing
  <2> QED BY <1>0, <2>5, <2>6, <2>7, <2>8, <2>9, <2>10 DEF AppTypes
<1>7. CASE client = "we"
  <2>1. /\ Offered = WeOctet /\ SelectsFlash /\ "we" \in board.stay
        /\ FrameOf = R + 5
        /\ Over = IF we = "DONE" THEN R + 5 ELSE R + 4
        /\ PutCount = IF we \in {"READ", "CAPTURE", "RELEASE"} THEN 1 ELSE 0
        /\ GetCount = IF we \in {"CAPTURE", "RELEASE", "DONE"} THEN 1 ELSE 0
    BY <1>0, <1>1, <1>7, WeView DEF SelectsFlash
  <2>2. we # "DONE" => Command = <<READ_STATUS>>
    BY <1>0, <2>1, CommandOf
  <2>3. GetCount \in Nat
    BY <2>1
  <2>4. LC >= R + 5 BY <1>0, <2>1, CommandOf
  <2>5. CASE we = "CMD"
    <3>1. Offered = Put(Command[PutCount + 1]) /\ Len(Command) = 1 /\ PutCount = 0 /\ Over = R + 4
      BY <2>1, <2>2, <2>5, OfferLengths DEF WeOctet
    <3> QED BY <1>1, <2>1, <2>4, <2>5, <3>1, OffersPut
  <2>6. CASE we = "READ"
    <3>1. Offered = Get /\ Len(Command) = 1 /\ PutCount = 1 /\ Over = R + 4
      BY <2>1, <2>2, <2>6, OfferLengths DEF WeOctet
    <3> QED BY <1>1, <1>7, <2>1, <2>3, <2>4, <3>1, OffersGet
  <2>7. CASE we = "RELEASE"
    <3>1. Offered = Release /\ Len(Command) = 1 /\ PutCount = 1 /\ Over = R + 4
      BY <2>1, <2>2, <2>7, OfferLengths DEF WeOctet
    <3> QED BY <1>1, <1>7, <2>1, <2>3, <2>4, <3>1, OffersRelease
  <2>8. CASE we = "CAPTURE"
    <3>1. Offered = Nothing /\ Len(Command) = 1 /\ PutCount = 1 /\ Over = R + 4
      BY <2>1, <2>2, <2>8, OfferLengths DEF WeOctet
    <3> QED BY <1>1, <1>7, <2>1, <2>3, <2>4, <3>1, OffersNothing
  <2>9. CASE we \in {"IDLE", "DONE"}
    <3>1. Offered = Nothing /\ PutCount = 0 /\ Over \in {R + 4, R + 5}
      BY <1>1, <2>1, <2>9 DEF WeOctet
    <3> QED BY <1>1, <1>7, <2>1, <2>3, <2>4, <3>1, OffersNothing
  <2> QED BY <1>0, <2>5, <2>6, <2>7, <2>8, <2>9 DEF WeTypes
<1> QED BY <1>0, <1>2, <1>3, <1>4, <1>5, <1>6, <1>7, ClientsCovered

-----------------------------------------------------------------------------
(* The FSM of top.py, and which client is next. *)

LEMMA SameBoard ==
  ASSUME UNCHANGED given
  PROVE  /\ board' = board /\ Clients' = Clients /\ Commands' = Commands
         /\ RamFrames' = RamFrames /\ auto_boot' = auto_boot
         /\ uid' = uid /\ secpage' = secpage /\ slot' = slot /\ wel' = wel /\ held' = held
BY DEF given, Clients, Commands, RamFrames, auto_boot

LEMMA TopMoves ==
  ASSUME ClientInv, Tick
  PROVE  /\ TopTypes'
         /\ ClientDone => /\ client # "none" /\ state = "BOOT-READ" /\ state' = state
                          /\ sel' = sel + 1 /\ consumed' = 0
         /\ ~ClientDone => /\ sel' = sel /\ FrameOf' = FrameOf
                           /\ consumed' = IF taken THEN consumed + 1 ELSE consumed
         /\ ~ClientDone /\ client # "none" => client' = client /\ state' = state
         /\ client = "none" =>
              client' = IF state = "SELECT-FLASH-RELEASE" /\ accepted THEN "wake" ELSE "none"
<1>1. TopTypes BY DEF ClientInv
<1>2. UNCHANGED given BY DEF Tick
<1>3. /\ state' = CASE state = "SELECT-FLASH" /\ accepted -> "SELECT-FLASH-RELEASE"
                    [] state = "SELECT-FLASH-RELEASE" /\ accepted -> "BOOT-READ"
                    [] state = "BOOT-READ" /\ sel > Len(Clients) -> "BOOT-DECIDE"
                    [] state = "BOOT-DECIDE" -> Decide
                    [] OTHER -> state
      /\ sel' = IF ClientDone THEN sel + 1 ELSE sel
  BY DEF Tick, TopStep
<1>4. consumed' = IF ClientDone THEN 0 ELSE IF taken THEN consumed + 1 ELSE consumed
  BY DEF Tick, ClientStep
<1>5. Decide \in {"REBOOT-WAIT", "USB-CONNECT"} BY DEF Decide
<1> DEFINE L == Len(Clients)
<1>6. /\ sel \in {1, 2, 3, 4, 5} /\ sel <= L + 1 /\ L \in {2, 3, 4}
      /\ client = "none" <=> state # "BOOT-READ" \/ sel > L
      /\ L' = L
  BY <1>1, <1>2, ClientAt, SameBoard DEF Places
<1>7. ClientDone => client # "none" BY NoneView
<1>8. /\ consumed \in Nat
      /\ state \in {"SELECT-FLASH", "SELECT-FLASH-RELEASE"} => sel = 1 /\ board.ram
      /\ state \in {"SELECT-FLASH", "SELECT-FLASH-RELEASE", "BOOT-READ", "BOOT-DECIDE",
                    "REBOOT-WAIT", "USB-CONNECT"}
      /\ state \in {"BOOT-DECIDE", "REBOOT-WAIT", "USB-CONNECT"} => sel = L + 1
  BY <1>1 DEF TopTypes
<1>9. ClientDone => state = "BOOT-READ" /\ sel <= L /\ state' = state
  <2> HIDE DEF L
  <2> QED BY <1>3, <1>6, <1>7 DEF L
<1>10. TopTypes'
  <2>1. board \in Boards /\ wel \in BOOLEAN /\ held \in BOOLEAN /\ {uid, secpage, slot} \subseteq Seq(Nat)
    BY <1>1 DEF TopTypes
  <2>2. /\ board' \in Boards /\ wel' \in BOOLEAN /\ held' \in BOOLEAN
        /\ {uid', secpage', slot'} \subseteq Seq(Nat) /\ board' = board
    BY <1>2, <2>1, SameBoard
  <2>3. consumed' \in Nat BY <1>4, <1>8
  <2> HIDE DEF L
  <2>4. sel' \in 1 .. L' + 1 BY <1>3, <1>6, <1>9
  <2>5. /\ state' \in {"SELECT-FLASH", "SELECT-FLASH-RELEASE", "BOOT-READ", "BOOT-DECIDE",
                      "REBOOT-WAIT", "USB-CONNECT"}
        /\ state' \in {"SELECT-FLASH", "SELECT-FLASH-RELEASE"} =>
             state \in {"SELECT-FLASH", "SELECT-FLASH-RELEASE"}
        /\ state' \in {"BOOT-DECIDE", "REBOOT-WAIT", "USB-CONNECT"} =>
             (state = "BOOT-READ" /\ sel > L) \/ state \in {"BOOT-DECIDE", "REBOOT-WAIT", "USB-CONNECT"}
    BY <1>3, <1>5, <1>8 DEF L
  <2>6. state' \in {"SELECT-FLASH", "SELECT-FLASH-RELEASE"} => sel' = 1 /\ board'.ram
    BY <1>3, <1>8, <1>9, <2>2, <2>5
  <2>7. state' \in {"BOOT-DECIDE", "REBOOT-WAIT", "USB-CONNECT"} => sel' = L' + 1
    BY <1>3, <1>6, <1>8, <1>9, <2>5
  <2> QED BY <2>2, <2>3, <2>4, <2>5, <2>6, <2>7 DEF TopTypes, L
<1>11. ~ClientDone => FrameOf' = FrameOf
  BY <1>2, <1>3, SameBoard DEF FrameOf
<1>12. client' = IF state' = "BOOT-READ" /\ sel' <= L THEN Clients[sel'] ELSE "none"
  BY <1>2, SameBoard DEF client
<1>13. ~ClientDone /\ client # "none" => client' = client /\ state' = state
  <2>1. client # "none" => state = "BOOT-READ" /\ sel <= L
    <3> HIDE DEF L
    <3> QED BY <1>6
  <2>2. state = "BOOT-READ" /\ sel <= L => state' = state
    <3> HIDE DEF L
    <3> QED BY <1>3, <1>6 DEF L
  <2> QED BY <1>3, <1>12, <2>1, <2>2 DEF client
<1>14. client = "none" => client' = IF state = "SELECT-FLASH-RELEASE" /\ accepted THEN "wake" ELSE "none"
  <2> SUFFICES ASSUME client = "none"
               PROVE  client' = IF state = "SELECT-FLASH-RELEASE" /\ accepted THEN "wake" ELSE "none"
    OBVIOUS
  <2>1. sel' = sel BY <1>3, <1>7
  <2>2. CASE state = "SELECT-FLASH-RELEASE" /\ accepted
    <3>1. state' = "BOOT-READ" /\ sel' = 1 BY <1>3, <1>8, <2>1, <2>2
    <3>2. Clients[1] = "wake" /\ 1 <= L BY <1>1, <1>6, ClientList DEF TopTypes
    <3> QED BY <1>12, <2>2, <3>1, <3>2
  <2>3. CASE ~(state = "SELECT-FLASH-RELEASE" /\ accepted)
    <3>1. state' = "BOOT-READ" => state = "BOOT-READ" /\ sel <= L
      <4> HIDE DEF L
      <4> QED BY <1>3, <1>5, <1>6, <2>3 DEF L
    <3>2. state' # "BOOT-READ" BY <1>6, <3>1
    <3> QED BY <1>12, <2>3, <3>2
  <2> QED BY <2>2, <2>3
<1> QED BY <1>3, <1>4, <1>7, <1>9, <1>10, <1>11, <1>13, <1>14

-----------------------------------------------------------------------------
(* Each client's cycle as one of the program's. *)

LEMMA FollowsHolds ==
  ASSUME ClientInv, Tick, ~ClientDone
  PROVE  Follows
<1>1. UNCHANGED given BY DEF Tick
<1>2. board' = board BY <1>1, SameBoard
<1>3. /\ FrameOf' = FrameOf
      /\ consumed' = IF taken THEN consumed + 1 ELSE consumed
      /\ client' = client \/ (client = "none" /\ client' = "wake")
  BY TopMoves
<1> QED BY <1>2, <1>3 DEF Follows, FromUid, FromPage

\* The client after the one that is done begins with nothing over.
LEMMA NextClient ==
  ASSUME ClientInv, Tick, ClientDone
  PROVE  /\ Over' = FrameOf /\ PutCount' = 0 /\ GetCount' = 0 /\ consumed' = 0
         /\ Offered' # Release
         /\ client # "wake" => Offered' = Nothing
<1>0. TopTypes /\ WakeTypes /\ UidTypes /\ PageTypes /\ AppTypes /\ WeTypes BY DEF ClientInv
<1>1. TopTypes' /\ client # "none" /\ state' = "BOOT-READ" /\ sel' = sel + 1 /\ consumed' = 0
  BY TopMoves
<1>2. /\ NoneView!:' /\ UidView!:' /\ PageView!:' /\ AppView!:' /\ WeView!:' /\ ClientAt!:'
      /\ ClientsCovered!:'
  <2>1. NoneView!:' BY NoneView, PTL
  <2>2. UidView!:' BY UidView, PTL
  <2>3. PageView!:' BY PageView, PTL
  <2>4. AppView!:' BY AppView, PTL
  <2>5. WeView!:' BY WeView, PTL
  <2>6. ClientAt!:' BY ClientAt, PTL
  <2>7. ClientsCovered!:' BY ClientsCovered, PTL
  <2> QED BY <2>1, <2>2, <2>3, <2>4, <2>5, <2>6, <2>7
<1>3. RamFrames' = RamFrames /\ RamFrames \in {0, 1} BY <1>0, SameBoard, CommandOf DEF Tick
<1>4. /\ client = "wake" <=> sel = 1
      /\ client = "serial" <=> sel = 2
      /\ client = "app" <=> sel = 3
      /\ client = "we" <=> sel = 4
      /\ sel \in {1, 2, 3, 4}
  BY <1>0, <1>1, ClientAt DEF Places
<1>5. FrameOf = (RamFrames + sel) + 1 /\ FrameOf' = (RamFrames + sel) + 2
  BY <1>1, <1>3, <1>4 DEF FrameOf, RamFrames
<1>6. FrameOf' - 1 = FrameOf BY <1>3, <1>4, <1>5
<1>7. CASE client' = "none"
  BY <1>1, <1>2, <1>6, <1>7, OctetsDiffer
<1>8. CASE FromUid'
  <2>1. sel' = 2 /\ client = "wake" /\ ~FromUid BY <1>0, <1>1, <1>2, <1>4, <1>8, UidView
  <2>2. UNCHANGED uid_vars BY <2>1 DEF Tick, ClientStep
  <2>3. uid_w' = "IDLE" /\ write_count' = UidTotal - 1 BY <1>0, <1>4, <2>1, <2>2 DEF UidTypes, uid_vars
  <2>4. CountedDown(UidTotal, UidTotal - 1) = 0 BY BootAssumption DEF CountedDown, UidTotal
  <2>5. Over' = FrameOf' - 1 /\ PutCount' = 0 /\ GetCount' = CountedDown(UidTotal, write_count')
    BY <1>1, <1>2, <1>8, <2>3
  <2>6. Offered' = Put(UID_CMD) BY <1>1, <1>2, <1>8, <2>3 DEF UidOctet
  <2> QED BY <1>1, <1>6, <2>1, <2>3, <2>4, <2>5, <2>6, OctetsDiffer
<1>9. CASE FromPage'
  <2>1. sel' = 2 /\ client = "wake" /\ ~FromPage BY <1>0, <1>1, <1>2, <1>4, <1>9, PageView
  <2>2. UNCHANGED page_vars BY <2>1 DEF Tick, ClientStep
  <2>3. page' = "PROLOGUE" /\ page_left' = PageLen - 1 /\ send_idx' = 0
    BY <1>0, <1>4, <2>1, <2>2 DEF PageTypes, page_vars
  <2>4. CountedDown(PageLen, PageLen - 1) = 0 BY BootAssumption DEF CountedDown
  <2>5. Over' = FrameOf' - 1 /\ PutCount' = 0 /\ GetCount' = CountedDown(PageLen, page_left')
    BY <1>1, <1>2, <1>9, <2>3
  <2>6. Offered' = Put(Prologue[send_idx' + 1]) BY <1>1, <1>2, <1>9, <2>3 DEF PageOctet
  <2> QED BY <1>1, <1>6, <2>1, <2>3, <2>4, <2>5, <2>6, OctetsDiffer
<1>10. CASE client' = "app"
  <2>1. sel' = 3 /\ client # "app" /\ sel = 2 BY <1>1, <1>2, <1>4, <1>10 DEF Places
  <2>2. UNCHANGED app_vars BY <2>1 DEF Tick, ClientStep
  <2>3. app' = "IDLE" BY <1>0, <2>1, <2>2 DEF AppTypes, app_vars
  <2>4. Over' = FrameOf' - 1 /\ PutCount' = 0 /\ GetCount' = 0 /\ Offered' = Nothing
    BY <1>1, <1>2, <1>10, <2>3 DEF AppOctet
  <2> QED BY <1>1, <1>6, <2>4, OctetsDiffer
<1>11. CASE client' = "we"
  <2>1. sel' = 4 /\ client # "we" /\ sel = 3 BY <1>1, <1>2, <1>4, <1>11 DEF Places
  <2>2. UNCHANGED we_vars BY <2>1 DEF Tick, ClientStep
  <2>3. we' = "IDLE" BY <1>0, <2>1, <2>2 DEF WeTypes, we_vars
  <2>4. Over' = FrameOf' - 1 /\ PutCount' = 0 /\ GetCount' = 0 /\ Offered' = Nothing
    BY <1>1, <1>2, <1>11, <2>3 DEF WeOctet
  <2> QED BY <1>1, <1>6, <2>4, OctetsDiffer
<1>12. client' # "wake" BY <1>1, <1>2, <1>4 DEF Places
<1> QED BY <1>1, <1>2, <1>7, <1>8, <1>9, <1>10, <1>11, <1>12

LEMMA NoneProgram ==
  ASSUME ClientInv, Tick, client = "none"
  PROVE  ProgramStep
<1>0. TopTypes /\ WakeTypes BY DEF ClientInv
<1>1. ~ClientDone BY NoneView
<1>2. Follows BY <1>1, FollowsHolds
<1>3. NoneView!:' /\ WakeView!:' BY NoneView, WakeView, PTL
<1>4. TopTypes' /\ client' = IF state = "SELECT-FLASH-RELEASE" /\ accepted THEN "wake" ELSE "none"
  BY TopMoves
<1>5. state' = CASE state = "SELECT-FLASH" /\ accepted -> "SELECT-FLASH-RELEASE"
                 [] state = "SELECT-FLASH-RELEASE" /\ accepted -> "BOOT-READ"
                 [] state = "BOOT-READ" /\ sel > Len(Clients) -> "BOOT-DECIDE"
                 [] state = "BOOT-DECIDE" -> Decide
                 [] OTHER -> state
  BY DEF Tick, TopStep
<1>6. CASE state = "SELECT-FLASH"
  <2>1. CASE accepted
    BY <1>1, <1>2, <1>3, <1>4, <1>5, <1>6, <2>1, NoneView, OctetsDiffer
       DEF ProgramStep, PutTaken, Putting, Same
  <2>2. CASE ~accepted
    BY <1>1, <1>2, <1>3, <1>4, <1>5, <1>6, <2>2, NoneView
       DEF ProgramStep, Keeps, Same
  <2> QED BY <2>1, <2>2
<1>7. CASE state = "SELECT-FLASH-RELEASE"
  <2>1. CASE accepted
    <3>1. wake' = "IDLE" BY <1>0, <1>7 DEF Tick, ClientStep, WakeTypes, wake_vars
    <3>2. RamFrames' = 1 BY <1>0, <1>7, SameBoard, CommandOf DEF Tick, TopTypes
    <3>3. Over' = 1 /\ PutCount' = 0 /\ GetCount' = 0 /\ Offered' = Nothing
      BY <1>3, <1>4, <1>7, <2>1, <3>1, <3>2 DEF WakeOctet
    <3> QED BY <1>1, <1>2, <1>7, <2>1, <3>3, NoneView, OctetsDiffer
         DEF ProgramStep, FrameDone, Releasing
  <2>2. CASE ~accepted
    BY <1>1, <1>2, <1>3, <1>4, <1>5, <1>7, <2>2, NoneView
       DEF ProgramStep, Keeps, Same
  <2> QED BY <2>1, <2>2
<1>8. CASE state \notin {"SELECT-FLASH", "SELECT-FLASH-RELEASE"}
  <2>1. state' \notin {"SELECT-FLASH", "SELECT-FLASH-RELEASE"} /\ client' = "none"
    BY <1>4, <1>5, <1>8 DEF Decide
  <2>2. FrameOf' = FrameOf BY <1>2 DEF Follows
  <2>3. Offered = Nothing /\ Over' = Over /\ PutCount = 0 /\ PutCount' = 0 /\ GetCount = 0 /\ GetCount' = 0
    BY <1>3, <1>8, <2>1, <2>2, NoneView
  <2>4. Over \in Nat BY OffersHold DEF Offers
  <2> QED BY <1>1, <1>2, <2>3, <2>4 DEF ProgramStep, Resumes, Same
<1> QED BY <1>6, <1>7, <1>8

LEMMA AcceptedOffer ==
  accepted => Offered # Nothing
BY OctetsDiffer DEF accepted, Accepted, Framed

LEMMA WakeProgram ==
  ASSUME ClientInv, Tick, client = "wake"
  PROVE  ProgramStep
<1>0. TopTypes /\ WakeTypes BY DEF ClientInv
<1>1. WakeView!:' BY WakeView, PTL
<1>2. WakeStep(accepted) BY DEF Tick, ClientStep
<1>3. /\ FrameOf = RamFrames + 2 /\ Offered = WakeOctet
      /\ Over = RamFrames + (IF wake \in {"IDLE", "MBR", "MBR_RELEASE"} THEN 0
                             ELSE IF wake \in {"WAKE", "WAKE_RELEASE"} THEN 1 ELSE 2)
      /\ PutCount = IF wake \in {"MBR_RELEASE", "WAKE_RELEASE"} THEN 1 ELSE 0
      /\ GetCount = 0
      /\ ClientDone <=> wake = "DONE"
      /\ RamFrames \in {0, 1}
  BY <1>0, WakeView, CommandOf
<1>4. CASE wake = "DONE"
  <2>1. Offered = Nothing BY <1>3, <1>4 DEF WakeOctet
  <2> QED BY <1>3, <1>4, <2>1, NextClient DEF ProgramStep, ClientOver
<1>5. CASE wake # "DONE"
  <2>1. ~ClientDone /\ Follows BY <1>3, <1>5, FollowsHolds
  <2>2. TopTypes' /\ client' = "wake" /\ RamFrames' = RamFrames
    BY <2>1, TopMoves, SameBoard DEF Tick
  <2>3. /\ Offered' = WakeOctet'
        /\ Over' = RamFrames + (IF wake' \in {"IDLE", "MBR", "MBR_RELEASE"} THEN 0
                               ELSE IF wake' \in {"WAKE", "WAKE_RELEASE"} THEN 1 ELSE 2)
        /\ PutCount' = IF wake' \in {"MBR_RELEASE", "WAKE_RELEASE"} THEN 1 ELSE 0
        /\ GetCount' = 0
    BY <1>1, <2>2
  <2>4. CASE wake \in {"IDLE", "SETTLE"}
    <3>1. Offered = Nothing BY <1>3, <2>4 DEF WakeOctet
    <3>2. wake' = IF wake = "IDLE" THEN "MBR" ELSE IF Settled THEN "DONE" ELSE wake
      BY <1>2, <2>4 DEF WakeStep
    <3>3. Over' = Over /\ PutCount' = 0 /\ PutCount = 0 BY <1>3, <2>3, <2>4, <3>2
    <3> QED BY <1>3, <2>1, <2>3, <3>1, <3>3 DEF ProgramStep, Resumes, Same
  <2>5. CASE wake \in {"MBR", "MBR_RELEASE", "WAKE", "WAKE_RELEASE"} /\ ~accepted
    <3>1. wake' = wake BY <1>2, <2>5 DEF WakeStep, On
    <3>2. Offered' = Offered /\ Over' = Over BY <1>3, <2>3, <3>1 DEF WakeOctet
    <3> QED BY <1>3, <2>1, <2>3, <2>5, <3>1, <3>2 DEF ProgramStep, Keeps, Same
  <2>6. CASE wake = "MBR" /\ accepted
    <3>1. wake' = "MBR_RELEASE" BY <1>2, <2>6 DEF WakeStep, On, WakeNext
    <3>2. Offered' = Release /\ Putting /\ Over' = Over
      BY <1>3, <2>3, <2>6, <3>1, OctetsDiffer DEF WakeOctet, Putting
    <3> QED BY <1>3, <2>1, <2>3, <2>6, <3>1, <3>2, OctetsDiffer DEF ProgramStep, PutTaken, Same
  <2>7. CASE wake = "MBR_RELEASE" /\ accepted
    <3>1. wake' = "WAKE" BY <1>2, <2>7 DEF WakeStep, On, WakeNext
    <3>2. Offered' # Release /\ Releasing /\ Over' = Over + 1
      BY <1>3, <2>3, <2>7, <3>1, OctetsDiffer DEF WakeOctet, Releasing
    <3> QED BY <1>3, <2>1, <2>3, <2>7, <3>1, <3>2 DEF ProgramStep, FrameDone
  <2>8. CASE wake = "WAKE" /\ accepted
    <3>1. wake' = "WAKE_RELEASE" BY <1>2, <2>8 DEF WakeStep, On, WakeNext
    <3>2. Offered' = Release /\ Putting /\ Over' = Over
      BY <1>3, <2>3, <2>8, <3>1, OctetsDiffer DEF WakeOctet, Putting
    <3> QED BY <1>3, <2>1, <2>3, <2>8, <3>1, <3>2, OctetsDiffer DEF ProgramStep, PutTaken, Same
  <2>9. CASE wake = "WAKE_RELEASE" /\ accepted
    <3>1. wake' = "SETTLE" BY <1>2, <2>9 DEF WakeStep, On, WakeNext
    <3>2. Offered' # Release /\ Releasing /\ Over' = Over + 1
      BY <1>3, <2>3, <2>9, <3>1, OctetsDiffer DEF WakeOctet, Releasing
    <3> QED BY <1>3, <2>1, <2>3, <2>9, <3>1, <3>2 DEF ProgramStep, FrameDone
  <2> QED BY <1>0, <1>5, <2>4, <2>5, <2>6, <2>7, <2>8, <2>9 DEF WakeTypes
<1> QED BY <1>4, <1>5

LEMMA UidProgram ==
  ASSUME ClientInv, Tick, FromUid
  PROVE  ProgramStep
<1>0. TopTypes /\ UidTypes BY DEF ClientInv
<1>1. UidView!:' BY UidView, PTL
<1>2. UidStep(accepted, taken) BY DEF Tick, ClientStep
<1>3. /\ client = "serial" /\ Offered = UidOctet
      /\ Over = IF uid_w = "DONE" THEN FrameOf ELSE FrameOf - 1
      /\ PutCount = IF uid_w \in {"READ", "RELEASE"} THEN 1 ELSE 0
      /\ GetCount = CountedDown(UidTotal, write_count)
      /\ ClientDone <=> uid_r = "DONE"
      /\ FrameOf \in Nat
  BY <1>0, UidView, CommandOf
<1>4. CASE uid_r = "DONE"
  <2>1. uid_w \in {"RELEASE", "DONE"} /\ (uid_w = "RELEASE" => ~cs) BY <1>0, <1>4 DEF UidTypes
  <2>2. CASE uid_w = "DONE"
    <3>1. Offered = Nothing BY <1>3, <2>2 DEF UidOctet
    <3> QED BY <1>3, <1>4, <2>2, <3>1, NextClient DEF ProgramStep, ClientOver
  <2>3. CASE uid_w = "RELEASE"
    <3>1. Releasing /\ Over = FrameOf - 1 BY <1>3, <2>3 DEF UidOctet, Releasing
    <3>2. FrameOf = Over + 1 BY <1>3, <3>1
    <3> QED BY <1>3, <1>4, <2>1, <2>3, <3>1, <3>2, NextClient DEF ProgramStep, ClientOver
  <2> QED BY <2>1, <2>2, <2>3
<1>5. CASE uid_r # "DONE"
  <2>1. ~ClientDone /\ Follows BY <1>3, <1>5, FollowsHolds
  <2>2. TopTypes' /\ FromUid' /\ FrameOf' = FrameOf BY <2>1, TopMoves DEF Follows
  <2>3. /\ Offered' = UidOctet'
        /\ Over' = IF uid_w' = "DONE" THEN FrameOf ELSE FrameOf - 1
        /\ PutCount' = IF uid_w' \in {"READ", "RELEASE"} THEN 1 ELSE 0
        /\ GetCount' = CountedDown(UidTotal, write_count')
    BY <1>1, <2>2
  <2>4. UidTotal \in Nat \ {0} BY BootAssumption DEF UidTotal
  <2>5. write_count \in 0 .. UidTotal /\ (uid_w = "IDLE" => write_count = UidTotal - 1)
        /\ (uid_w = "READ" => write_count < UidTotal)
        /\ uid_w \in {"IDLE", "READ", "RELEASE", "DONE"}
    BY <1>0 DEF UidTypes
  <2>6. CASE uid_w = "DONE"
    <3>1. uid_w' = "DONE" /\ write_count' = write_count BY <1>2, <2>6 DEF UidStep
    <3>2. Offered = Nothing BY <1>3, <2>6 DEF UidOctet
    <3>3. GetCount \in Nat /\ GetCount' = GetCount BY <1>3, <2>3, <2>4, <2>5, <3>1 DEF CountedDown
    <3> QED BY <1>3, <2>1, <2>3, <2>6, <3>1, <3>2, <3>3 DEF ProgramStep, Resumes, Same
  <2>7. CASE uid_w # "DONE" /\ ~accepted
    <3>1. uid_w' = uid_w /\ write_count' = write_count BY <1>2, <2>7 DEF UidStep
    <3>2. Offered' = Offered BY <1>3, <2>3, <3>1 DEF UidOctet
    <3>3. GetCount \in Nat /\ GetCount' = GetCount BY <1>3, <2>3, <2>4, <2>5, <3>1 DEF CountedDown
    <3> QED BY <1>3, <2>1, <2>3, <2>7, <3>1, <3>2, <3>3 DEF ProgramStep, Keeps, Same
  <2>8. CASE uid_w = "IDLE" /\ accepted
    <3>1. uid_w' = "READ" /\ write_count' = write_count BY <1>2, <2>8 DEF UidStep
    <3>2. Offered' = Get /\ Putting
      BY <1>3, <2>3, <2>8, <3>1, OctetsDiffer DEF UidOctet, Putting
    <3>3. GetCount \in Nat /\ GetCount' = GetCount BY <1>3, <2>3, <2>4, <2>5, <3>1 DEF CountedDown
    <3> QED BY <1>3, <2>1, <2>3, <2>8, <3>1, <3>2, <3>3, OctetsDiffer DEF ProgramStep, PutTaken, Same
  <2>9. CASE uid_w = "READ" /\ accepted
    <3>1. /\ uid_w' \in {"READ", "RELEASE"}
          /\ write_count' = (write_count - 1) % (UidTotal + 1)
      BY <1>2, <2>9 DEF UidStep
    <3>2. Reading BY <1>3, <2>9 DEF UidOctet, Reading
    <3>3. write_count' = IF write_count = 0 THEN UidTotal ELSE write_count - 1
      BY <2>4, <2>5, <2>9, <3>1
    <3>4. GetCount' = GetCount + 1
      BY <1>3, <2>3, <2>4, <2>5, <2>9, <3>3 DEF CountedDown
    <3> QED BY <1>3, <2>1, <2>3, <2>9, <3>1, <3>2, <3>4 DEF ProgramStep, GetTaken, Same
  <2>10. CASE uid_w = "RELEASE" /\ accepted
    <3>1. uid_w' = "DONE" /\ write_count' = write_count BY <1>2, <2>10 DEF UidStep
    <3>2. Offered' = Nothing /\ Releasing
      BY <1>3, <2>3, <2>10, <3>1 DEF UidOctet, Releasing
    <3>3. Over' = Over + 1 BY <1>3, <2>3, <2>10, <3>1
    <3> QED BY <1>3, <2>1, <2>3, <2>10, <3>1, <3>2, <3>3, OctetsDiffer DEF ProgramStep, FrameDone
  <2> QED BY <2>5, <2>6, <2>7, <2>8, <2>9, <2>10
<1> QED BY <1>4, <1>5

LEMMA PageProgram ==
  ASSUME ClientInv, Tick, FromPage
  PROVE  ProgramStep
<1>0. TopTypes /\ PageTypes BY DEF ClientInv
<1>1. PageView!:' BY PageView, PTL
<1>2. PageStep(accepted, ParserDone) BY DEF Tick, ClientStep
<1>3. /\ client = "serial" /\ Offered = PageOctet
      /\ Over = IF page = "DONE" THEN FrameOf ELSE FrameOf - 1
      /\ PutCount = IF page = "PROLOGUE" THEN send_idx
                    ELSE IF page \in {"READ", "RELEASE"} THEN 5 ELSE 0
      /\ GetCount = CountedDown(PageLen, page_left)
      /\ ClientDone <=> page = "DONE"
      /\ FrameOf \in Nat
  BY <1>0, PageView, CommandOf
<1>4. CASE page = "DONE"
  <2>1. Offered = Nothing BY <1>3, <1>4 DEF PageOctet
  <2> QED BY <1>3, <1>4, <2>1, NextClient DEF ProgramStep, ClientOver
<1>5. CASE page # "DONE"
  <2>1. ~ClientDone /\ Follows BY <1>3, <1>5, FollowsHolds
  <2>2. TopTypes' /\ FromPage' /\ FrameOf' = FrameOf BY <2>1, TopMoves DEF Follows
  <2>3. /\ Offered' = PageOctet'
        /\ Over' = IF page' = "DONE" THEN FrameOf ELSE FrameOf - 1
        /\ PutCount' = IF page' = "PROLOGUE" THEN send_idx'
                      ELSE IF page' \in {"READ", "RELEASE"} THEN 5 ELSE 0
        /\ GetCount' = CountedDown(PageLen, page_left')
    BY <1>1, <2>2
  <2>4. PageLen \in Nat \ {0} /\ Len(Prologue) = 5 BY BootAssumption, OfferLengths
  <2>5. /\ page_left \in 0 .. PageLen /\ send_idx \in 0 .. 4
        /\ (page = "READ" => page_left < PageLen)
        /\ page \in {"PROLOGUE", "READ", "RELEASE", "DONE"}
    BY <1>0 DEF PageTypes
  <2>6. GetCount \in Int BY <1>3, <2>4, <2>5 DEF CountedDown
  <2>7. CASE ~accepted
    <3>1. page' = page /\ page_left' = page_left /\ send_idx' = send_idx
      BY <1>2, <2>7 DEF PageStep
    <3>2. Offered' = Offered BY <1>3, <2>3, <3>1 DEF PageOctet
    <3> QED BY <1>3, <2>1, <2>3, <2>5, <2>6, <2>7, <3>1, <3>2 DEF ProgramStep, Keeps, Same
  <2>8. CASE page = "PROLOGUE" /\ accepted
    <3>1. /\ page' = IF send_idx = 4 THEN "READ" ELSE "PROLOGUE"
          /\ send_idx' = IF send_idx < 4 THEN send_idx + 1 ELSE send_idx
          /\ page_left' = page_left
      BY <1>2, <2>4, <2>8 DEF PageStep
    <3>2. Offered' # Nothing /\ Putting
      BY <1>3, <2>3, <2>8, <3>1, OctetsDiffer DEF PageOctet, Putting
    <3>3. PutCount' = PutCount + 1 BY <1>3, <2>3, <2>5, <2>8, <3>1
    <3> QED BY <1>3, <2>1, <2>3, <2>6, <2>8, <3>1, <3>2, <3>3 DEF ProgramStep, PutTaken, Same
  <2>9. CASE page = "READ" /\ accepted
    <3>1. /\ page' \in {"READ", "RELEASE"}
          /\ page_left' = (page_left - 1) % (PageLen + 1)
      BY <1>2, <2>9 DEF PageStep
    <3>2. Reading BY <1>3, <2>9 DEF PageOctet, Reading
    <3>3. page_left' = IF page_left = 0 THEN PageLen ELSE page_left - 1
      BY <2>4, <2>5, <2>9, <3>1
    <3>4. GetCount' = GetCount + 1
      BY <1>3, <2>3, <2>4, <2>5, <2>9, <3>3 DEF CountedDown
    <3> QED BY <1>3, <2>1, <2>3, <2>9, <3>1, <3>2, <3>4 DEF ProgramStep, GetTaken, Same
  <2>10. CASE page = "RELEASE" /\ accepted
    <3>1. page' = "DONE" /\ page_left' = page_left BY <1>2, <2>10 DEF PageStep
    <3>2. Offered' = Nothing /\ Releasing
      BY <1>3, <2>3, <2>10, <3>1 DEF PageOctet, Releasing
    <3>3. Over' = Over + 1 BY <1>3, <2>3, <2>10, <3>1
    <3> QED BY <1>3, <2>1, <2>3, <2>10, <3>1, <3>2, <3>3, OctetsDiffer DEF ProgramStep, FrameDone
  <2> QED BY <1>5, <2>5, <2>7, <2>8, <2>9, <2>10
<1> QED BY <1>4, <1>5

LEMMA AppProgram ==
  ASSUME ClientInv, Tick, client = "app"
  PROVE  ProgramStep
<1>0. TopTypes /\ AppTypes BY DEF ClientInv
<1>1. AppView!:' BY AppView, PTL
<1>2. AppStep(accepted, taken, Octet[3], board.ram) BY DEF Tick, ClientStep
<1>3. /\ Offered = AppOctet
      /\ Over = IF app = "DONE" THEN FrameOf ELSE FrameOf - 1
      /\ PutCount = IF app = "ADDR" THEN 1 + ai ELSE IF app = "DUMMY" THEN 4
                    ELSE IF app \in {"READ_PUSH", "READ_CAP", "RELEASE"} THEN 5 ELSE 0
      /\ GetCount = IF app = "READ_PUSH" THEN ProbeLen - cnt
                    ELSE IF app = "READ_CAP" THEN (ProbeLen - cnt) + 1
                    ELSE IF app \in {"RELEASE", "DONE"} THEN ProbeLen ELSE 0
      /\ ClientDone <=> app = "DONE"
      /\ Ready <=> app = "READ_CAP"
      /\ FrameOf \in Nat
  BY <1>0, AppView, CommandOf
<1>4. CASE app = "DONE"
  <2>1. Offered = Nothing BY <1>3, <1>4 DEF AppOctet
  <2> QED BY <1>3, <1>4, <2>1, NextClient DEF ProgramStep, ClientOver
<1>5. CASE app # "DONE"
  <2>1. ~ClientDone /\ Follows BY <1>3, <1>5, FollowsHolds
  <2>2. TopTypes' /\ client' = "app" /\ FrameOf' = FrameOf BY <2>1, TopMoves DEF Follows
  <2>3. /\ Offered' = AppOctet'
        /\ Over' = IF app' = "DONE" THEN FrameOf ELSE FrameOf - 1
        /\ PutCount' = IF app' = "ADDR" THEN 1 + ai' ELSE IF app' = "DUMMY" THEN 4
                      ELSE IF app' \in {"READ_PUSH", "READ_CAP", "RELEASE"} THEN 5 ELSE 0
        /\ GetCount' = IF app' = "READ_PUSH" THEN ProbeLen - cnt'
                      ELSE IF app' = "READ_CAP" THEN (ProbeLen - cnt') + 1
                      ELSE IF app' \in {"RELEASE", "DONE"} THEN ProbeLen ELSE 0
    BY <1>1, <2>2
  <2>4. ProbeLen \in Nat \ {0} BY BootAssumption
  <2>5. /\ app \in {"READ_PUSH", "READ_CAP"} => cnt \in 1 .. ProbeLen
        /\ ai \in 0 .. 2
        /\ app \in {"IDLE", "CMD", "ADDR", "DUMMY", "READ_PUSH", "READ_CAP", "RELEASE", "DONE"}
    BY <1>0 DEF AppTypes
  <2>6. app # "READ_CAP" => ~taken BY <1>3 DEF taken
  <2>7. CASE app = "IDLE"
    <3>1. app' = "CMD" BY <1>2, <2>7 DEF AppStep
    <3>2. Offered = Nothing BY <1>3, <2>7 DEF AppOctet
    <3> QED BY <1>3, <2>1, <2>3, <2>7, <3>1, <3>2 DEF ProgramStep, Resumes, Same
  <2>8. CASE app = "READ_CAP"
    <3>1. /\ app' = IF ~taken THEN app ELSE IF cnt = 1 THEN "RELEASE" ELSE "READ_PUSH"
          /\ cnt' = IF taken /\ cnt # 1 THEN cnt - 1 ELSE cnt
      BY <1>2, <2>8 DEF AppStep
    <3>2. Offered = Nothing BY <1>3, <2>8 DEF AppOctet
    <3>3. GetCount' = GetCount /\ GetCount \in Int BY <1>3, <2>3, <2>4, <2>5, <2>8, <3>1
    <3>4. PutCount = 5 /\ PutCount' = 5 /\ Over' = Over BY <1>3, <2>3, <2>8, <3>1
    <3> QED BY <2>1, <3>2, <3>3, <3>4 DEF ProgramStep, Resumes, Same
  <2>9. CASE app \in {"CMD", "ADDR", "DUMMY", "READ_PUSH", "RELEASE"} /\ ~accepted
    <3>1. app' = app /\ ai' = ai /\ cnt' = cnt BY <1>2, <2>6, <2>9 DEF AppStep, On
    <3>2. Offered' = Offered BY <1>3, <2>3, <3>1 DEF AppOctet
    <3>3. GetCount' = GetCount /\ GetCount \in Int BY <1>3, <2>3, <2>4, <2>5, <2>9, <3>1
    <3> QED BY <1>3, <2>1, <2>3, <2>5, <2>9, <3>1, <3>2, <3>3 DEF ProgramStep, Keeps, Same
  <2>10. CASE app \in {"CMD", "ADDR", "DUMMY"} /\ accepted
    <3>1. /\ app' = IF app = "CMD" THEN "ADDR" ELSE IF app = "DUMMY" THEN "READ_PUSH"
                    ELSE IF ai = 2 THEN "DUMMY" ELSE "ADDR"
          /\ ai' = IF app = "CMD" THEN 0 ELSE IF app = "ADDR" /\ ai # 2 THEN ai + 1 ELSE ai
          /\ app = "DUMMY" => cnt' = ProbeLen
      BY <1>2, <2>6, <2>10 DEF AppStep, On, AppNext
    <3>2. Offered' # Nothing /\ Putting
      BY <1>3, <2>3, <2>10, <3>1, OctetsDiffer DEF AppOctet, Putting
    <3>3. PutCount' = PutCount + 1 BY <1>3, <2>3, <2>5, <2>10, <3>1
    <3>4. GetCount = 0 /\ GetCount' = 0 BY <1>3, <2>3, <2>4, <2>10, <3>1
    <3>5. Over' = Over BY <1>3, <2>3, <2>10, <3>1
    <3> QED BY <2>1, <2>10, <3>2, <3>3, <3>4, <3>5 DEF ProgramStep, PutTaken, Same
  <2>11. CASE app = "READ_PUSH" /\ accepted
    <3>1. app' = "READ_CAP" /\ cnt' = cnt
      BY <1>2, <2>6, <2>11 DEF AppStep, On, AppNext
    <3>2. Reading BY <1>3, <2>11 DEF AppOctet, Reading
    <3>3. GetCount' = GetCount + 1
      BY <1>3, <2>3, <2>4, <2>5, <2>11, <3>1
    <3> QED BY <1>3, <2>1, <2>3, <2>11, <3>1, <3>2, <3>3 DEF ProgramStep, GetTaken, Same
  <2>12. CASE app = "RELEASE" /\ accepted
    <3>1. app' = "DONE" BY <1>2, <2>12 DEF AppStep, On, AppNext
    <3>2. Offered' = Nothing /\ Releasing
      BY <1>3, <2>3, <2>12, <3>1 DEF AppOctet, Releasing
    <3>3. Over' = Over + 1 BY <1>3, <2>3, <2>12, <3>1
    <3> QED BY <1>3, <2>1, <2>3, <2>12, <3>1, <3>2, <3>3, OctetsDiffer DEF ProgramStep, FrameDone
  <2> QED BY <1>5, <2>5, <2>7, <2>8, <2>9, <2>10, <2>11, <2>12
<1> QED BY <1>4, <1>5

LEMMA WeProgram ==
  ASSUME ClientInv, Tick, client = "we"
  PROVE  ProgramStep
<1>0. TopTypes /\ WeTypes BY DEF ClientInv
<1>1. WeView!:' BY WeView, PTL
<1>2. WeStep(accepted, taken, Octet[3]) BY DEF Tick, ClientStep
<1>3. /\ Offered = WeOctet
      /\ Over = IF we = "DONE" THEN FrameOf ELSE FrameOf - 1
      /\ PutCount = IF we \in {"READ", "CAPTURE", "RELEASE"} THEN 1 ELSE 0
      /\ GetCount = IF we \in {"CAPTURE", "RELEASE", "DONE"} THEN 1 ELSE 0
      /\ ClientDone <=> we = "DONE"
      /\ Ready <=> we = "CAPTURE"
      /\ FrameOf \in Nat
  BY <1>0, WeView, CommandOf
<1>4. CASE we = "DONE"
  <2>1. Offered = Nothing BY <1>3, <1>4 DEF WeOctet
  <2> QED BY <1>3, <1>4, <2>1, NextClient DEF ProgramStep, ClientOver
<1>5. CASE we # "DONE"
  <2>1. ~ClientDone /\ Follows BY <1>3, <1>5, FollowsHolds
  <2>2. TopTypes' /\ client' = "we" /\ FrameOf' = FrameOf BY <2>1, TopMoves DEF Follows
  <2>3. /\ Offered' = WeOctet'
        /\ Over' = IF we' = "DONE" THEN FrameOf ELSE FrameOf - 1
        /\ PutCount' = IF we' \in {"READ", "CAPTURE", "RELEASE"} THEN 1 ELSE 0
        /\ GetCount' = IF we' \in {"CAPTURE", "RELEASE", "DONE"} THEN 1 ELSE 0
    BY <1>1, <2>2
  <2>4. we \in {"IDLE", "CMD", "READ", "CAPTURE", "RELEASE", "DONE"} BY <1>0 DEF WeTypes
  <2>5. CASE we \in {"IDLE", "CAPTURE"}
    <3>1. we' = IF we = "IDLE" THEN "CMD" ELSE IF taken THEN "RELEASE" ELSE we
      BY <1>2, <2>5 DEF WeStep
    <3>2. Offered = Nothing BY <1>3, <2>5 DEF WeOctet
    <3>3. Over' = Over BY <1>3, <2>3, <2>5, <3>1
    <3>4. /\ PutCount' = PutCount /\ PutCount \in {0, 1}
          /\ GetCount' = GetCount /\ GetCount \in {0, 1}
      BY <1>3, <2>3, <2>5, <3>1
    <3> QED BY <2>1, <3>2, <3>3, <3>4 DEF ProgramStep, Resumes, Same
  <2>6. CASE we \in {"CMD", "READ", "RELEASE"} /\ ~accepted
    <3>1. we' = we BY <1>2, <2>6 DEF WeStep, On
    <3>2. Offered' = Offered BY <1>3, <2>3, <3>1 DEF WeOctet
    <3> QED BY <1>3, <2>1, <2>3, <2>6, <3>1, <3>2 DEF ProgramStep, Keeps, Same
  <2>7. CASE we = "CMD" /\ accepted
    <3>1. we' = "READ" BY <1>2, <2>7 DEF WeStep, On, WeNext
    <3>2. Offered' = Get /\ Putting
      BY <1>3, <2>3, <2>7, <3>1, OctetsDiffer DEF WeOctet, Putting
    <3> QED BY <1>3, <2>1, <2>3, <2>7, <3>1, <3>2, OctetsDiffer DEF ProgramStep, PutTaken, Same
  <2>8. CASE we = "READ" /\ accepted
    <3>1. we' = "CAPTURE" BY <1>2, <2>8 DEF WeStep, On, WeNext
    <3>2. Reading BY <1>3, <2>8 DEF WeOctet, Reading
    <3> QED BY <1>3, <2>1, <2>3, <2>8, <3>1, <3>2 DEF ProgramStep, GetTaken, Same
  <2>9. CASE we = "RELEASE" /\ accepted
    <3>1. we' = "DONE" BY <1>2, <2>9 DEF WeStep, On, WeNext
    <3>2. Offered' = Nothing /\ Releasing
      BY <1>3, <2>3, <2>9, <3>1 DEF WeOctet, Releasing
    <3>3. Over' = Over + 1 BY <1>3, <2>3, <2>9, <3>1
    <3> QED BY <1>3, <2>1, <2>3, <2>9, <3>1, <3>2, <3>3, OctetsDiffer DEF ProgramStep, FrameDone
  <2> QED BY <1>5, <2>4, <2>5, <2>6, <2>7, <2>8, <2>9
<1> QED BY <1>4, <1>5

LEMMA Programmed ==
  ASSUME ClientInv, Tick
  PROVE  ProgramStep
<1>1. TopTypes BY DEF ClientInv
<1> QED BY <1>1, ClientsCovered, NoneProgram, WakeProgram, UidProgram, PageProgram, AppProgram,
           WeProgram

-----------------------------------------------------------------------------
(* The pins, by what is offered. *)

\* The Enframer is not held up.
Shifts == Framed(Offered, Ready)

Wrapped == IF timer = Divisor THEN 0 ELSE timer + 1

Driving == Putting \/ Reading

LEMMA OfferIs ==
  ASSUME Offers
  PROVE  /\ Offered = Nothing \/ Releasing \/ Driving
         /\ Driving => Offered.valid /\ Offered.chip = 1 /\ Offered.mode # "Dummy"
         /\ Reading => ~Putting /\ Offered.mode = "Get"
         /\ Putting => Offered.mode # "Get" /\ ~Reading /\ Offered.data = Command[PutCount + 1]
         /\ Offered = Nothing \/ Releasing => ~Driving
BY OctetsDiffer DEF Offers, Driving, Putting, Reading, Releasing

LEMMA IdlePins ==
  ASSUME Tick, Offered = Nothing, PinInv
  PROVE  /\ ~accepted /\ ~Shifts
         /\ timer' = timer /\ cycle' = cycle /\ started' = started /\ cs' = cs
         /\ nbits' = nbits /\ fr' = fr /\ clocked' = clocked /\ frames' = frames
         /\ heard' = heard /\ bank' = bank /\ ~FrameEnds
<1>1. ~Framed(Nothing, Ready) /\ ~Nothing.valid BY OctetsDiffer DEF Framed
<1>2. /\ timer' = timer /\ cycle' = cycle /\ cs' = cs /\ ~accepted /\ ~Rises /\ ~OctetIn
  BY <1>1 DEF Tick, CtlStep, accepted, Accepted, Rises, ClockRises, OctetIn
<1>3. started' = started
  <2>1. started' = IF Offered.valid /\ Offered.chip = 0 THEN FALSE
                   ELSE (started \/ (Framed(Offered, Ready) /\ BitOver))
    BY DEF Tick, CtlStep
  <2>2. started \in BOOLEAN BY DEF PinInv
  <2> QED BY <1>1, <2>1, <2>2
<1>4. ~FrameEnds /\ ~(~cs /\ cs') BY <1>2 DEF FrameEnds
<1> QED BY <1>1, <1>2, <1>3, <1>4 DEF Tick, PinStep, Shifts

LEMMA ReleasePins ==
  ASSUME Tick, Releasing, PinInv
  PROVE  /\ accepted <=> Shifts /\ timer = Divisor
         /\ timer' = IF Shifts THEN Wrapped ELSE timer
         /\ ~started' /\ cycle = 0 /\ cycle' = 0 /\ nbits = 0 /\ nbits' = 0
         /\ cs' <=> cs /\ ~Shifts
         /\ FrameEnds <=> cs /\ Shifts
         /\ fr' = IF cs /\ Shifts THEN <<>> ELSE fr
         /\ clocked' = IF cs /\ Shifts THEN 0 ELSE clocked
         /\ frames' = IF cs /\ Shifts THEN Append(frames, [to |-> heard, sent |-> fr]) ELSE frames
         /\ heard' = heard
         /\ bank' = IF cs /\ Shifts /\ board.ram /\ SelectsFlash THEN "FLASH" ELSE bank
<1>1. /\ Offered.valid /\ Offered.chip = 0 /\ Offered.mode = "Dummy"
  BY OctetsDiffer DEF Releasing
<1>2. cycle = 0 /\ nbits = 0 BY <1>1 DEF PinInv, BitOut
<1>3. ~Setup(Offered) /\ LastBit(Offered) BY <1>1, <1>2 DEF Setup, LastBit
<1>4. accepted <=> Shifts /\ timer = Divisor BY <1>3 DEF accepted, Accepted, Shifts, BitOver
<1>5. /\ timer' = IF ~Shifts THEN timer ELSE IF BitOver THEN 0 ELSE timer + 1
      /\ cycle' = IF ~Shifts \/ ~BitOver \/ Setup(Offered) THEN cycle
                  ELSE IF LastBit(Offered) THEN 0 ELSE (cycle + 1) % Bits
      /\ started' = IF Offered.valid /\ Offered.chip = 0 THEN FALSE
                    ELSE (started \/ (Shifts /\ BitOver))
      /\ cs' = IF Shifts THEN Offered.chip # 0 ELSE cs
  BY DEF Tick, CtlStep, Shifts
<1>6. timer' = (IF Shifts THEN Wrapped ELSE timer) /\ cycle' = 0 /\ ~started' /\ cs' = (cs /\ ~Shifts)
  BY <1>1, <1>2, <1>3, <1>5 DEF Wrapped, BitOver, PinInv
<1>7. (FrameEnds <=> cs /\ Shifts) /\ ~(~cs /\ cs') BY <1>6 DEF FrameEnds
<1>8. ~Rises /\ ~OctetIn BY <1>1 DEF Rises, OctetIn, ClockRises
<1> QED BY <1>2, <1>4, <1>6, <1>7, <1>8 DEF Tick, PinStep

LEMMA DrivePins ==
  ASSUME Tick, Offers, Driving, PinInv
  PROVE  /\ accepted <=> Shifts /\ timer = Divisor /\ started /\ cycle = Bits - 1
         /\ timer' = IF Shifts THEN Wrapped ELSE timer
         /\ started' <=> started \/ (Shifts /\ timer = Divisor)
         /\ cycle' = IF Shifts /\ timer = Divisor /\ started THEN (cycle + 1) % Bits ELSE cycle
         /\ cs' <=> cs \/ Shifts
         /\ ~FrameEnds
         /\ nbits' = IF Shifts /\ started /\ timer = Sample THEN (nbits + 1) % Bits ELSE nbits
         /\ fr' = IF Shifts /\ started /\ timer = Sample /\ nbits = Bits - 1 /\ Putting
                    THEN Append(fr, Offered.data) ELSE fr
         /\ clocked' = IF Shifts /\ started /\ timer = Sample /\ nbits = Bits - 1 /\ Reading
                         THEN clocked + 1 ELSE clocked
         /\ frames' = frames /\ bank' = bank
         /\ heard' = IF ~cs /\ Shifts
                       THEN IF bank = "RAM" THEN "RAM" ELSE IF awake = RES1 THEN "FLASH" ELSE "ASLEEP"
                       ELSE heard
<1>1. Offered.valid /\ Offered.chip = 1 /\ Offered.mode # "Dummy" BY OfferIs
<1>2. (Setup(Offered) <=> ~started) /\ (LastBit(Offered) <=> cycle = Bits - 1)
  BY <1>1 DEF Setup, LastBit
<1>3. accepted <=> Shifts /\ timer = Divisor /\ started /\ cycle = Bits - 1
  BY <1>2 DEF accepted, Accepted, Shifts, BitOver
<1>4. /\ timer' = IF ~Shifts THEN timer ELSE IF BitOver THEN 0 ELSE timer + 1
      /\ cycle' = IF ~Shifts \/ ~BitOver \/ Setup(Offered) THEN cycle
                  ELSE IF LastBit(Offered) THEN 0 ELSE (cycle + 1) % Bits
      /\ started' = IF Offered.valid /\ Offered.chip = 0 THEN FALSE
                    ELSE (started \/ (Shifts /\ BitOver))
      /\ cs' = IF Shifts THEN Offered.chip # 0 ELSE cs
  BY DEF Tick, CtlStep, Shifts
<1>5. /\ timer' = (IF Shifts THEN Wrapped ELSE timer)
      /\ started' = (started \/ (Shifts /\ timer = Divisor))
      /\ cs' = (cs \/ Shifts)
  BY <1>1, <1>4 DEF Wrapped, BitOver, PinInv
<1>6. cycle' = IF Shifts /\ timer = Divisor /\ started THEN (cycle + 1) % Bits ELSE cycle
  <2>1. Bits \in Nat \ {0} BY Timing
  <2>2. cycle = Bits - 1 => (cycle + 1) % Bits = 0 BY <2>1
  <2> QED BY <1>2, <1>4, <2>2 DEF BitOver
<1>7. ~FrameEnds BY <1>5 DEF FrameEnds
<1>8. Rises <=> Shifts /\ started /\ timer = Sample
  BY <1>1 DEF Rises, ClockRises, SampleTime, Shifts, Sample
<1>9. OctetIn <=> Shifts /\ started /\ timer = Sample /\ nbits = Bits - 1 BY <1>8 DEF OctetIn
<1>10. (Offered.mode = "Put" <=> Putting) /\ (Offered.mode = "Get" <=> Reading)
  BY OfferIs DEF Driving, Putting
<1>11. ~cs /\ cs' <=> ~cs /\ Shifts BY <1>5
<1>12. /\ nbits' = IF Rises THEN (nbits + 1) % Bits ELSE nbits
       /\ fr' = IF OctetIn /\ Putting THEN Append(fr, Offered.data) ELSE fr
       /\ clocked' = IF OctetIn /\ Reading THEN clocked + 1 ELSE clocked
       /\ frames' = frames /\ bank' = bank
       /\ heard' = IF ~cs /\ cs'
                     THEN IF bank = "RAM" THEN "RAM" ELSE IF awake = RES1 THEN "FLASH" ELSE "ASLEEP"
                     ELSE heard
  BY <1>7, <1>10 DEF Tick, PinStep
<1> QED BY <1>3, <1>5, <1>6, <1>7, <1>8, <1>9, <1>11, <1>12

LEMMA Kinds ==
  ASSUME Offers, ProgramStep
  PROVE  /\ Offered = Nothing => (Resumes /\ ~accepted) \/ ClientOver
         /\ Releasing => Keeps \/ FrameDone \/ ClientOver
         /\ Driving => Keeps \/ PutTaken \/ GetTaken
<1>1. Offered = Nothing => ~accepted BY AcceptedOffer
<1>2. Offered = Nothing => ~Putting /\ ~Reading /\ ~Releasing
  BY OctetsDiffer DEF Putting, Reading, Releasing
<1>3. Releasing => ~Putting /\ ~Reading /\ Offered # Nothing
  BY OctetsDiffer DEF Putting, Reading, Releasing
<1>4. Driving => ~Releasing /\ Offered # Nothing BY OfferIs, OctetsDiffer DEF Releasing
<1>5. Offered = Nothing => (Resumes /\ ~accepted) \/ ClientOver
  BY <1>1, <1>2 DEF ProgramStep, Keeps, Resumes, PutTaken, GetTaken, FrameDone
<1>6. Releasing => Keeps \/ FrameDone \/ ClientOver
  BY <1>3 DEF ProgramStep, Resumes, PutTaken, GetTaken
<1>7. Driving => Keeps \/ PutTaken \/ GetTaken
  BY <1>4 DEF ProgramStep, Resumes, FrameDone, ClientOver
<1> QED BY <1>5, <1>6, <1>7

LEMMA PinInvStep ==
  ASSUME Tick, Offers, Offers', ProgramStep, PinInv
  PROVE  PinInv'
<1>1. /\ Divisor \in Nat /\ Bits \in Nat \ {0} /\ Sample \in Nat /\ 1 < Sample /\ Sample < Divisor
  BY Timing
<1>2. /\ timer \in 0 .. Divisor /\ cycle \in 0 .. Bits - 1 /\ started \in BOOLEAN /\ cs \in BOOLEAN
      /\ nbits = IF BitOut THEN (cycle + 1) % Bits ELSE cycle
      /\ ~started \/ Offered.chip = 0 => cycle = 0
      /\ started => cs
      /\ started /\ Offered.chip = 0 => timer = 0
      /\ Releasing /\ timer > 0 => ~cs
      /\ PutCount > 0 /\ ~Releasing => started
      /\ PutCount = 0 /\ Offered.chip = 0 => ~cs
  BY DEF PinInv
<1>3. /\ PutCount \in Nat /\ (Releasing => PutCount > 0)
      /\ PutCount' \in Nat /\ (Releasing' => PutCount' > 0)
  BY DEF Offers
<1>4. CASE Offered = Nothing
  <2>1. /\ timer' = timer /\ cycle' = cycle /\ started' = started /\ cs' = cs /\ nbits' = nbits
    BY <1>4, IdlePins
  <2>2. Offered.chip = 0 /\ ~Releasing BY <1>4, OctetsDiffer DEF Releasing
  <2>3. PutCount' = PutCount \/ (PutCount' = 0 /\ PutCount = 0)
    BY <1>3, <1>4, <2>2, Kinds DEF Resumes, Same, ClientOver
  <2>4. cycle = 0 /\ nbits = 0 BY <1>2, <2>2 DEF BitOut
  <2>5. started => timer = 0 BY <1>2, <2>2
  <2>6. ~BitOut' BY <1>1, <2>1, <2>5 DEF BitOut
  <2> QED BY <1>1, <1>2, <1>3, <2>1, <2>2, <2>3, <2>4, <2>5, <2>6 DEF PinInv
<1>5. CASE Releasing
  <2>1. /\ accepted <=> Shifts /\ timer = Divisor
        /\ timer' = IF Shifts THEN Wrapped ELSE timer
        /\ ~started' /\ cycle' = 0 /\ nbits' = 0
        /\ cs' <=> cs /\ ~Shifts
    BY <1>5, ReleasePins
  <2>2. timer' \in 0 .. Divisor BY <1>1, <1>2, <2>1 DEF Wrapped
  <2>3. started' \in BOOLEAN /\ cs' \in BOOLEAN
    BY <1>2 DEF Tick, CtlStep
  <2>4. ~BitOut' BY <2>1 DEF BitOut
  <2>5. Releasing' /\ timer' > 0 => ~cs' BY <1>2, <1>5, <2>1
  <2>6. PutCount' > 0 /\ ~Releasing' => started'
    BY <1>3, <1>5, Kinds DEF Keeps, FrameDone, ClientOver, Releasing
  <2>7. PutCount' = 0 => ~cs'
    BY <1>3, <1>5, <2>1, Kinds, OctetsDiffer DEF Keeps, Same, FrameDone, ClientOver, Releasing
  <2>8. nbits' = IF BitOut' THEN (cycle' + 1) % Bits ELSE cycle' BY <2>1, <2>4
  <2>9. cycle' \in 0 .. Bits - 1 BY <1>1, <2>1
  <2> QED BY <2>1, <2>2, <2>3, <2>5, <2>6, <2>7, <2>8, <2>9 DEF PinInv
<1>6. CASE Driving
  <2>1. /\ accepted <=> Shifts /\ timer = Divisor /\ started /\ cycle = Bits - 1
        /\ timer' = IF Shifts THEN Wrapped ELSE timer
        /\ started' <=> started \/ (Shifts /\ timer = Divisor)
        /\ cycle' = IF Shifts /\ timer = Divisor /\ started THEN (cycle + 1) % Bits ELSE cycle
        /\ cs' <=> cs \/ Shifts
        /\ nbits' = IF Shifts /\ started /\ timer = Sample THEN (nbits + 1) % Bits ELSE nbits
    BY <1>6, DrivePins
  <2>2. timer' \in 0 .. Divisor BY <1>1, <1>2, <2>1 DEF Wrapped
  <2>3. started' \in BOOLEAN /\ cs' \in BOOLEAN
    BY <1>2 DEF Tick, CtlStep, PinInv
  <2>4. cycle' \in 0 .. Bits - 1 BY <1>1, <1>2, <2>1
  <2>5. Offered.chip = 1 /\ ~Releasing /\ Offered # Nothing
    BY <1>6, OfferIs, OctetsDiffer DEF Releasing
  <2>6. BitOut <=> started /\ timer > Sample BY <2>5 DEF BitOut
  <2>7. CASE ~accepted
    <3>1. Offered' = Offered /\ PutCount' = PutCount
      BY <1>3, <1>6, <2>7, Kinds DEF Keeps, PutTaken, GetTaken, Same
    <3>2. BitOut' <=> started' /\ timer' > Sample BY <2>5, <3>1 DEF BitOut
    <3>3. nbits' = IF BitOut' THEN (cycle' + 1) % Bits ELSE cycle'
      <4>1. CASE ~Shifts BY <1>2, <2>1, <2>6, <3>2, <4>1
      <4>2. CASE Shifts /\ timer = Divisor
        <5>1. timer' = 0 /\ ~BitOut' BY <1>1, <2>1, <3>2, <4>2 DEF Wrapped
        <5>2. nbits' = nbits BY <1>1, <2>1, <4>2
        <5> QED BY <1>1, <1>2, <2>1, <2>6, <4>2, <5>1, <5>2
      <4>3. CASE Shifts /\ timer # Divisor
        <5>1. timer' = timer + 1 /\ (started' <=> started) /\ cycle' = cycle
          BY <2>1, <4>3 DEF Wrapped
        <5>2. CASE started /\ timer = Sample
          <6>1. nbits = cycle /\ BitOut' BY <1>1, <1>2, <2>6, <3>2, <5>1, <5>2
          <6> QED BY <2>1, <4>3, <5>1, <5>2, <6>1
        <5>3. CASE ~(started /\ timer = Sample)
          <6>1. BitOut' <=> BitOut BY <1>1, <1>2, <2>6, <3>2, <5>1, <5>3
          <6> QED BY <1>2, <2>1, <5>1, <5>3, <6>1
        <5> QED BY <5>2, <5>3
      <4> QED BY <4>1, <4>2, <4>3
    <3>4. ~started' \/ Offered'.chip = 0 => cycle' = 0 BY <1>2, <2>1, <2>5, <3>1
    <3>5. started' => cs' BY <1>2, <2>1
    <3>6. PutCount' > 0 => started' BY <1>2, <2>1, <2>5, <3>1
    <3>7. Offered'.chip = 1 /\ ~Releasing' BY <2>5, <3>1 DEF Releasing
    <3> QED BY <2>2, <2>3, <2>4, <3>3, <3>4, <3>5, <3>6, <3>7 DEF PinInv
  <2>8. CASE accepted
    <3>1. /\ timer' = 0 /\ started' /\ cs' BY <2>1, <2>8 DEF Wrapped
    <3>2. (Bits - 1) + 1 = Bits /\ Bits % Bits = 0 BY <1>1
    <3>3. cycle' = 0 /\ nbits = 0 BY <1>1, <1>2, <2>1, <2>6, <2>8, <3>2
    <3>4. nbits' = 0 BY <1>1, <2>1, <2>8, <3>3
    <3>5. ~BitOut' BY <1>1, <3>1 DEF BitOut
    <3>6. PutCount' > 0
      <4>1. Reading => PutCount > 0 BY DEF Offers
      <4> QED BY <1>3, <1>6, <2>8, <4>1, Kinds DEF Keeps, PutTaken, GetTaken, Same
    <3> QED BY <1>1, <2>2, <2>3, <2>4, <3>1, <3>3, <3>4, <3>5, <3>6 DEF PinInv
  <2> QED BY <2>7, <2>8
<1> QED BY <1>4, <1>5, <1>6, OfferIs

\* The last bit of an octet is clocked.
LastClocked == Driving /\ Shifts /\ started /\ timer = Sample /\ nbits = Bits - 1

\* The octets clocked so far go on with the last bits.
LEMMA OctetsClocked ==
  ASSUME Tick, Offers, Offers', ProgramStep, PinInv
  PROVE  /\ PutsOut \in Nat /\ GetsOut \in Nat
         /\ ~ClientOver =>
              GetsOut' = GetsOut + (IF LastClocked /\ Reading THEN 1 ELSE 0)
         /\ ~ClientOver /\ ~FrameDone =>
              PutsOut' = PutsOut + (IF LastClocked /\ Putting THEN 1 ELSE 0) /\ Over' = Over
         /\ LastClocked => ~OctetOut
<1>1. /\ Divisor \in Nat /\ Bits \in Nat \ {0} /\ Sample \in Nat /\ 1 < Sample /\ Sample < Divisor
  BY Timing
<1>2. /\ timer \in 0 .. Divisor /\ cycle \in 0 .. Bits - 1 /\ started \in BOOLEAN
      /\ nbits = IF BitOut THEN (cycle + 1) % Bits ELSE cycle
      /\ started /\ Offered.chip = 0 => timer = 0
  BY DEF PinInv
<1>3. PutCount \in Nat /\ GetCount \in Nat /\ Over \in Nat /\ PutsOut \in Nat /\ GetsOut \in Nat
  BY DEF Offers, PutsOut, GetsOut
<1>4. /\ PutsOut = PutCount + (IF OctetOut /\ Putting THEN 1 ELSE 0)
      /\ GetsOut = GetCount + (IF OctetOut /\ Reading THEN 1 ELSE 0)
      /\ PutsOut' = PutCount' + (IF OctetOut' /\ Putting' THEN 1 ELSE 0)
      /\ GetsOut' = GetCount' + (IF OctetOut' /\ Reading' THEN 1 ELSE 0)
  BY DEF PutsOut, GetsOut, Putting, Reading
<1>5. CASE Offered = Nothing
  <2>1. /\ timer' = timer /\ started' = started /\ ~Driving /\ Offered.chip = 0
    BY <1>5, IdlePins, OfferIs, OctetsDiffer
  <2>2. ~OctetOut /\ ~OctetOut' /\ ~LastClocked
    BY <1>1, <1>2, <2>1 DEF OctetOut, BitOut, LastClocked
  <2>3. CASE ClientOver
    <3>1. Offered # Release BY <1>5, OctetsDiffer
    <3>2. ~FrameDone BY <3>1 DEF FrameDone, Releasing
    <3> QED BY <1>3, <1>4, <2>2, <2>3
  <2>4. CASE Resumes
    <3>1. PutCount' = PutCount /\ GetCount' = GetCount /\ Over' = Over
      BY <1>3, <2>4 DEF Resumes, Same
    <3> QED BY <1>3, <1>4, <2>2, <3>1
  <2> QED BY <1>5, <2>3, <2>4, Kinds
<1>6. CASE Releasing
  <2>1. ~started' /\ ~Driving /\ Offered.chip = 0
    BY <1>6, ReleasePins, OfferIs, OctetsDiffer DEF Releasing
  <2>2. ~OctetOut /\ ~OctetOut' /\ ~LastClocked
    BY <2>1 DEF OctetOut, BitOut, LastClocked
  <2>3. CASE ClientOver BY <1>3, <1>4, <2>2, <2>3, <1>6 DEF ClientOver, FrameDone
  <2>4. CASE Keeps
    <3>1. PutCount' = PutCount /\ GetCount' = GetCount /\ Over' = Over
      BY <1>3, <2>4 DEF Keeps, Same
    <3> QED BY <1>3, <1>4, <2>2, <3>1
  <2>5. CASE FrameDone
    <3>1. GetCount' = GetCount BY <2>5 DEF FrameDone
    <3> QED BY <1>3, <1>4, <2>2, <2>5, <3>1
  <2> QED BY <1>6, <2>3, <2>4, <2>5, Kinds
<1>7. CASE Driving
  <2>1. /\ accepted <=> Shifts /\ timer = Divisor /\ started /\ cycle = Bits - 1
        /\ timer' = IF Shifts THEN Wrapped ELSE timer
        /\ started' <=> started \/ (Shifts /\ timer = Divisor)
        /\ cycle' = IF Shifts /\ timer = Divisor /\ started THEN (cycle + 1) % Bits ELSE cycle
    BY <1>7, DrivePins
  <2>2. Offered.chip = 1 /\ (Putting <=> ~Reading) BY <1>7, OfferIs DEF Driving
  <2>3. OctetOut <=> started /\ timer > Sample /\ cycle = Bits - 1 BY <2>2 DEF OctetOut, BitOut
  <2>4. LastClocked => nbits = cycle /\ ~OctetOut /\ Shifts /\ started /\ timer = Sample /\ cycle = Bits - 1
    BY <1>1, <1>2, <2>3 DEF LastClocked, BitOut
  <2>5. CASE ~accepted
    <3>1. Offered' = Offered /\ PutCount' = PutCount /\ GetCount' = GetCount /\ Over' = Over
      BY <1>3, <1>7, <2>5, Kinds DEF Keeps, PutTaken, GetTaken, Same
    <3>2. (Putting' <=> Putting) /\ (Reading' <=> Reading) BY <3>1 DEF Putting, Reading
    <3>3. OctetOut' <=> started' /\ timer' > Sample /\ cycle' = Bits - 1
      BY <2>2, <3>1 DEF OctetOut, BitOut
    <3>4. CASE LastClocked
      <4>1. timer' = Sample + 1 /\ cycle' = Bits - 1 /\ started' BY <1>1, <2>1, <2>4, <3>4 DEF Wrapped
      <4>2. OctetOut' /\ ~OctetOut BY <1>1, <2>4, <3>3, <3>4, <4>1
      <4> QED BY <1>3, <1>4, <2>4, <3>1, <3>2, <3>4, <4>2
    <3>5. CASE ~LastClocked
      <4>1. CASE ~Shifts
        <5>1. OctetOut' <=> OctetOut BY <2>1, <2>3, <3>3, <4>1
        <5> QED BY <1>3, <1>4, <3>1, <3>2, <3>5, <5>1
      <4>2. CASE Shifts /\ timer = Divisor
        <5>1. ~OctetOut BY <2>1, <2>3, <2>5, <4>2
        <5>2. ~OctetOut' BY <1>1, <2>1, <3>3, <4>2 DEF Wrapped
        <5> QED BY <1>3, <1>4, <3>1, <3>2, <3>5, <5>1, <5>2
      <4>3. CASE Shifts /\ timer # Divisor
        <5>1. timer' = timer + 1 /\ (started' <=> started) /\ cycle' = cycle
          BY <2>1, <4>3 DEF Wrapped
        <5>2. started /\ timer = Sample => cycle # Bits - 1
          BY <1>1, <1>2, <1>7, <3>5, <4>3 DEF LastClocked, BitOut
        <5>3. OctetOut' <=> OctetOut BY <1>1, <1>2, <2>3, <3>3, <5>1, <5>2
        <5> QED BY <1>3, <1>4, <3>1, <3>2, <3>5, <5>3
      <4> QED BY <4>1, <4>2, <4>3
    <3> QED BY <3>4, <3>5
  <2>6. CASE accepted
    <3>1. timer' = 0 /\ OctetOut /\ ~LastClocked BY <1>1, <2>1, <2>3, <2>4, <2>6 DEF Wrapped
    <3>2. ~OctetOut' BY <1>1, <3>1 DEF OctetOut, BitOut
    <3>3. /\ Putting => PutCount' = PutCount + 1 /\ GetCount' = GetCount /\ Over' = Over
          /\ Reading => PutCount' = PutCount /\ GetCount' = GetCount + 1 /\ Over' = Over
      BY <1>3, <1>7, <2>2, <2>6, Kinds DEF Keeps, PutTaken, GetTaken, Same
    <3> QED BY <1>3, <1>4, <1>7, <2>2, <3>1, <3>2, <3>3 DEF Driving
  <2> QED BY <1>3, <2>4, <2>5, <2>6
<1> QED BY <1>5, <1>6, <1>7, OfferIs

-----------------------------------------------------------------------------
(* The frames. *)

LEMMA CommandTyped ==
  ASSUME TopTypes, Over < Len(Commands), Over \in Nat
  PROVE  Command \in Seq(Nat) /\ Commands[Over + 1] = Command /\ Over + 1 \in 1 .. Len(Commands)
<1>1. Commands \in Seq(Seq(Nat)) BY CommandList DEF TopTypes
<1>2. Len(Commands) \in Nat BY <1>1
<1>3. Over + 1 \in 1 .. Len(Commands) BY <1>2
<1> QED BY <1>1, <1>3 DEF Command

\* A sequence is its length and its elements.
LEMMA SameSequence ==
  ASSUME NEW s \in Seq(Nat), NEW t \in Seq(Nat), Len(s) = Len(t),
         \A k \in 1 .. Len(s) : s[k] = t[k]
  PROVE  s = t
OBVIOUS

\* Who hears a frame may hear it.
LEMMA HeardMeant ==
  ASSUME TopTypes, Offers, FrameInv, DeviceInv, Releasing, cs
  PROVE  heard \in MayHear(Command)
<1>1. /\ RamFrames \in {0, 1} /\ (board.ram <=> RamFrames = 1)
      /\ board.ram /\ Over = 0 => Command = <<0>>
      /\ Over = RamFrames => Command = <<MODE_BIT_RESET>>
      /\ Over = RamFrames + 1 => Command = <<RELEASE_POWERDOWN>>
  BY CommandOf
<1>2. Len(frames) = Over /\ Over \in Nat BY DEF FrameInv, FramesOver, Offers
<1>3. heard \in {"FLASH", "ASLEEP", "RAM"} BY DEF DeviceInv
<1>4. heard = "FLASH" => heard \in MayHear(Command) BY DEF MayHear
<1>5. CASE Over = 0 /\ board.ram
  <2>1. <<0>> # <<MODE_BIT_RESET>> /\ <<0>> # <<RELEASE_POWERDOWN>>
    BY DEF MODE_BIT_RESET, RELEASE_POWERDOWN
  <2> QED BY <1>1, <1>3, <1>5, <2>1 DEF MayHear
<1>6. CASE Over \in {RamFrames, RamFrames + 1}
  <2>1. heard # "RAM" BY <1>1, <1>2, <1>6 DEF DeviceInv
  <2>2. Command \in {<<MODE_BIT_RESET>>, <<RELEASE_POWERDOWN>>} BY <1>1, <1>6
  <2>3. <<0>> # <<MODE_BIT_RESET>> /\ <<0>> # <<RELEASE_POWERDOWN>>
    BY DEF MODE_BIT_RESET, RELEASE_POWERDOWN
  <2> QED BY <1>3, <2>1, <2>2, <2>3 DEF MayHear
<1>7. CASE Over >= RamFrames + 2
  <2>1. heard = "FLASH" BY <1>1, <1>2, <1>7 DEF DeviceInv
  <2> QED BY <1>4, <2>1
<1> QED BY <1>1, <1>2, <1>5, <1>6, <1>7

\* A frame that ends is the command, whole.
LEMMA FrameWhole ==
  ASSUME TopTypes, Offers, PinInv, FrameInv, Releasing, cs
  PROVE  fr = Command
<1>1. PutCount = Len(Command) /\ Over < Len(Commands) /\ Over \in Nat
  BY OctetsDiffer DEF Offers, Releasing
<1>2. Command \in Seq(Nat) BY <1>1, CommandTyped
<1>3. ~OctetOut BY OctetsDiffer DEF OctetOut, BitOut, Releasing
<1>4. PutsOut = Len(Command) BY <1>1, <1>2, <1>3 DEF PutsOut
<1>5. fr \in Seq(Nat) /\ Len(fr) = Len(Command) /\ \A k \in 1 .. Len(fr) : fr[k] = Command[k]
  BY <1>4 DEF FrameInv, FrameOpen
<1> QED BY <1>2, <1>5, SameSequence

LEMMA FramesStep ==
  ASSUME Tick, TopTypes, Offers, Offers', ProgramStep, PinInv, PinInv', FrameInv, DeviceInv
  PROVE  FramesOver'
<1>0. FramesOver /\ FrameOpen BY DEF FrameInv
<1>1. Commands' = Commands BY SameBoard DEF Tick
<1>2. ASSUME NEW n PROVE MayHear(n)' = MayHear(n) BY DEF MayHear
<1>3. /\ Over \in Nat /\ PutCount \in Nat /\ (Releasing => PutCount > 0)
      /\ (Releasing' => PutCount' > 0)
  BY DEF Offers
<1>4. /\ Releasing /\ timer > 0 => ~cs
      /\ PutCount > 0 /\ ~Releasing => started
      /\ started => cs
      /\ cs \in BOOLEAN /\ cs' \in BOOLEAN
  BY DEF PinInv
<1>5. CASE ~(Releasing /\ cs /\ Shifts)
  <2>1. frames' = frames
    <3>1. CASE Offered = Nothing BY <3>1, IdlePins
    <3>2. CASE Releasing BY <1>5, <3>2, ReleasePins
    <3>3. CASE Driving BY <3>3, DrivePins
    <3> QED BY <3>1, <3>2, <3>3, OfferIs
  <2>2. Len(frames') = Over' + (IF Releasing' /\ ~cs' THEN 1 ELSE 0)
    <3>1. Len(frames) = Over + (IF Releasing /\ ~cs THEN 1 ELSE 0) BY <1>0 DEF FramesOver
    <3>2. CASE Offered = Nothing
      <4>1. cs' = cs /\ ~Releasing BY <3>2, IdlePins, OctetsDiffer DEF Releasing
      <4>2. Over' = Over BY <1>3, <3>2, <4>1, Kinds DEF Resumes, Same, ClientOver
      <4>3. Releasing' => cs'
        <5>1. Releasing' => PutCount > 0
          BY <1>3, <3>2, Kinds DEF Resumes, Same, ClientOver
        <5> QED BY <1>4, <4>1, <5>1
      <4> QED BY <2>1, <3>1, <4>1, <4>2, <4>3
    <3>3. CASE Releasing
      <4>1. (cs' <=> cs /\ ~Shifts) /\ (accepted <=> Shifts /\ timer = Divisor)
        BY <3>3, ReleasePins
      <4>2. cs' <=> cs BY <1>5, <3>3, <4>1
      <4>3. CASE Keeps
        <5>1. Releasing' /\ Over' = Over BY <1>3, <3>3, <4>3 DEF Keeps, Same, Releasing
        <5> QED BY <2>1, <3>1, <3>3, <4>2, <5>1
      <4>4. CASE FrameDone
        <5>1. ~cs /\ ~Releasing' /\ Over' = Over + 1
          BY <1>5, <3>3, <4>1, <4>4 DEF FrameDone, Releasing
        <5> QED BY <1>3, <2>1, <3>1, <3>3, <5>1
      <4>5. CASE ClientOver
        <5>1. ~cs /\ ~Releasing' /\ Over' = Over + 1
          BY <3>3, <4>5, OctetsDiffer DEF ClientOver, Releasing
        <5> QED BY <1>3, <2>1, <3>1, <3>3, <5>1
      <4> QED BY <3>3, <4>3, <4>4, <4>5, Kinds
    <3>4. CASE Driving
      <4>1. ~Releasing BY <3>4, OfferIs
      <4>2. Over' = Over BY <1>3, <3>4, Kinds DEF Keeps, PutTaken, GetTaken, Same
      <4>3. Releasing' => cs'
        <5>1. Releasing' => accepted
          BY <3>4, <4>1, Kinds DEF Keeps, PutTaken, GetTaken, Releasing
        <5>2. accepted => Shifts BY <3>4, DrivePins
        <5>3. Shifts => cs' BY <3>4, DrivePins
        <5> QED BY <5>1, <5>2, <5>3
      <4> QED BY <2>1, <3>1, <4>1, <4>2, <4>3
    <3> QED BY <3>2, <3>3, <3>4, OfferIs
  <2>3. \A k \in 1 .. Len(frames') :
          frames'[k].sent = Commands[k] /\ frames'[k].to \in MayHear(Commands[k])
    BY <1>0, <2>1 DEF FramesOver
  <2>4. frames' \in Seq(FrameTypes) BY <1>0, <2>1 DEF FramesOver
  <2> QED BY <1>1, <1>2, <2>2, <2>3, <2>4 DEF FramesOver
<1>6. CASE Releasing /\ cs /\ Shifts
  <2> DEFINE f == [to |-> heard, sent |-> fr]
  <2>1. frames' = Append(frames, f) /\ ~cs' BY <1>6, ReleasePins
  <2>2. ~accepted
    <3>1. timer \in 0 .. Divisor /\ Divisor > 0 BY Timing DEF PinInv
    <3>2. timer = 0 BY <1>4, <1>6, <3>1
    <3> QED BY <1>6, <3>1, <3>2, ReleasePins
  <2>3. Keeps BY <1>6, <2>2, Kinds DEF FrameDone, ClientOver, Releasing, Nothing, Release
  <2>4. Releasing' /\ Over' = Over BY <1>3, <1>6, <2>3 DEF Keeps, Same, Releasing
  <2>5. fr = Command /\ heard \in MayHear(Command) BY <1>6, FrameWhole, HeardMeant
  <2>6. Over < Len(Commands) BY <1>6, OctetsDiffer DEF Offers, Releasing
  <2>7. Len(frames) = Over /\ frames \in Seq(FrameTypes) BY <1>0, <1>3, <1>6 DEF FramesOver
  <2>8. f \in FrameTypes
    <3>1. heard \in {"FLASH", "ASLEEP", "RAM"} BY DEF DeviceInv
    <3>2. fr \in Seq(Nat) BY <1>0 DEF FrameOpen
    <3>3. fr \in Seq(Int) BY <3>2
    <3> QED BY <3>1, <3>3 DEF FrameTypes
  <2>9. f.sent = Commands[Over + 1] /\ f.to \in MayHear(Commands[Over + 1])
    BY <2>5 DEF Command
  <2>10. \A k \in 1 .. Len(frames) :
           frames[k].sent = Commands[k] /\ frames[k].to \in MayHear(Commands[k])
    BY <1>0 DEF FramesOver
  <2> HIDE DEF f
  <2>11. /\ frames' \in Seq(FrameTypes) /\ Len(frames') = Over + 1
         /\ frames'[Over + 1] = f
         /\ \A k \in 1 .. Over : frames'[k] = frames[k]
    BY <1>3, <2>1, <2>7, <2>8
  <2>12. \A k \in 1 .. Len(frames') :
           frames'[k].sent = Commands[k] /\ frames'[k].to \in MayHear(Commands[k])
    <3> SUFFICES ASSUME NEW k \in 1 .. Over + 1
                 PROVE  frames'[k].sent = Commands[k] /\ frames'[k].to \in MayHear(Commands[k])
      BY <2>11
    <3>1. CASE k = Over + 1 BY <2>9, <2>11, <3>1
    <3>2. CASE k \in 1 .. Over BY <2>7, <2>10, <2>11, <3>2
    <3> QED BY <1>3, <3>1, <3>2
  <2> QED BY <1>1, <1>2, <2>1, <2>4, <2>11, <2>12 DEF FramesOver
<1> QED BY <1>5, <1>6

LEMMA FrameOpenStep ==
  ASSUME Tick, TopTypes, Offers, Offers', ProgramStep, PinInv, PinInv', FrameInv
  PROVE  FrameOpen'
<1>0. FrameOpen BY DEF FrameInv
<1>1. Commands' = Commands BY SameBoard DEF Tick
<1>2. /\ PutsOut \in Nat /\ GetsOut \in Nat
      /\ ~ClientOver =>
           GetsOut' = GetsOut + (IF LastClocked /\ Reading THEN 1 ELSE 0)
      /\ ~ClientOver /\ ~FrameDone =>
           PutsOut' = PutsOut + (IF LastClocked /\ Putting THEN 1 ELSE 0) /\ Over' = Over
      /\ LastClocked => ~OctetOut
  BY OctetsClocked
<1>3. /\ PutCount > 0 /\ ~Releasing => started
      /\ PutCount = 0 /\ Offered.chip = 0 => ~cs
      /\ started => cs /\ cs \in BOOLEAN
      /\ timer \in 0 .. Divisor
  BY DEF PinInv
<1>4. /\ fr \in Seq(Nat)
      /\ cs => /\ Len(fr) = PutsOut /\ (\A k \in 1 .. Len(fr) : fr[k] = Command[k])
               /\ clocked = GetsOut
      /\ ~cs => fr = <<>> /\ clocked = 0
  BY <1>0 DEF FrameOpen
<1>5. Over' = Over => Command' = Command BY <1>1 DEF Command
<1>6. CASE Offered = Nothing
  <2>1. cs' = cs /\ fr' = fr /\ clocked' = clocked /\ Offered.chip = 0 /\ ~Driving /\ ~FrameDone
    BY <1>6, IdlePins, OfferIs, OctetsDiffer DEF FrameDone, Releasing
  <2>2. CASE ClientOver
    <3>1. ~cs BY <1>3, <1>6, <2>1, <2>2, OctetsDiffer DEF ClientOver, Releasing
    <3> QED BY <1>4, <2>1, <3>1 DEF FrameOpen
  <2>3. CASE ~ClientOver
    <3>1. PutsOut' = PutsOut /\ GetsOut' = GetsOut /\ Command' = Command
      BY <1>2, <1>5, <2>1, <2>3 DEF LastClocked
    <3> QED BY <1>4, <2>1, <3>1 DEF FrameOpen
  <2> QED BY <2>2, <2>3
<1>7. CASE Releasing
  <2>1. /\ accepted <=> Shifts /\ timer = Divisor
        /\ cs' <=> cs /\ ~Shifts
        /\ fr' = IF cs /\ Shifts THEN <<>> ELSE fr
        /\ clocked' = IF cs /\ Shifts THEN 0 ELSE clocked
        /\ ~Driving
    BY <1>7, ReleasePins, OfferIs
  <2>2. CASE cs'
    <3>1. ~ClientOver /\ ~FrameDone
      BY <1>7, <2>1, <2>2, OctetsDiffer DEF ClientOver, FrameDone, Releasing
    <3>2. PutsOut' = PutsOut /\ GetsOut' = GetsOut /\ Command' = Command
      BY <1>2, <1>5, <2>1, <3>1 DEF LastClocked
    <3> QED BY <1>4, <2>1, <2>2, <3>2 DEF FrameOpen
  <2>3. CASE ~cs'
    <3>1. fr' = <<>> /\ clocked' = 0 BY <1>4, <2>1, <2>3
    <3>2. fr' \in Seq(Nat) BY <3>1
    <3> QED BY <2>3, <3>1, <3>2 DEF FrameOpen
  <2> QED BY <2>2, <2>3
<1>8. CASE Driving
  <2>1. /\ cs' <=> cs \/ Shifts
        /\ fr' = IF Shifts /\ started /\ timer = Sample /\ nbits = Bits - 1 /\ Putting
                   THEN Append(fr, Offered.data) ELSE fr
        /\ clocked' = IF Shifts /\ started /\ timer = Sample /\ nbits = Bits - 1 /\ Reading
                        THEN clocked + 1 ELSE clocked
        /\ accepted => started
    BY <1>8, DrivePins
  <2>2. /\ fr' = IF LastClocked /\ Putting THEN Append(fr, Offered.data) ELSE fr
        /\ clocked' = IF LastClocked /\ Reading THEN clocked + 1 ELSE clocked
    BY <1>8, <2>1 DEF LastClocked
  <2>3. ~Releasing /\ Offered # Nothing BY <1>8, OfferIs, OctetsDiffer DEF Releasing
  <2>4. ~ClientOver /\ ~FrameDone BY <2>3 DEF ClientOver, FrameDone
  <2>5. /\ PutsOut' = PutsOut + (IF LastClocked /\ Putting THEN 1 ELSE 0)
        /\ GetsOut' = GetsOut + (IF LastClocked /\ Reading THEN 1 ELSE 0)
        /\ Command' = Command
    BY <1>2, <1>5, <2>4
  <2>6. CASE cs /\ LastClocked /\ Putting
    <3>1. Offered.data = Command[PutCount + 1] BY <2>6, OfferIs
    <3>2. PutsOut = PutCount BY <1>2, <2>6 DEF PutsOut, Offers
    <3>3. Offered.data \in Nat
      <4>1. PutCount \in Nat /\ PutCount < Len(Command) /\ Over < Len(Commands) /\ Over \in Nat
        BY <2>3, <2>6 DEF Offers
      <4>2. Command \in Seq(Nat) BY <4>1, CommandTyped
      <4>3. PutCount + 1 \in 1 .. Len(Command) BY <4>1, <4>2
      <4> QED BY <3>1, <4>2, <4>3
    <3>4. /\ fr' \in Seq(Nat) /\ Len(fr') = PutsOut + 1
          /\ fr'[PutsOut + 1] = Offered.data
          /\ \A k \in 1 .. PutsOut : fr'[k] = fr[k]
      BY <1>4, <2>2, <2>6, <3>3
    <3>5. \A k \in 1 .. Len(fr') : fr'[k] = Command[k]
      <4> SUFFICES ASSUME NEW k \in 1 .. PutsOut + 1 PROVE fr'[k] = Command[k]
        BY <3>4
      <4>1. CASE k = PutsOut + 1 BY <3>1, <3>2, <3>4, <4>1
      <4>2. CASE k \in 1 .. PutsOut BY <1>4, <2>6, <3>4, <4>2
      <4> QED BY <1>2, <4>1, <4>2
    <3>6. clocked' = clocked BY <2>2, <2>6, OfferIs
    <3>7. PutsOut' = PutsOut + 1 /\ GetsOut' = GetsOut BY <1>2, <2>5, <2>6, OfferIs
    <3> QED BY <1>4, <2>1, <2>5, <2>6, <3>4, <3>5, <3>6, <3>7 DEF FrameOpen
  <2>7. CASE cs /\ ~(LastClocked /\ Putting)
    <3>1. fr' = fr /\ PutsOut' = PutsOut BY <1>2, <2>2, <2>5, <2>7
    <3>2. clocked' = GetsOut' BY <1>4, <2>2, <2>5, <2>7
    <3> QED BY <1>4, <2>1, <2>5, <2>7, <3>1, <3>2 DEF FrameOpen
  <2>8. CASE ~cs
    <3>1. ~started /\ ~LastClocked BY <1>3, <2>8 DEF LastClocked
    <3>2. fr' = <<>> /\ clocked' = 0 BY <1>4, <2>2, <2>8, <3>1
    <3>3. PutsOut = 0 /\ GetsOut = 0
      <4>1. PutCount = 0 /\ GetCount = 0
        BY <1>3, <1>8, <2>3, <3>1 DEF Offers, Driving
      <4>2. ~OctetOut BY <3>1 DEF OctetOut, BitOut
      <4> QED BY <4>1, <4>2 DEF PutsOut, GetsOut
    <3>4. PutsOut' = 0 /\ GetsOut' = 0 BY <2>5, <3>1, <3>3
    <3>5. fr' \in Seq(Nat) /\ Len(fr') = 0 BY <3>2
    <3> QED BY <2>5, <3>2, <3>4, <3>5 DEF FrameOpen
  <2> QED BY <1>3, <2>6, <2>7, <2>8
<1> QED BY <1>6, <1>7, <1>8, OfferIs

-----------------------------------------------------------------------------
(* The flash and the flip-flop. *)

\* A frame opens, or ends, or neither.
LEMMA ChipSelect ==
  ASSUME Tick, Offers, PinInv
  PROVE  \/ /\ ~cs /\ cs' /\ Driving /\ ~FrameEnds /\ frames' = frames /\ bank' = bank
            /\ heard' = IF bank = "RAM" THEN "RAM" ELSE IF awake = RES1 THEN "FLASH" ELSE "ASLEEP"
         \/ /\ cs /\ ~cs' /\ Releasing /\ Shifts /\ FrameEnds /\ SelectsFlash
            /\ frames' = Append(frames, [to |-> heard, sent |-> fr])
            /\ heard' = heard /\ bank' = IF board.ram THEN "FLASH" ELSE bank
         \/ /\ (cs' <=> cs) /\ ~FrameEnds /\ frames' = frames /\ bank' = bank /\ heard' = heard
<1>1. CASE Offered = Nothing BY <1>1, IdlePins
<1>2. CASE Releasing
  <2>1. SelectsFlash BY <1>2, OctetsDiffer DEF Offers, Releasing
  <2>2. /\ cs' <=> cs /\ ~Shifts
        /\ FrameEnds <=> cs /\ Shifts
        /\ frames' = IF cs /\ Shifts THEN Append(frames, [to |-> heard, sent |-> fr]) ELSE frames
        /\ heard' = heard
        /\ bank' = IF cs /\ Shifts /\ board.ram /\ SelectsFlash THEN "FLASH" ELSE bank
    BY <1>2, ReleasePins
  <2> QED BY <1>2, <2>1, <2>2
<1>3. CASE Driving BY <1>3, DrivePins
<1> QED BY <1>1, <1>2, <1>3, OfferIs

LEMMA Awakes ==
  ASSUME Tick, awake \in -1 .. RES1
  PROVE  /\ awake' \in -1 .. RES1
         /\ awake = -1 /\ FrameEnds /\ heard = "ASLEEP" /\ fr = <<RELEASE_POWERDOWN>> => awake' = 0
         /\ awake = RES1 => awake' = RES1
         /\ awake \in 0 .. RES1 - 1 => awake' = awake + 1
         /\ awake' = -1 => awake = -1
<1>1. RES1 \in Nat BY BootAssumption
<1>2. awake' = CASE FrameEnds /\ awake = -1 /\ heard = "ASLEEP" /\ fr = <<RELEASE_POWERDOWN>> -> 0
                 [] awake \in 0 .. RES1 - 1 -> awake + 1
                 [] OTHER -> awake
  BY DEF Tick, PinStep
<1> DEFINE w == FrameEnds /\ heard = "ASLEEP" /\ fr = <<RELEASE_POWERDOWN>>
<1>3. CASE awake = -1
  <2>1. awake \notin 0 .. RES1 - 1 /\ awake # RES1 BY <1>1, <1>3
  <2>2. awake' = IF w THEN 0 ELSE awake BY <1>2, <1>3, <2>1
  <2> QED BY <1>1, <1>3, <2>1, <2>2
<1>4. CASE awake \in 0 .. RES1 - 1
  <2>1. awake # -1 /\ awake # RES1 BY <1>1, <1>4
  <2>2. awake' = awake + 1 BY <1>2, <1>4, <2>1
  <2> QED BY <1>1, <1>4, <2>1, <2>2
<1>5. CASE awake = RES1
  <2>1. awake # -1 /\ awake \notin 0 .. RES1 - 1 BY <1>1, <1>5
  <2>2. awake' = awake BY <1>2, <2>1
  <2> QED BY <1>1, <1>5, <2>1, <2>2
<1> QED BY <1>1, <1>3, <1>4, <1>5

\* While the flash wakes, FlashWake is on its last frame or waits.
Waking ==
  /\ client = "wake" /\ awake >= 0
  /\ wake = "WAKE_RELEASE" \/ (wake = "SETTLE" /\ awake + delay >= SettleCycles)

LEMMA WakingStep ==
  ASSUME ClientInv, Tick, Waking, awake \in -1 .. RES1
  PROVE  awake' = RES1 \/ Waking'
<1>1. TopTypes /\ delay \in Nat BY DEF ClientInv, WakeTypes
<1>2. ~ClientDone BY <1>1, WakeView DEF Waking
<1>3. client' = "wake" BY <1>2, TopMoves, OctetsDiffer DEF Waking
<1>4. WakeStep(accepted) BY DEF Tick, ClientStep, Waking
<1>5. RES1 \in Nat /\ SettleCycles \in Nat /\ RES1 <= SettleCycles BY BootAssumption
<1>6. CASE awake = RES1 BY <1>6, Awakes
<1>7. CASE awake # RES1
  <2>1. awake \in 0 .. RES1 - 1 BY <1>5, <1>7 DEF Waking
  <2>2. awake' = awake + 1 BY <2>1, Awakes
  <2>3. CASE wake = "WAKE_RELEASE" /\ accepted
    <3>1. wake' = "SETTLE" /\ delay' = SettleCycles
      BY <1>4, <2>3 DEF WakeStep, On, WakeNext
    <3> QED BY <1>3, <1>5, <2>1, <2>2, <3>1 DEF Waking
  <2>4. CASE wake = "WAKE_RELEASE" /\ ~accepted
    <3>1. wake' = "WAKE_RELEASE" BY <1>4, <2>4 DEF WakeStep, On
    <3> QED BY <1>3, <1>5, <2>1, <2>2, <3>1 DEF Waking
  <2>5. CASE wake = "SETTLE"
    <3>1. awake + delay >= SettleCycles BY <2>5 DEF Waking
    <3>2. delay # 0 BY <1>1, <1>5, <2>1, <3>1
    <3>3. wake' = "SETTLE" /\ delay' = delay - 1 BY <1>4, <2>5, <3>2 DEF WakeStep, Settled
    <3> QED BY <1>1, <1>3, <1>5, <2>1, <2>2, <3>1, <3>3 DEF Waking
  <2> QED BY <2>3, <2>4, <2>5 DEF Waking
<1> QED BY <1>6, <1>7

LEMMA DeviceInvStep ==
  ASSUME ClientInv, Tick, Offers, PinInv, FrameInv, DeviceInv
  PROVE  DeviceInv'
<1>1. TopTypes BY DEF ClientInv
<1>2. /\ bank \in {"FLASH", "RAM"} /\ heard \in {"FLASH", "ASLEEP", "RAM"}
      /\ ~board.ram => bank = "FLASH"
      /\ Len(frames) >= RamFrames => bank = "FLASH"
      /\ awake \in -1 .. RES1
      /\ cs /\ Len(frames) >= RamFrames => heard # "RAM"
      /\ cs /\ Len(frames) >= RamFrames /\ awake = -1 => heard = "ASLEEP"
      /\ cs /\ heard = "FLASH" => awake = RES1
      /\ cs /\ Len(frames) >= RamFrames + 2 => heard = "FLASH"
      /\ Len(frames) >= RamFrames + 2 => awake = RES1 \/ Waking
  BY DEF DeviceInv, Waking
<1>3. RamFrames \in {0, 1} /\ RamFrames' = RamFrames /\ board' = board /\ RES1 \in Nat
  BY <1>1, CommandOf, SameBoard, BootAssumption DEF Tick
<1>4. frames \in Seq(FrameTypes) /\ Len(frames) = Over + (IF Releasing /\ ~cs THEN 1 ELSE 0)
  BY DEF FrameInv, FramesOver
<1>5. /\ awake' \in -1 .. RES1
      /\ awake = -1 /\ FrameEnds /\ heard = "ASLEEP" /\ fr = <<RELEASE_POWERDOWN>> => awake' = 0
      /\ awake = RES1 => awake' = RES1
      /\ awake' = -1 => awake = -1
  BY <1>2, Awakes
<1> DEFINE n == Len(frames)
<1>6. n \in Nat BY <1>4
<1>7. SUFFICES /\ bank' \in {"FLASH", "RAM"} /\ heard' \in {"FLASH", "ASLEEP", "RAM"}
               /\ ~board.ram => bank' = "FLASH"
               /\ n' >= RamFrames => bank' = "FLASH"
               /\ cs' /\ n' >= RamFrames => heard' # "RAM"
               /\ cs' /\ n' >= RamFrames /\ awake' = -1 => heard' = "ASLEEP"
               /\ cs' /\ heard' = "FLASH" => awake' = RES1
               /\ cs' /\ n' >= RamFrames + 2 => heard' = "FLASH"
               /\ n' >= RamFrames + 2 => awake' = RES1 \/ Waking'
  BY <1>3, <1>5 DEF DeviceInv, Waking
<1>8. n >= RamFrames + 2 => awake' = RES1 \/ Waking'
  BY <1>2, <1>5, WakingStep
<1>9. CASE /\ ~cs /\ cs' /\ Driving /\ frames' = frames /\ bank' = bank
           /\ heard' = IF bank = "RAM" THEN "RAM" ELSE IF awake = RES1 THEN "FLASH" ELSE "ASLEEP"
  <2>1. n' = n BY <1>9
  <2>2. ~Waking
    <3>1. Waking => Offered = WakeOctet /\ wake \in {"WAKE_RELEASE", "SETTLE"}
      BY <1>1, WakeView DEF Waking
    <3>2. Waking => Offered \in {Release, Nothing} BY <3>1 DEF WakeOctet
    <3> QED BY <1>9, <3>2, OfferIs DEF Releasing
  <2> HIDE DEF n
  <2>3. n >= RamFrames + 2 => n >= RamFrames BY <1>3, <1>6
  <2>4. awake = -1 => awake # RES1 BY <1>3
  <2> QED BY <1>2, <1>5, <1>8, <1>9, <2>1, <2>2, <2>3, <2>4 DEF n
<1>10. CASE /\ cs /\ ~cs' /\ Releasing /\ Shifts /\ FrameEnds
            /\ frames' = Append(frames, [to |-> heard, sent |-> fr])
            /\ heard' = heard /\ bank' = IF board.ram THEN "FLASH" ELSE bank
  <2>1. n' = n + 1
    <3>1. [to |-> heard, sent |-> fr] \in FrameTypes
      <4>1. fr \in Seq(Nat) BY DEF FrameInv, FrameOpen
      <4>2. fr \in Seq(Int) BY <4>1
      <4> QED BY <1>2, <4>2 DEF FrameTypes
    <3> QED BY <1>4, <1>10, <3>1
  <2>2. ~accepted
    <3>1. timer \in 0 .. Divisor /\ Divisor > 0 BY Timing DEF PinInv
    <3>2. timer = 0 BY <1>10, <3>1 DEF PinInv
    <3> QED BY <1>10, <3>1, <3>2, ReleasePins
  <2>3. n = Over BY <1>4, <1>6, <1>10 DEF Offers
  <2>4. CASE n = RamFrames + 1
    <3>1. client = "wake" /\ wake = "WAKE_RELEASE" BY <1>10, <2>3, <2>4 DEF Offers
    <3>2. Command = <<RELEASE_POWERDOWN>> BY <1>1, <2>3, <2>4, CommandOf
    <3>3. fr = <<RELEASE_POWERDOWN>> BY <1>1, <1>10, <3>2, FrameWhole
    <3>4. awake' >= 0
      <4>1. n >= RamFrames BY <1>3, <2>4
      <4>2. awake = -1 => awake' = 0 BY <1>2, <1>5, <1>10, <3>3, <4>1
      <4> QED BY <1>2, <1>3, <1>5, <4>2
    <3>5. ~ClientDone /\ wake' = "WAKE_RELEASE"
      <4>1. WakeStep(accepted) BY <3>1 DEF Tick, ClientStep
      <4> QED BY <1>1, <2>2, <3>1, <4>1, WakeView DEF WakeStep, On
    <3>6. client' = "wake" BY <3>1, <3>5, TopMoves
    <3>7. Waking' BY <3>4, <3>5, <3>6 DEF Waking
    <3> QED BY <1>2, <1>3, <1>10, <3>7
  <2>5. CASE n >= RamFrames + 2
    <3> HIDE DEF n
    <3>1. awake = RES1 BY <1>2, <1>10, <2>5 DEF n
    <3> QED BY <1>2, <1>3, <1>5, <1>10, <3>1
  <2>6. CASE n <= RamFrames
    <3>1. ~(n' >= RamFrames + 2) BY <1>3, <1>6, <2>1, <2>6
    <3> QED BY <1>2, <1>3, <1>10, <3>1
  <2> HIDE DEF n
  <2>7. n <= RamFrames \/ n = RamFrames + 1 \/ n >= RamFrames + 2 BY <1>3, <1>6
  <2> QED BY <2>4, <2>5, <2>6, <2>7
<1>11. CASE /\ (cs' <=> cs) /\ frames' = frames /\ bank' = bank /\ heard' = heard
  <2>1. n' = n BY <1>11
  <2> HIDE DEF n
  <2> QED BY <1>2, <1>5, <1>8, <1>11, <2>1 DEF n
<1> QED BY <1>9, <1>10, <1>11, ChipSelect

-----------------------------------------------------------------------------
(* The way of a bit, from the pin to the Deframer. *)

LEMMA TagKinds ==
  /\ NoFrame \in Tags /\ Plain \in Tags /\ Len(NoFrame) = 0 /\ Len(Plain) = 1
  /\ \A s \in Samples : s \in Tags /\ Len(s) = 2
  /\ \A t \in Tags : Len(t) = 2 => t \in Samples /\ t # NoFrame
<1>1. Len(NoFrame) = 0 /\ Len(Plain) = 1 BY DEF NoFrame, Plain
<1>2. \A s \in Samples : Len(s) = 2
  <2> SUFFICES ASSUME NEW a \in Nat \X Nat \X Nat, NEW b \in Nat PROVE Len(<<a, b>>) = 2
    BY DEF Samples
  <2> QED OBVIOUS
<1> QED BY <1>1, <1>2 DEF Tags

\* A bit is sampled.
Enters == Reading /\ Shifts /\ timer = Sample

\* A bit that has arrived is taken into the register, or with the octet it ends.
Passes == Sampled /\ FrameReady(Ready)

LEMMA PipeMoves ==
  ASSUME Tick, Offers, PipeInv, Enters => Bit \in Samples
  PROVE  /\ pipe' \in [1 .. Latency -> Tags]
         /\ Enters => pipe'[1] = Bit /\ Len(pipe'[1]) = 2
         /\ ~Enters => Len(pipe'[1]) # 2
         /\ \A k \in 2 .. Latency : pipe'[k] = pipe[k - 1]
<1>1. pipe' = [k \in 1 .. Latency |->
                 IF k > 1 THEN pipe[k - 1]
                 ELSE IF ~Shifts THEN NoFrame
                 ELSE IF Offered.mode = "Get" /\ SampleTime THEN Bit ELSE Plain]
  BY DEF Tick, CtlStep, Shifts
<1>2. Offered.mode = "Get" <=> Reading
  BY OfferIs, OctetsDiffer DEF Driving, Releasing
<1>3. Latency \in Nat /\ 1 < Latency BY Timing
<1>4. pipe \in [1 .. Latency -> Tags] BY DEF PipeInv
<1>5. pipe'[1] = IF ~Shifts THEN NoFrame ELSE IF Enters THEN Bit ELSE Plain
  BY <1>1, <1>2, <1>3 DEF Enters, SampleTime, Sample
<1>6. \A k \in 2 .. Latency : pipe'[k] = pipe[k - 1] BY <1>1, <1>3
<1>7. pipe'[1] \in Tags /\ (Enters => Len(pipe'[1]) = 2) /\ (~Enters => Len(pipe'[1]) # 2)
  BY <1>5, TagKinds DEF Enters
<1>8. pipe' \in [1 .. Latency -> Tags]
  <2>1. pipe' = [k \in 1 .. Latency |-> pipe'[k]] BY <1>1
  <2>2. \A k \in 1 .. Latency : pipe'[k] \in Tags
    <3> SUFFICES ASSUME NEW k \in 1 .. Latency PROVE pipe'[k] \in Tags
      OBVIOUS
    <3>1. CASE k = 1 BY <1>7, <3>1
    <3>2. CASE k # 1
      <4>1. k \in 2 .. Latency /\ k - 1 \in 1 .. Latency BY <1>3, <3>2
      <4> QED BY <1>4, <1>6, <4>1
    <3> QED BY <3>1, <3>2
  <2> QED BY <2>1, <2>2
<1> QED BY <1>5, <1>6, <1>7, <1>8 DEF Enters

LEMMA BitArrives ==
  ASSUME PipeInv
  PROVE  /\ Sampled <=> InSkid \/ InPipe(Latency)
         /\ Sampled => Arriving = <<Due, Len(shreg)>> /\ Arriving \in Samples
         /\ Sampled => Flying
<1>1. Latency \in Nat /\ 1 < Latency BY Timing
<1>2. /\ pipe \in [1 .. Latency -> Tags] /\ skid \in Seq(Tags)
      /\ InPipe(Latency) => pipe[Latency] = <<Due, Len(shreg)>> /\ skid = <<>>
      /\ InSkid => skid[1] = <<Due, Len(shreg)>>
  BY <1>1 DEF PipeInv
<1>3. CASE skid = <<>>
  <2>1. Arriving = pipe[Latency] /\ ~InSkid BY <1>3 DEF Arriving, InSkid
  <2>2. pipe[Latency] \in Tags BY <1>1, <1>2
  <2> QED BY <1>1, <1>2, <2>1, <2>2, TagKinds DEF Sampled, InPipe, Flying
<1>4. CASE skid # <<>>
  <2>1. Arriving = skid[1] /\ (InSkid <=> Len(skid[1]) = 2) /\ skid[1] \in Tags
    BY <1>2, <1>4 DEF Arriving, InSkid
  <2> QED BY <1>2, <1>4, <2>1, TagKinds DEF Sampled, Flying
<1> QED BY <1>3, <1>4

LEMMA SkidMoves ==
  ASSUME Tick, PipeInv
  PROVE  /\ skid' \in Seq(Tags)
         /\ \A k \in 2 .. Len(skid') : Len(skid'[k]) # 2
         /\ Sampled /\ ~FrameReady(Ready) => skid' # <<>> /\ skid'[1] = Arriving
         /\ ~Sampled \/ FrameReady(Ready) => skid' = <<>> \/ Len(skid'[1]) # 2
         /\ skid = <<>> /\ FrameReady(Ready) => skid' = <<>>
<1>1. Latency \in Nat /\ 1 < Latency BY Timing
<1>2. /\ pipe \in [1 .. Latency -> Tags] /\ skid \in Seq(Tags)
      /\ InPipe(Latency) => skid = <<>>
      /\ \A k \in 2 .. Len(skid) : Len(skid[k]) # 2
  BY <1>1 DEF PipeInv
<1> DEFINE last == pipe[Latency]
           kept == IF skid # <<>> /\ FrameReady(Ready) THEN Tail(skid) ELSE skid
<1>3. skid' = IF last # NoFrame /\ SkidTakes(Ready) /\ Len(skid) < Latency
                THEN Append(kept, last) ELSE kept
  BY DEF Tick, CtlStep, NextSkid
<1>4. last \in Tags BY <1>1, <1>2
<1>5. ~FrameReady(Ready) => Sampled BY DEF FrameReady, octet_valid
<1>6. skid # <<>> => Len(last) # 2 BY <1>2 DEF InPipe
<1>7. CASE skid = <<>> /\ FrameReady(Ready)
  <2>1. skid' = <<>> BY <1>3, <1>7 DEF SkidTakes
  <2> QED BY <1>7, <2>1
<1>8. CASE skid = <<>> /\ ~FrameReady(Ready)
  <2>1. Arriving = last /\ Len(last) = 2 BY <1>5, <1>8 DEF Arriving, Sampled
  <2>2. last # NoFrame BY <1>4, <2>1, TagKinds
  <2> HIDE DEF last
  <2>3. skid' = Append(<<>>, last) BY <1>1, <1>3, <1>8, <2>2 DEF SkidTakes
  <2>4. skid' \in Seq(Tags) /\ Len(skid') = 1 /\ skid'[1] = last BY <1>4, <2>3
  <2> QED BY <1>5, <1>8, <2>1, <2>4
<1>9. CASE skid # <<>> /\ FrameReady(Ready)
  <2> DEFINE t == Tail(skid)
  <2>1. /\ t \in Seq(Tags) /\ Len(t) = Len(skid) - 1 /\ Len(skid) \in Nat \ {0}
        /\ \A k \in 1 .. Len(t) : t[k] = skid[k + 1]
    BY <1>2, <1>9
  <2>2. \A k \in 1 .. Len(t) : Len(t[k]) # 2
    <3> HIDE DEF t
    <3> SUFFICES ASSUME NEW k \in 1 .. Len(t) PROVE Len(t[k]) # 2
      OBVIOUS
    <3>1. k + 1 \in 2 .. Len(skid) BY <2>1
    <3> QED BY <1>2, <2>1, <3>1
  <2>3. skid' = Append(t, last) \/ skid' = t BY <1>3, <1>9
  <2> HIDE DEF t, last
  <2>4. Append(t, last) \in Seq(Tags) BY <1>4, <2>1
  <2>5. \A k \in 1 .. Len(Append(t, last)) : Len(Append(t, last)[k]) # 2
    BY <1>4, <1>6, <1>9, <2>1, <2>2
  <2>6. skid' \in Seq(Tags) /\ \A k \in 1 .. Len(skid') : Len(skid'[k]) # 2
    BY <2>1, <2>2, <2>3, <2>4, <2>5
  <2>7. skid' = <<>> \/ Len(skid'[1]) # 2 BY <2>6
  <2> QED BY <1>9, <2>6, <2>7
<1>10. CASE skid # <<>> /\ ~FrameReady(Ready)
  <2>1. skid' = Append(skid, last) \/ skid' = skid BY <1>3, <1>10
  <2>2. Len(skid) \in Nat \ {0} BY <1>2, <1>10
  <2>3. Arriving = skid[1] BY <1>2, <1>10 DEF Arriving
  <2> HIDE DEF last
  <2>4. /\ Append(skid, last) \in Seq(Tags) /\ Append(skid, last) # <<>>
        /\ Append(skid, last)[1] = skid[1]
        /\ \A k \in 2 .. Len(Append(skid, last)) : Len(Append(skid, last)[k]) # 2
    BY <1>2, <1>4, <1>6, <1>10, <2>2
  <2>5. /\ skid' \in Seq(Tags) /\ skid' # <<>> /\ skid'[1] = skid[1]
        /\ \A k \in 2 .. Len(skid') : Len(skid'[k]) # 2
    BY <1>2, <1>10, <2>1, <2>4
  <2> QED BY <1>5, <1>10, <2>3, <2>5
<1> QED BY <1>7, <1>8, <1>9, <1>10

LEMMA RegisterMoves ==
  ASSUME Tick, PipeInv
  PROVE  /\ ~Passes => shreg' = shreg
         /\ Passes /\ octet_valid => shreg' = <<>>
         /\ Passes /\ ~octet_valid => shreg' = Append(shreg, <<Due, Len(shreg)>>)
         /\ shreg' \in Seq(Samples)
         /\ taken <=> Passes /\ octet_valid
<1>1. shreg' = IF ~Sampled \/ ~FrameReady(Ready) THEN shreg
               ELSE IF octet_valid THEN <<>> ELSE Append(shreg, Arriving)
  BY DEF Tick, CtlStep, NextShreg
<1>2. Sampled => Arriving = <<Due, Len(shreg)>> /\ Arriving \in Samples BY BitArrives
<1>3. shreg \in Seq(Samples) BY DEF PipeInv
<1>4. taken <=> Passes /\ octet_valid BY DEF taken, Passes, FrameReady, octet_valid
<1>5. shreg' \in Seq(Samples) BY <1>1, <1>2, <1>3
<1> QED BY <1>1, <1>2, <1>4, <1>5 DEF Passes

\* A bit is sampled only when none is on its way.
LEMMA EntersAlone ==
  ASSUME Offers, PipeInv, Enters
  PROVE  ~Flying /\ skid = <<>> /\ FrameReady(Ready)
<1>1. /\ Divisor \in Nat /\ Latency \in Nat /\ Sample \in Nat /\ Sample < Divisor /\ Latency <= Divisor
  BY Timing
<1>2. skid = <<>> /\ FrameReady(Ready) BY DEF Enters, Shifts, Framed, StreamReady
<1>3. Age = Divisor BY <1>1 DEF Age, Enters
<1>4. \A k \in 1 .. Latency : InPipe(k) => Age <= k - 1 BY DEF PipeInv
<1>5. \A k \in 1 .. Latency : ~InPipe(k) BY <1>1, <1>3, <1>4
<1> QED BY <1>2, <1>5 DEF Flying, InSkid

\* A bit that is not at the end of the pipeline holds nothing up.
LEMMA NoneArrives ==
  ASSUME PipeInv, NEW k \in 1 .. Latency - 1, InPipe(k)
  PROVE  ~Sampled /\ skid = <<>> /\ FrameReady(Ready) /\ (Shifts <=> Offered.valid)
<1>1. Latency \in Nat BY Timing
<1>2. k \in 1 .. Latency /\ k # Latency /\ Latency \in 1 .. Latency BY <1>1
<1>3. skid = <<>> /\ ~InPipe(Latency) BY <1>2 DEF PipeInv
<1>4. ~Sampled BY <1>3, BitArrives DEF InSkid
<1> QED BY <1>3, <1>4 DEF FrameReady, octet_valid, Shifts, Framed, StreamReady

LEMMA AgeStep ==
  ASSUME timer \in 0 .. Divisor, timer' = timer \/ timer' = Wrapped
  PROVE  /\ Age \in Nat /\ Age' \in Nat /\ Age' <= Age + 1
         /\ timer = Sample /\ timer' = Wrapped => Age' = 0
BY Timing DEF Age, Wrapped

\* Where the bits are after a cycle.
LEMMA BitGoes ==
  ASSUME Tick, Offers, PipeInv, Enters => Bit \in Samples
  PROVE  /\ \A k \in 1 .. Latency : InPipe(k)' <=> (k = 1 /\ Enters) \/ (k > 1 /\ InPipe(k - 1))
         /\ InSkid' <=> Sampled /\ ~Passes
         /\ Flying' <=> Enters \/ (Flying /\ ~Passes)
         /\ Passes => Flying
<1>1. Latency \in Nat /\ 1 < Latency BY Timing
<1>2. ASSUME NEW k \in 1 .. Latency
      PROVE  InPipe(k)' <=> (k = 1 /\ Enters) \/ (k > 1 /\ InPipe(k - 1))
  <2>1. k = 1 \/ (k \in 2 .. Latency /\ k > 1) BY <1>1
  <2> QED BY <2>1, PipeMoves DEF InPipe
<1>3. InSkid' <=> Sampled /\ ~Passes
  <2>1. CASE Sampled /\ ~FrameReady(Ready)
    <3>1. skid' # <<>> /\ skid'[1] = Arriving /\ Len(Arriving) = 2 BY <2>1, SkidMoves DEF Sampled
    <3> QED BY <2>1, <3>1 DEF InSkid, Passes
  <2>2. CASE ~(Sampled /\ ~FrameReady(Ready)) BY <2>2, SkidMoves DEF InSkid, Passes
  <2> QED BY <2>1, <2>2
<1>4. Flying' <=> InSkid' \/ \E k \in 1 .. Latency : InPipe(k)' BY DEF Flying
<1>5. Sampled <=> InSkid \/ InPipe(Latency) BY BitArrives
<1>6. Passes => Flying BY BitArrives DEF Passes
<1>7. Flying' => Enters \/ (Flying /\ ~Passes)
  <2>1. InSkid' => Flying /\ ~Passes BY <1>3, BitArrives
  <2>2. ASSUME NEW k \in 1 .. Latency, InPipe(k)' PROVE Enters \/ (Flying /\ ~Passes)
    <3>1. CASE k > 1 /\ InPipe(k - 1)
      <4>1. k - 1 \in 1 .. Latency - 1 /\ k - 1 \in 1 .. Latency BY <1>1, <3>1
      <4> DEFINE j == k - 1
      <4>2. j \in 1 .. Latency - 1 /\ InPipe(j) BY <3>1, <4>1
      <4> HIDE DEF j
      <4>3. ~Sampled BY <4>2, NoneArrives
      <4>4. Flying BY <3>1, <4>1 DEF Flying
      <4> QED BY <4>3, <4>4 DEF Passes
    <3> QED BY <1>2, <2>2, <3>1
  <2> QED BY <1>4, <2>1, <2>2
<1>8. Enters => Flying'
  <2>1. 1 \in 1 .. Latency BY <1>1
  <2> QED BY <1>2, <1>4, <2>1
<1>9. Flying /\ ~Passes => Flying'
  <2> SUFFICES ASSUME Flying, ~Passes PROVE Flying'
    OBVIOUS
  <2>1. CASE Sampled BY <1>3, <1>4, <2>1
  <2>2. CASE ~Sampled
    <3>1. PICK k \in 1 .. Latency : InPipe(k) BY <1>5, <2>2 DEF Flying
    <3>2. k # Latency BY <1>5, <2>2, <3>1
    <3>3. k + 1 \in 1 .. Latency /\ k + 1 > 1 /\ (k + 1) - 1 = k BY <1>1, <3>2
    <3>4. InPipe(k + 1)' BY <1>2, <3>1, <3>3
    <3> QED BY <1>4, <3>3, <3>4
  <2> QED BY <2>1, <2>2
<1> QED BY <1>2, <1>3, <1>6, <1>7, <1>8, <1>9

-----------------------------------------------------------------------------
(* The bit that is sampled. *)

LEMMA ValueTyped ==
  ASSUME TopTypes, NEW n \in Nat
  PROVE  Value(n) \in Nat
<1>1. uid \in Seq(Nat) /\ secpage \in Seq(Nat) /\ slot \in Seq(Nat) BY DEF TopTypes
<1>2. ASSUME NEW s \in Seq(Nat), NEW k PROVE At(s, k) \in Nat BY <1>2 DEF At
<1> QED BY <1>1, <1>2 DEF Value

\* The first octet of the command of a client that reads.
LEMMA ReadCommand ==
  ASSUME TopTypes, Offers, Reading
  PROVE  /\ Over = FrameOf - 1 /\ Over >= RamFrames + 2 /\ Len(Command) \in Nat \ {0}
         /\ FrameOf \in Nat
         /\ FromUid => Command[1] = UID_CMD
         /\ FromPage => Command[1] = SECURITY_READ_CMD
         /\ client = "app" => Command[1] = FAST_READ
         /\ client = "we" => Command[1] = READ_STATUS
         /\ FromUid \/ FromPage \/ client = "app" \/ client = "we"
         /\ client = "app" \/ client = "we" => ~FromUid /\ ~FromPage
<1>1. Over = FrameOf - 1 /\ client \notin {"none", "wake"} BY DEF Offers
<1>2. RamFrames \in {0, 1} BY CommandOf
<1>3. FromUid \/ FromPage \/ client = "app" \/ client = "we" BY <1>1, ClientsCovered
<1>4. CASE FromUid
  <2>1. FrameOf = RamFrames + 3 /\ board.source = "uid" /\ ~FromPage /\ client = "serial"
    BY <1>4, UidView
  <2>2. Command = <<UID_CMD>> BY <1>1, <1>2, <2>1, CommandOf
  <2> QED BY <1>1, <1>2, <1>4, <2>1, <2>2, OfferLengths
<1>5. CASE FromPage
  <2>1. FrameOf = RamFrames + 3 /\ board.source = "page" /\ ~FromUid /\ client = "serial"
    BY <1>5, PageView
  <2>2. Command = Prologue BY <1>1, <1>2, <2>1, CommandOf
  <2>3. Prologue[1] = SECURITY_READ_CMD BY DEF Prologue
  <2> QED BY <1>1, <1>2, <1>5, <2>1, <2>2, <2>3, OfferLengths
<1>6. CASE client = "app"
  <2>1. FrameOf = RamFrames + 4 /\ auto_boot /\ ~FromUid /\ ~FromPage BY <1>6, AppView
  <2>2. Command = <<FAST_READ, 0, 0, 0, 0>> BY <1>1, <1>2, <2>1, CommandOf
  <2> QED BY <1>1, <1>2, <1>6, <2>1, <2>2, OfferLengths
<1>7. CASE client = "we"
  <2>1. FrameOf = RamFrames + 5 /\ "we" \in board.stay /\ ~FromUid /\ ~FromPage BY <1>7, WeView
  <2>2. Command = <<READ_STATUS>> BY <1>1, <1>2, <2>1, CommandOf
  <2> QED BY <1>1, <1>2, <1>7, <2>1, <2>2, OfferLengths
<1> QED BY <1>3, <1>4, <1>5, <1>6, <1>7

LEMMA BitSampled ==
  ASSUME TopTypes, Offers, PinInv, FrameInv, DeviceInv, PipeInv, OctetInv, Enters
  PROVE  /\ Bit = <<Due, Len(shreg)>> /\ Bit \in Samples
         /\ started /\ ~BitOut /\ nbits = Len(shreg) /\ GetsOut = consumed
<1>1. Divisor \in Nat /\ Bits \in Nat \ {0} /\ Sample \in Nat /\ Sample < Divisor BY Timing
<1>2. Reading /\ timer = Sample BY DEF Enters
<1>3. ~Releasing /\ ~Putting BY <1>2, OctetsDiffer DEF Reading, Releasing, Putting
<1>4. PutCount > 0 /\ PutCount \in Nat BY <1>2 DEF Offers
<1>5. started /\ cs BY <1>3, <1>4 DEF PinInv
<1>6. ~BitOut /\ ~OctetOut BY <1>1, <1>2 DEF BitOut, OctetOut
<1>7. GetsOut = consumed /\ BitsOut = Len(shreg) BY EntersAlone DEF OctetInv
<1>8. nbits = Len(shreg) BY <1>2, <1>7 DEF BitsOut
<1>9. /\ Over = FrameOf - 1 /\ Over >= RamFrames + 2 /\ Len(Command) \in Nat \ {0}
      /\ FrameOf \in Nat
      /\ FromUid => Command[1] = UID_CMD
      /\ FromPage => Command[1] = SECURITY_READ_CMD
      /\ client = "app" => Command[1] = FAST_READ
      /\ client = "we" => Command[1] = READ_STATUS
      /\ FromUid \/ FromPage \/ client = "app" \/ client = "we"
      /\ client = "app" \/ client = "we" => ~FromUid /\ ~FromPage
  BY <1>2, ReadCommand
<1>10. Over \in Nat BY DEF Offers
<1>11. Len(frames) = Over
  <2>1. Len(frames) = Over + (IF Releasing /\ ~cs THEN 1 ELSE 0) BY DEF FrameInv, FramesOver
  <2> QED BY <1>3, <1>10, <2>1
<1>12. heard = "FLASH" BY <1>5, <1>9, <1>11 DEF DeviceInv
<1>13. fr # <<>> /\ fr[1] = Command[1] /\ clocked = consumed
  <2>1. fr \in Seq(Nat) /\ Len(fr) = PutsOut /\ (\A k \in 1 .. Len(fr) : fr[k] = Command[k]) /\ clocked = GetsOut
    BY <1>5 DEF FrameInv, FrameOpen
  <2>2. PutsOut = PutCount BY <1>4, <1>6 DEF PutsOut
  <2> QED BY <1>4, <1>7, <2>1, <2>2
<1>14. Reply = Value(consumed)
  <2>1. UID_CMD # SECURITY_READ_CMD /\ UID_CMD # FAST_READ /\ UID_CMD # READ_STATUS
        /\ SECURITY_READ_CMD # FAST_READ /\ SECURITY_READ_CMD # READ_STATUS /\ FAST_READ # READ_STATUS
    BY DEF UID_CMD, SECURITY_READ_CMD, FAST_READ, READ_STATUS
  <2>2. Reply = CASE fr[1] = UID_CMD           -> At(uid, clocked - DummyBytes + 1)
                  [] fr[1] = SECURITY_READ_CMD -> At(secpage, clocked + 1)
                  [] fr[1] = FAST_READ         -> At(slot, clocked + 1)
                  [] fr[1] = READ_STATUS       -> IF wel THEN 2 ELSE 0
                  [] OTHER                     -> 255
    BY <1>12, <1>13 DEF Reply
  <2>3. CASE FromUid BY <1>9, <1>13, <2>1, <2>2, <2>3 DEF Value
  <2>4. CASE FromPage /\ ~FromUid BY <1>9, <1>13, <2>1, <2>2, <2>4 DEF Value
  <2>5. CASE client = "app" BY <1>9, <1>13, <2>1, <2>2, <2>5 DEF Value
  <2>6. CASE client = "we" BY <1>9, <1>13, <2>1, <2>2, <2>6 DEF Value
  <2> QED BY <1>9, <2>3, <2>4, <2>5, <2>6
<1>15. Len(frames) + 1 = FrameOf BY <1>9, <1>10, <1>11
<1>16. Bit = <<Due, Len(shreg)>> BY <1>8, <1>13, <1>14, <1>15 DEF Bit, Due
<1>17. Bit \in Samples
  <2>1. consumed \in Nat BY DEF TopTypes
  <2>2. Value(consumed) \in Nat BY <2>1, ValueTyped
  <2>3. Len(shreg) \in Nat BY DEF PipeInv
  <2> QED BY <1>9, <1>16, <2>1, <2>2, <2>3 DEF Samples, Due
<1> QED BY <1>5, <1>6, <1>7, <1>8, <1>16, <1>17

LEMMA EntersSampled ==
  ASSUME TopTypes, Offers, PinInv, FrameInv, DeviceInv, PipeInv, OctetInv
  PROVE  Enters => Bit \in Samples
BY BitSampled

-----------------------------------------------------------------------------
(* No bit is on its way when a client is done. *)

LEMMA AllTaken ==
  ASSUME TopTypes, OctetInv, GetCount = consumed, ~Reading
  PROVE  ~Flying /\ Len(shreg) = 0
<1>1. GetsOut = consumed /\ BitsOut = 0 /\ consumed \in Nat BY DEF GetsOut, BitsOut, TopTypes
<1> QED BY <1>1 DEF OctetInv

LEMMA WakeQuiet ==
  ASSUME ClientInv, Offers, OctetInv, sel = 1
  PROVE  ~Flying /\ Len(shreg) = 0
<1>1. TopTypes /\ (client \in {"none", "wake"} => consumed = 0) BY DEF ClientInv
<1>2. client \in {"none", "wake"} BY <1>1, ClientAt DEF Places
<1>3. GetCount = 0 BY <1>1, <1>2, NoneView, WakeView
<1>4. ~Reading BY <1>2 DEF Offers
<1> QED BY <1>1, <1>2, <1>3, <1>4, AllTaken

LEMMA OverQuiet ==
  ASSUME ClientInv, Offers, OctetInv, BackInv, ClientDone
  PROVE  ~Flying /\ Len(shreg) = 0
<1>0. TopTypes /\ WakeTypes /\ UidTypes /\ PageTypes /\ AppTypes /\ WeTypes BY DEF ClientInv
<1>1. CASE client = "none" BY <1>1, NoneView
<1>2. CASE client = "wake"
  BY <1>0, <1>2, WakeView, WakeQuiet
<1>3. CASE FromUid
  <2>1. /\ uid_r = "DONE" /\ Offered = UidOctet /\ GetCount = CountedDown(UidTotal, write_count)
    BY <1>0, <1>3, UidView
  <2>2. /\ read_count = UidTotal /\ consumed = CountedDown(UidTotal, read_count)
        /\ uid_w \in {"RELEASE", "DONE"} /\ write_count = UidTotal
    BY <1>0, <1>3, <2>1 DEF UidTypes
  <2>3. ~Reading BY <2>1, <2>2, OctetsDiffer DEF UidOctet, Reading
  <2> QED BY <1>0, <2>1, <2>2, <2>3, AllTaken
<1>4. CASE FromPage
  <2>1. page = "DONE" /\ Offered = PageOctet BY <1>0, <1>4, PageView
  <2>2. ~Flying BY <1>4, <2>1 DEF BackInv
  <2>3. ~Reading BY <2>1, OctetsDiffer DEF PageOctet, Reading
  <2> QED BY <2>2, <2>3 DEF OctetInv, BitsOut
<1>5. CASE client = "app"
  <2>1. app = "DONE" /\ Offered = AppOctet /\ GetCount = ProbeLen BY <1>0, <1>5, AppView
  <2>2. consumed = ProbeLen BY <1>0, <1>5, <2>1 DEF AppTypes
  <2>3. ~Reading BY <2>1, OctetsDiffer DEF AppOctet, Reading
  <2> QED BY <1>0, <2>1, <2>2, <2>3, AllTaken
<1>6. CASE client = "we"
  <2>1. we = "DONE" /\ Offered = WeOctet /\ GetCount = 1 BY <1>0, <1>6, WeView
  <2>2. consumed = 1 BY <1>0, <1>6, <2>1 DEF WeTypes
  <2>3. ~Reading BY <2>1, OctetsDiffer DEF WeOctet, Reading
  <2> QED BY <1>0, <2>1, <2>2, <2>3, AllTaken
<1> QED BY <1>0, <1>1, <1>2, <1>3, <1>4, <1>5, <1>6, ClientsCovered

-----------------------------------------------------------------------------
(* A bit on its way stays the next one. *)

LEMMA TimerMoves ==
  ASSUME Tick, Offers, PinInv
  PROVE  (timer' = timer \/ timer' = Wrapped) /\ (Shifts /\ Offered # Nothing => timer' = Wrapped)
BY OfferIs, IdlePins, ReleasePins, DrivePins

\* What a bit on its way relies on.
PathInv == ClientInv /\ Offers /\ PinInv /\ FrameInv /\ DeviceInv /\ PipeInv /\ OctetInv /\ BackInv

LEMMA DueStays ==
  ASSUME ClientInv, Tick, ~ClientDone, ~taken
  PROVE  Due' = Due /\ consumed' = consumed /\ FrameOf' = FrameOf
<1>1. /\ FrameOf' = FrameOf /\ (FromUid' <=> FromUid) /\ (FromPage' <=> FromPage)
      /\ ((client = "app")' <=> client = "app") /\ consumed' = consumed
  BY FollowsHolds DEF Follows
<1>2. uid' = uid /\ secpage' = secpage /\ slot' = slot /\ wel' = wel BY DEF Tick, given
<1>3. Value(consumed)' = Value(consumed) BY <1>1, <1>2 DEF Value
<1> QED BY <1>1, <1>3 DEF Due

LEMMA FlyingOn ==
  ASSUME PathInv, Tick, Flying, ~Passes
  PROVE  /\ Due' = Due /\ shreg' = shreg /\ consumed' = consumed
         /\ ~ClientDone /\ ~taken /\ ~Enters
<1>0. ClientInv /\ Offers /\ PipeInv /\ OctetInv /\ BackInv BY DEF PathInv
<1>1. ~Enters BY <1>0, EntersAlone
<1>2. ~ClientDone BY <1>0, OverQuiet
<1>3. shreg' = shreg /\ ~taken BY <1>0, RegisterMoves
<1> QED BY <1>0, <1>1, <1>2, <1>3, DueStays

LEMMA EntersOn ==
  ASSUME PathInv, Tick, ProgramStep, Enters
  PROVE  /\ Due' = Due /\ shreg' = shreg /\ consumed' = consumed
         /\ ~ClientDone /\ ~taken /\ ~Passes /\ Keeps
<1>0. /\ ClientInv /\ Offers /\ PipeInv /\ OctetInv /\ BackInv /\ PinInv BY DEF PathInv
<1>1. TopTypes BY <1>0 DEF ClientInv
<1>2. ~Flying BY <1>0, EntersAlone
<1>3. ~Passes /\ shreg' = shreg /\ ~taken
  BY <1>0, <1>2, BitArrives, RegisterMoves DEF Passes
<1>4. Driving BY DEF Enters, Driving
<1>5. ~accepted
  <2>1. Sample \in Nat /\ Sample < Divisor /\ Divisor \in Nat BY Timing
  <2> QED BY <1>0, <1>4, <2>1, DrivePins DEF Enters
<1>6. Keeps BY <1>0, <1>4, <1>5, Kinds DEF PutTaken, GetTaken
<1>7. ~ClientDone
  <2>1. ~ClientOver BY <1>0, <1>4, OfferIs, OctetsDiffer DEF ClientOver, Releasing
  <2> QED BY <2>1 DEF ProgramStep
<1> QED BY <1>0, <1>3, <1>6, <1>7, DueStays

LEMMA PipeInvStep ==
  ASSUME PathInv, Tick, ProgramStep
  PROVE  PipeInv'
<1>0. /\ ClientInv /\ Offers /\ PinInv /\ FrameInv /\ DeviceInv /\ PipeInv /\ OctetInv /\ BackInv
  BY DEF PathInv
<1>1. TopTypes BY <1>0 DEF ClientInv
<1>2. Enters => Bit = <<Due, Len(shreg)>> /\ Bit \in Samples BY <1>0, <1>1, BitSampled
<1>3. /\ pipe' \in [1 .. Latency -> Tags]
      /\ Enters => pipe'[1] = Bit
      /\ \A k \in 2 .. Latency : pipe'[k] = pipe[k - 1]
  BY <1>0, <1>2, PipeMoves
<1>4. /\ skid' \in Seq(Tags)
      /\ \A k \in 2 .. Len(skid') : Len(skid'[k]) # 2
      /\ Sampled /\ ~FrameReady(Ready) => skid' # <<>> /\ skid'[1] = Arriving
      /\ skid = <<>> /\ FrameReady(Ready) => skid' = <<>>
  BY <1>0, SkidMoves
<1>5. shreg' \in Seq(Samples) BY <1>0, RegisterMoves
<1>6. /\ \A k \in 1 .. Latency : InPipe(k)' <=> (k = 1 /\ Enters) \/ (k > 1 /\ InPipe(k - 1))
      /\ InSkid' <=> Sampled /\ ~Passes
  BY <1>0, <1>2, BitGoes
<1>7. Latency \in Nat /\ timer \in 0 .. Divisor BY <1>0, Timing DEF PinInv
<1>8. Age \in Nat /\ Age' \in Nat /\ Age' <= Age + 1 /\ (Enters => Age' = 0)
  <2>1. timer' = timer \/ timer' = Wrapped BY <1>0, TimerMoves
  <2>2. Enters => timer = Sample /\ timer' = Wrapped
    BY <1>0, TimerMoves, OctetsDiffer DEF Enters, Reading
  <2> QED BY <1>7, <2>1, <2>2, AgeStep
<1>9. ASSUME NEW k \in 1 .. Latency, InPipe(k)'
      PROVE  /\ pipe'[k] = <<Due', Len(shreg')>> /\ skid' = <<>>
             /\ Age' <= k - 1
             /\ \A j \in 1 .. Latency : InPipe(j)' => j = k
  <2>1. CASE k = 1 /\ Enters
    <3>1. skid' = <<>> /\ ~Flying BY <1>0, <1>4, <2>1, EntersAlone
    <3>2. pipe'[k] = <<Due', Len(shreg')>> BY <1>2, <1>3, <2>1, EntersOn
    <3>3. Age' <= k - 1 BY <1>8, <2>1
    <3>4. \A j \in 1 .. Latency : j > 1 => ~InPipe(j - 1)
      <4> SUFFICES ASSUME NEW j \in 1 .. Latency, j > 1 PROVE ~InPipe(j - 1)
        OBVIOUS
      <4>1. j - 1 \in 1 .. Latency BY <1>7
      <4> QED BY <3>1, <4>1 DEF Flying
    <3> QED BY <1>6, <2>1, <3>1, <3>2, <3>3, <3>4
  <2>2. CASE k > 1 /\ InPipe(k - 1)
    <3> DEFINE i == k - 1
    <3>1. i \in 1 .. Latency - 1 /\ i \in 1 .. Latency /\ InPipe(i) /\ i + 1 = k BY <1>7, <2>2
    <3>2. k \in 2 .. Latency BY <1>7, <2>2
    <3>3. pipe'[k] = pipe[i] BY <1>3, <3>2
    <3> HIDE DEF i
    <3>4. ~Sampled /\ skid = <<>> /\ FrameReady(Ready) BY <1>0, <3>1, NoneArrives
    <3>5. Flying /\ ~Passes BY <3>1, <3>4 DEF Flying, Passes
    <3>6. Due' = Due /\ shreg' = shreg /\ ~Enters BY <3>5, FlyingOn
    <3>7. /\ pipe[i] = <<Due, Len(shreg)>> /\ Age <= i - 1
          /\ \A j \in 1 .. Latency : InPipe(j) => j = i
      BY <1>0, <3>1 DEF PipeInv
    <3>8. Age' <= k - 1 BY <1>7, <1>8, <3>1, <3>7
    <3>9. \A j \in 1 .. Latency : InPipe(j)' => j = k
      <4> SUFFICES ASSUME NEW j \in 1 .. Latency, InPipe(j)' PROVE j = k
        OBVIOUS
      <4>1. j > 1 /\ InPipe(j - 1) BY <1>6, <3>6
      <4>2. j - 1 \in 1 .. Latency BY <1>7, <4>1
      <4>3. j - 1 = i BY <3>7, <4>1, <4>2
      <4> QED BY <1>7, <3>1, <4>3
    <3> QED BY <1>4, <3>3, <3>4, <3>6, <3>7, <3>8, <3>9
  <2> QED BY <1>6, <1>9, <2>1, <2>2
<1>10. InSkid' => skid'[1] = <<Due', Len(shreg')>>
  <2> SUFFICES ASSUME InSkid' PROVE skid'[1] = <<Due', Len(shreg')>>
    OBVIOUS
  <2>1. Sampled /\ ~Passes BY <1>6
  <2>2. Flying /\ Arriving = <<Due, Len(shreg)>> BY <1>0, <2>1, BitArrives
  <2>3. skid'[1] = Arriving BY <1>4, <2>1 DEF Passes
  <2> QED BY <2>1, <2>2, <2>3, FlyingOn
<1>11. sel' = 1 \/ FromPage' => skid' = <<>>
  <2>1. CASE sel = 1
    <3>1. ~Sampled BY <1>0, <2>1, WakeQuiet, BitArrives
    <3>2. skid = <<>> BY <1>0, <2>1 DEF PipeInv
    <3> QED BY <1>4, <3>1, <3>2 DEF FrameReady, octet_valid
  <2>2. CASE FromPage
    <3>1. skid = <<>> /\ Ready BY <1>0, <1>1, <2>2, PageView DEF PipeInv
    <3> QED BY <1>4, <3>1 DEF FrameReady
  <2>3. CASE sel # 1 /\ ~FromPage
    <3>1. TopTypes' /\ sel' = (IF ClientDone THEN sel + 1 ELSE sel) BY <1>0, TopMoves
    <3>2. sel \in {1, 2, 3, 4, 5} BY <1>1, ClientAt DEF Places
    <3>3. sel' # 1 BY <2>3, <3>1, <3>2
    <3>4. ~FromPage'
      <4>1. CASE ClientDone
        <5>1. PageView!:' BY PageView, PTL
        <5>2. sel' # 2 BY <2>3, <3>1, <3>2, <4>1
        <5> QED BY <3>1, <5>1, <5>2
      <4>2. CASE ~ClientDone BY <1>0, <2>3, <4>2, FollowsHolds DEF Follows
      <4> QED BY <4>1, <4>2
    <3> QED BY <3>3, <3>4
  <2> QED BY <2>1, <2>2, <2>3
<1>12. \A k \in 1 .. Latency : InPipe(k)' =>
         /\ pipe'[k] = <<Due', Len(shreg')>> /\ skid' = <<>>
         /\ Age' <= k - 1
         /\ \A j \in 1 .. Latency : InPipe(j)' => j = k
  BY <1>9
<1> QED BY <1>3, <1>4, <1>5, <1>10, <1>11, <1>12 DEF PipeInv

-----------------------------------------------------------------------------
(* The octet so far, and the bits of it to come. *)

LEMMA BitsClocked ==
  ASSUME Tick, Offers, Offers', ProgramStep, PinInv
  PROVE  /\ nbits \in 0 .. Bits - 1
         /\ ~ClientOver /\ ~Enters => BitsOut' = BitsOut
         /\ Enters /\ started => BitsOut' = (nbits + 1) % Bits
         /\ ClientOver => BitsOut' = 0 /\ GetsOut' = 0
<1>1. /\ Divisor \in Nat /\ Bits \in Nat \ {0} /\ Sample \in Nat /\ 1 < Sample /\ Sample < Divisor
  BY Timing
<1>2. /\ timer \in 0 .. Divisor /\ cycle \in 0 .. Bits - 1 /\ started \in BOOLEAN
      /\ nbits = IF BitOut THEN (cycle + 1) % Bits ELSE cycle
      /\ ~started \/ Offered.chip = 0 => cycle = 0
      /\ started /\ Offered.chip = 0 => timer = 0
  BY DEF PinInv
<1>3. nbits \in 0 .. Bits - 1 BY <1>1, <1>2
<1>4. Reading \in BOOLEAN /\ Reading' \in BOOLEAN BY DEF Reading
<1>5. CASE Offered = Nothing
  <2>1. timer' = timer /\ started' = started /\ nbits' = nbits /\ Offered.chip = 0 /\ ~Reading /\ ~Enters
    BY <1>5, IdlePins, OctetsDiffer DEF Reading, Enters
  <2>2. nbits = 0 BY <1>2, <2>1 DEF BitOut
  <2>3. BitsOut = 0 /\ BitsOut' = 0 BY <2>1, <2>2 DEF BitsOut
  <2>4. ~OctetOut' BY <1>1, <1>2, <2>1 DEF OctetOut, BitOut
  <2>5. ClientOver => GetsOut' = 0 BY <2>4 DEF GetsOut, ClientOver
  <2> QED BY <1>3, <2>1, <2>3, <2>5
<1>6. CASE Releasing
  <2>1. ~started' /\ nbits' = 0 BY <1>6, ReleasePins
  <2>2. ~Reading /\ ~Enters BY <1>6, OctetsDiffer DEF Reading, Releasing, Enters
  <2>3. BitsOut = 0 /\ BitsOut' = 0 BY <2>1, <2>2 DEF BitsOut
  <2>4. ~OctetOut' BY <2>1 DEF OctetOut, BitOut
  <2>5. ClientOver => GetsOut' = 0 BY <2>4 DEF GetsOut, ClientOver
  <2> QED BY <1>3, <2>2, <2>3, <2>5
<1>7. CASE Driving
  <2>1. /\ accepted <=> Shifts /\ timer = Divisor /\ started /\ cycle = Bits - 1
        /\ nbits' = IF Shifts /\ started /\ timer = Sample THEN (nbits + 1) % Bits ELSE nbits
    BY <1>7, DrivePins
  <2>2. ~ClientOver BY <1>7, OfferIs, OctetsDiffer DEF ClientOver, Releasing
  <2>3. Keeps => Reading' = Reading BY DEF Keeps, Reading
  <2>4. CASE accepted
    <3>1. timer = Divisor /\ started /\ cycle = Bits - 1 /\ Offered.chip = 1 BY <1>7, <2>1, <2>4, OfferIs
    <3>2. BitOut BY <1>1, <3>1 DEF BitOut
    <3>3. nbits = 0 BY <1>1, <1>2, <3>1, <3>2
    <3>4. nbits' = 0 /\ ~Enters BY <1>1, <2>1, <3>1, <3>3 DEF Enters
    <3> QED BY <1>3, <2>2, <3>3, <3>4 DEF BitsOut
  <2>5. CASE ~accepted
    <3>1. Reading' = Reading BY <1>7, <2>3, <2>5, Kinds DEF PutTaken, GetTaken
    <3>2. CASE Reading
      <4>1. BitsOut' = nbits' /\ BitsOut = nbits BY <3>1, <3>2 DEF BitsOut
      <4> QED BY <1>3, <2>1, <2>2, <3>2, <4>1 DEF Enters
    <3>3. CASE ~Reading
      <4>1. BitsOut' = 0 /\ BitsOut = 0 /\ ~Enters BY <3>1, <3>3 DEF BitsOut, Enters
      <4> QED BY <1>3, <2>2, <4>1
    <3> QED BY <3>2, <3>3
  <2> QED BY <2>4, <2>5
<1> QED BY <1>5, <1>6, <1>7, OfferIs

LEMMA OctetInvStep ==
  ASSUME PathInv, Tick, Offers', ProgramStep
  PROVE  OctetInv'
<1>0. /\ ClientInv /\ Offers /\ PinInv /\ FrameInv /\ DeviceInv /\ PipeInv /\ OctetInv /\ BackInv
  BY DEF PathInv
<1>1. TopTypes BY <1>0 DEF ClientInv
<1>2. Enters => Bit \in Samples BY <1>0, <1>1, EntersSampled
<1>3. Bits \in Nat \ {0} BY Timing
<1>4. Flying' <=> Enters \/ (Flying /\ ~Passes) BY <1>0, <1>2, BitGoes
<1>5. /\ ~Passes => shreg' = shreg
      /\ Passes /\ octet_valid => shreg' = <<>>
      /\ Passes /\ ~octet_valid => shreg' = Append(shreg, <<Due, Len(shreg)>>)
      /\ taken <=> Passes /\ octet_valid
  BY <1>0, RegisterMoves
<1>6. /\ nbits \in 0 .. Bits - 1
      /\ ~ClientOver /\ ~Enters => BitsOut' = BitsOut
      /\ Enters /\ started => BitsOut' = (nbits + 1) % Bits
      /\ ClientOver => BitsOut' = 0 /\ GetsOut' = 0
  BY <1>0, BitsClocked
<1>7. ~ClientOver => GetsOut' = GetsOut + (IF LastClocked /\ Reading THEN 1 ELSE 0)
  BY <1>0, OctetsClocked
<1>8. GetsOut \in Nat BY <1>0, OctetsClocked
<1>9. consumed \in Nat BY <1>1 DEF TopTypes
<1>10. /\ shreg \in Seq(Samples) /\ Len(shreg) \in 0 .. Bits - 1
       /\ \A k \in 1 .. Len(shreg) : shreg[k] = <<Due, k - 1>>
       /\ Flying => \/ GetsOut = consumed /\ BitsOut = Len(shreg) + 1
                    \/ GetsOut = consumed + 1 /\ BitsOut = 0 /\ Len(shreg) = Bits - 1
       /\ ~Flying => GetsOut = consumed /\ BitsOut = Len(shreg)
  <2>1. shreg \in Seq(Samples) BY <1>0 DEF PipeInv
  <2>2. Len(shreg) \in Nat /\ Len(shreg) <= Bits - 1 BY <1>0, <2>1 DEF OctetInv
  <2> QED BY <1>0, <1>3, <2>1, <2>2 DEF OctetInv
<1>11. BitsOut \in 0 .. Bits - 1 BY <1>3, <1>6 DEF BitsOut
<1> DEFINE n == Len(shreg)
<1>12. CASE Enters
  <2>1. Due' = Due /\ shreg' = shreg /\ consumed' = consumed /\ ~ClientDone BY <1>12, EntersOn
  <2>2. started /\ nbits = n /\ GetsOut = consumed BY <1>0, <1>1, <1>12, BitSampled
  <2>3. ~ClientOver BY <2>1 DEF ClientOver
  <2>4. LastClocked /\ Reading <=> nbits = Bits - 1
    BY <1>12, <2>2 DEF LastClocked, Enters, Driving
  <2>5. \/ GetsOut' = consumed' /\ BitsOut' = n' + 1
        \/ GetsOut' = consumed' + 1 /\ BitsOut' = 0 /\ n' = Bits - 1
    <3>1. n' = n BY <2>1
    <3>2. n \in 0 .. Bits - 1 BY <1>10
    <3> HIDE DEF n
    <3>3. BitsOut' = (n + 1) % Bits BY <1>6, <1>12, <2>2
    <3>4. CASE n = Bits - 1
      <4>1. BitsOut' = 0 BY <1>3, <3>3, <3>4
      <4>2. GetsOut' = consumed + 1 BY <1>7, <2>2, <2>3, <2>4, <3>4
      <4> QED BY <2>1, <3>1, <3>4, <4>1, <4>2
    <3>5. CASE n # Bits - 1
      <4>1. BitsOut' = n + 1 BY <1>3, <3>2, <3>3, <3>5
      <4>2. GetsOut' = consumed BY <1>7, <1>8, <2>2, <2>3, <2>4, <3>5
      <4> QED BY <2>1, <3>1, <4>1, <4>2
    <3> QED BY <3>4, <3>5
  <2> QED BY <1>4, <1>10, <1>12, <2>1, <2>5 DEF OctetInv
<1>13. CASE ~Enters /\ ClientOver
  <2>1. ~Flying /\ n = 0 BY <1>0, <1>13, OverQuiet DEF ClientOver
  <2>2. ~Passes BY <1>0, <2>1, BitArrives DEF Passes
  <2>3. shreg' = shreg /\ ~Flying' BY <1>4, <1>5, <1>13, <2>1, <2>2
  <2>4. n' = 0 /\ consumed' = 0 /\ GetsOut' = 0 /\ BitsOut' = 0
    BY <1>6, <1>13, <2>1, <2>3 DEF ClientOver
  <2> QED BY <1>3, <2>3, <2>4 DEF OctetInv
<1>14. CASE ~Enters /\ ~ClientOver
  <2>1. BitsOut' = BitsOut BY <1>6, <1>14
  <2>2. GetsOut' = GetsOut
    <3>1. ~(LastClocked /\ Reading) BY <1>14 DEF LastClocked, Enters
    <3> QED BY <1>7, <1>8, <1>14, <3>1
  <2>3. ~ClientDone BY <1>14 DEF ProgramStep
  <2>4. CASE ~Passes
    <3>1. ~taken /\ shreg' = shreg BY <1>5, <2>4
    <3>2. Due' = Due /\ consumed' = consumed BY <1>0, <2>3, <3>1, DueStays
    <3>3. Flying' <=> Flying BY <1>4, <1>14, <2>4
    <3> QED BY <1>10, <2>1, <2>2, <3>1, <3>2, <3>3 DEF OctetInv
  <2>5. CASE Passes
    <3>1. Flying /\ ~Flying' BY <1>0, <1>2, <1>4, <1>14, <2>5, BitGoes
    <3>2. CASE octet_valid
      <4>1. taken /\ shreg' = <<>> /\ n' = 0 BY <1>5, <2>5, <3>2
      <4>2. consumed' = consumed + 1 BY <1>0, <2>3, <4>1, FollowsHolds DEF Follows
      <4>3. n = Bits - 1 BY <3>2 DEF octet_valid
      <4>4. GetsOut = consumed + 1 /\ BitsOut = 0
        <5> HIDE DEF n
        <5> QED BY <1>3, <1>10, <1>11, <3>1, <4>3 DEF n
      <4> QED BY <1>3, <2>1, <2>2, <3>1, <4>1, <4>2, <4>4 DEF OctetInv
    <3>3. CASE ~octet_valid
      <4>1. ~taken /\ shreg' = Append(shreg, <<Due, n>>) BY <1>5, <2>5, <3>3
      <4>2. Due' = Due /\ consumed' = consumed BY <1>0, <2>3, <4>1, DueStays
      <4>3. n # Bits - 1 BY <2>5, <3>3 DEF octet_valid, Passes
      <4>4. n \in 0 .. Bits - 1 /\ n + 1 <= Bits - 1
        <5>1. n \in 0 .. Bits - 1 BY <1>10
        <5> HIDE DEF n
        <5> QED BY <1>3, <4>3, <5>1
      <4>5. GetsOut = consumed /\ BitsOut = n + 1 BY <1>10, <3>1, <4>3
      <4>6. n' = n + 1 /\ \A k \in 1 .. n' : shreg'[k] = <<Due', k - 1>>
        <5> DEFINE d == Due
        <5>1. \A k \in 1 .. n : shreg[k] = <<d, k - 1>> BY <1>10
        <5>2. shreg' = Append(shreg, <<d, n>>) BY <4>1
        <5> HIDE DEF d
        <5>3. /\ Len(shreg') = n + 1 /\ shreg'[n + 1] = <<d, n>>
              /\ \A k \in 1 .. n : shreg'[k] = shreg[k]
          BY <1>10, <5>2
        <5>4. \A k \in 1 .. n + 1 : shreg'[k] = <<d, k - 1>>
          <6> SUFFICES ASSUME NEW k \in 1 .. n + 1 PROVE shreg'[k] = <<d, k - 1>>
            OBVIOUS
          <6>1. n \in Nat BY <4>4
          <6> HIDE DEF n
          <6>2. CASE k = n + 1
            <7>1. k - 1 = n BY <6>1, <6>2
            <7> QED BY <5>3, <6>2, <7>1
          <6>3. CASE k \in 1 .. n BY <5>1, <5>3, <6>3
          <6> QED BY <6>1, <6>2, <6>3
        <5> QED BY <4>2, <5>3, <5>4 DEF d
      <4> QED BY <2>1, <2>2, <3>1, <4>2, <4>4, <4>5, <4>6 DEF OctetInv
    <3> QED BY <3>2, <3>3
  <2> QED BY <2>4, <2>5
<1> QED BY <1>12, <1>13, <1>14

-----------------------------------------------------------------------------
(* When a bit is back. *)

\* The serial number's source releases chip select right after a read.
LEMMA SerialReleases ==
  ASSUME ClientInv, Tick, Offers, ProgramStep, client' = "serial", Releasing'
  PROVE  /\ ~ClientDone /\ client = "serial" /\ (FromPage' <=> FromPage)
         /\ (Releasing /\ ~accepted) \/ (Reading /\ accepted)
<1>0. TopTypes /\ UidTypes /\ PageTypes BY DEF ClientInv
<1>1. ~ClientDone BY NextClient DEF Releasing
<1>2. TopTypes' /\ client = "serial" BY <1>1, TopMoves
<1>3. (FromUid' <=> FromUid) /\ (FromPage' <=> FromPage) BY <1>1, FollowsHolds DEF Follows
<1>4. FromUid \/ FromPage BY <1>0, <1>2, ClientsCovered
<1>5. CASE FromUid
  <2>1. UidView!:' BY UidView, PTL
  <2>2. Offered = UidOctet /\ UidOctet' = Release BY <1>0, <1>2, <1>3, <1>5, <2>1, UidView DEF Releasing
  <2>3. uid_w' = "RELEASE" BY <2>2, OctetsDiffer DEF UidOctet
  <2>4. UidStep(accepted, taken) BY <1>5 DEF Tick, ClientStep
  <2>5. (uid_w = "READ" /\ accepted) \/ (uid_w = "RELEASE" /\ ~accepted) BY <2>3, <2>4 DEF UidStep
  <2>6. (uid_w = "READ" => Reading) /\ (uid_w = "RELEASE" => Releasing)
    BY <2>2 DEF UidOctet, Reading, Releasing
  <2> QED BY <1>1, <1>2, <1>3, <2>5, <2>6
<1>6. CASE FromPage
  <2>1. PageView!:' BY PageView, PTL
  <2>2. Offered = PageOctet /\ PageOctet' = Release BY <1>0, <1>2, <1>3, <1>6, <2>1, PageView DEF Releasing
  <2>3. page' = "RELEASE" BY <2>2, OctetsDiffer DEF PageOctet
  <2>4. PageStep(accepted, ParserDone) BY <1>6 DEF Tick, ClientStep
  <2>5. (page = "READ" /\ accepted) \/ (page = "RELEASE" /\ ~accepted) BY <2>3, <2>4 DEF PageStep
  <2>6. (page = "READ" => Reading) /\ (page = "RELEASE" => Releasing)
    BY <2>2 DEF PageOctet, Reading, Releasing
  <2> QED BY <1>1, <1>2, <1>3, <2>5, <2>6
<1> QED BY <1>4, <1>5, <1>6

\* A bit that has been clocked out is as far back as the timer is on.
LEMMA ReadBack ==
  ASSUME PathInv, Tick, Offers', ProgramStep, Reading', BitOut'
  PROVE  InPipe(timer - Sample)'
<1>0. /\ ClientInv /\ Offers /\ PinInv /\ FrameInv /\ DeviceInv /\ PipeInv /\ OctetInv /\ BackInv
  BY DEF PathInv
<1>1. TopTypes BY <1>0 DEF ClientInv
<1>2. Enters => Bit \in Samples BY <1>0, <1>1, EntersSampled
<1>3. /\ Divisor \in Nat /\ Latency \in Nat /\ Sample \in Nat /\ 1 < Sample /\ Sample < Divisor
      /\ Divisor - Sample + 1 < Latency
  BY Timing
<1>4. \A k \in 1 .. Latency : InPipe(k)' <=> (k = 1 /\ Enters) \/ (k > 1 /\ InPipe(k - 1))
  BY <1>0, <1>2, BitGoes
<1>5. timer \in 0 .. Divisor /\ started \in BOOLEAN /\ (started /\ Offered.chip = 0 => timer = 0)
      /\ (PutCount > 0 /\ ~Releasing => started)
  BY <1>0 DEF PinInv
<1>6. started' /\ timer' > Sample BY DEF BitOut
<1>7. SUFFICES ASSUME NEW k, k = timer' - Sample PROVE InPipe(k)'
  BY DEF InPipe
<1>8. CASE Enters
  <2>1. timer' = Wrapped BY <1>0, <1>8, TimerMoves, OctetsDiffer DEF Enters, Reading
  <2>2. k = 1 /\ 1 \in 1 .. Latency BY <1>3, <1>7, <1>8, <2>1 DEF Wrapped, Enters
  <2> QED BY <1>4, <1>8, <2>2
<1>9. CASE ~Enters /\ Offered = Nothing
  <2>1. timer' = timer /\ started' = started BY <1>0, <1>9, IdlePins
  <2> QED BY <1>3, <1>5, <1>6, <1>9, <2>1, OctetsDiffer
<1>10. CASE ~Enters /\ Releasing
  <2>1. ~started' BY <1>0, <1>10, ReleasePins
  <2> QED BY <1>6, <2>1
<1>11. CASE ~Enters /\ Driving
  <2>1. /\ accepted <=> Shifts /\ timer = Divisor /\ started /\ cycle = Bits - 1
        /\ timer' = IF Shifts THEN Wrapped ELSE timer
        /\ started' <=> started \/ (Shifts /\ timer = Divisor)
    BY <1>0, <1>11, DrivePins
  <2>2. ~accepted BY <1>3, <1>6, <2>1 DEF Wrapped
  <2>3. Keeps BY <1>0, <1>11, <2>2, Kinds DEF PutTaken, GetTaken
  <2>4. Reading BY <2>3 DEF Keeps, Reading
  <2>5. started
    <3>1. PutCount > 0 /\ ~Releasing BY <1>0, <2>4, OctetsDiffer DEF Offers, Reading, Releasing
    <3> QED BY <1>5, <3>1
  <2>6. timer > Sample
    <3>1. Shifts => timer # Sample BY <1>11, <2>4 DEF Enters
    <3> QED BY <1>3, <1>5, <1>6, <2>1, <3>1 DEF Wrapped
  <2>7. BitOut BY <1>0, <1>11, <2>5, <2>6, OfferIs DEF BitOut
  <2>8. InPipe(timer - Sample) BY <1>0, <2>4, <2>7 DEF BackInv
  <2> DEFINE i == timer - Sample
  <2>9. i \in 1 .. Latency - 1 /\ InPipe(i) BY <1>3, <1>5, <2>6, <2>8
  <2> HIDE DEF i
  <2>10. Shifts <=> Offered.valid BY <1>0, <2>9, NoneArrives
  <2>11. Shifts BY <1>0, <1>11, <2>10, OfferIs
  <2>12. timer' = timer + 1 BY <1>3, <1>5, <1>6, <2>1, <2>11 DEF Wrapped
  <2>13. k = i + 1 /\ k - 1 = i /\ k > 1 /\ k \in 1 .. Latency
    BY <1>3, <1>5, <1>7, <2>6, <2>9, <2>12 DEF i
  <2> QED BY <1>4, <2>9, <2>13
<1> QED BY <1>0, <1>8, <1>9, <1>10, <1>11, OfferIs

\* After the last read the bit is at its place.
LEMMA LastBack ==
  ASSUME PathInv, Tick, ProgramStep, Reading, accepted
  PROVE  /\ timer' = 0 /\ timer = Divisor /\ InPipe(Divisor - Sample + 1)'
         /\ \A k \in 1 .. Latency : InPipe(k)' => k = Divisor - Sample + 1
<1>0. /\ ClientInv /\ Offers /\ PinInv /\ FrameInv /\ DeviceInv /\ PipeInv /\ OctetInv /\ BackInv
  BY DEF PathInv
<1>1. TopTypes BY <1>0 DEF ClientInv
<1>2. Enters => Bit \in Samples BY <1>0, <1>1, EntersSampled
<1>3. /\ Divisor \in Nat /\ Latency \in Nat /\ Sample \in Nat /\ 1 < Sample /\ Sample < Divisor
      /\ Divisor - Sample + 1 < Latency
  BY Timing
<1>4. \A k \in 1 .. Latency : InPipe(k)' <=> (k = 1 /\ Enters) \/ (k > 1 /\ InPipe(k - 1))
  BY <1>0, <1>2, BitGoes
<1>5. Driving BY DEF Driving
<1>6. /\ timer = Divisor /\ started /\ timer' = Wrapped BY <1>0, <1>5, DrivePins
<1>7. timer' = 0 /\ ~Enters BY <1>3, <1>6 DEF Wrapped, Enters
<1>8. BitOut BY <1>0, <1>3, <1>5, <1>6, OfferIs DEF BitOut
<1> DEFINE i == Divisor - Sample
           j == Divisor - Sample + 1
<1>9. InPipe(i) BY <1>0, <1>6, <1>8 DEF BackInv
<1>10. i \in 1 .. Latency /\ j \in 1 .. Latency /\ j - 1 = i /\ j > 1 /\ i + 1 = j BY <1>3
<1>11. \A k \in 1 .. Latency : InPipe(k) => k = i BY <1>0, <1>9, <1>10 DEF PipeInv
<1> HIDE DEF i, j
<1>12. InPipe(j)' BY <1>4, <1>9, <1>10
<1>13. ASSUME NEW k \in 1 .. Latency, InPipe(k)' PROVE k = j
  <2>1. k > 1 /\ InPipe(k - 1) BY <1>4, <1>7, <1>13
  <2>2. k - 1 \in 1 .. Latency BY <1>3, <2>1
  <2>3. k - 1 = i BY <1>11, <2>1, <2>2
  <2> QED BY <1>3, <1>10, <2>3
<1> QED BY <1>6, <1>7, <1>12, <1>13 DEF j

LEMMA BackInvStep ==
  ASSUME PathInv, Tick, Offers', ProgramStep
  PROVE  BackInv'
<1>0. /\ ClientInv /\ Offers /\ PinInv /\ FrameInv /\ DeviceInv /\ PipeInv /\ OctetInv /\ BackInv
  BY DEF PathInv
<1>1. TopTypes /\ PageTypes BY <1>0 DEF ClientInv
<1>2. Enters => Bit \in Samples BY <1>0, <1>1, EntersSampled
<1>3. /\ Divisor \in Nat /\ Latency \in Nat /\ Sample \in Nat /\ 1 < Sample /\ Sample < Divisor
      /\ Divisor - Sample + 1 < Latency /\ Latency <= Divisor
  BY Timing
<1>4. /\ \A k \in 1 .. Latency : InPipe(k)' <=> (k = 1 /\ Enters) \/ (k > 1 /\ InPipe(k - 1))
      /\ Flying' <=> Enters \/ (Flying /\ ~Passes)
  BY <1>0, <1>2, BitGoes
<1>5. timer \in 0 .. Divisor BY <1>0 DEF PinInv
<1>6. Reading' /\ BitOut' => InPipe(timer - Sample)' BY ReadBack
<1>7. client' = "serial" /\ Releasing' /\ cs' => timer' = 0 /\ InPipe(Divisor - Sample + 1)'
  <2> SUFFICES ASSUME client' = "serial", Releasing', cs'
               PROVE  timer' = 0 /\ InPipe(Divisor - Sample + 1)'
    OBVIOUS
  <2>1. client = "serial" /\ ((Releasing /\ ~accepted) \/ (Reading /\ accepted))
    BY <1>0, SerialReleases
  <2>2. CASE Releasing
    <3>1. cs /\ ~Shifts BY <1>0, <2>2, ReleasePins
    <3>2. InPipe(Divisor - Sample + 1) BY <1>0, <2>1, <2>2, <3>1 DEF BackInv
    <3> DEFINE i == Divisor - Sample + 1
    <3>3. i \in 1 .. Latency - 1 /\ InPipe(i) BY <1>3, <3>2
    <3> HIDE DEF i
    <3>4. Shifts BY <1>0, <2>2, <3>3, NoneArrives, OctetsDiffer DEF Releasing
    <3> QED BY <3>1, <3>4
  <2>3. CASE Reading /\ accepted BY <2>3, LastBack
  <2> QED BY <2>1, <2>2, <2>3
<1>8. FromPage' /\ Releasing' =>
        \A k \in 1 .. Latency : InPipe(k)' => k = (timer' + 1) + (Divisor - Sample)
  <2> SUFFICES ASSUME FromPage', Releasing', NEW k \in 1 .. Latency, InPipe(k)'
               PROVE  k = (timer' + 1) + (Divisor - Sample)
    OBVIOUS
  <2>1. client' = "serial" BY DEF FromPage
  <2>2. FromPage /\ ((Releasing /\ ~accepted) \/ (Reading /\ accepted))
    BY <1>0, <2>1, SerialReleases
  <2>3. CASE Releasing /\ ~accepted
    <3>1. ~Enters BY <2>3, OctetsDiffer DEF Enters, Reading, Releasing
    <3>2. k > 1 /\ InPipe(k - 1) BY <1>4, <3>1
    <3> DEFINE i == k - 1
    <3>3. i \in 1 .. Latency - 1 /\ i \in 1 .. Latency /\ InPipe(i) /\ i + 1 = k BY <1>3, <3>2
    <3> HIDE DEF i
    <3>4. i = (timer + 1) + (Divisor - Sample) BY <1>0, <2>2, <2>3, <3>3 DEF BackInv
    <3>5. Shifts BY <1>0, <2>3, <3>3, NoneArrives, OctetsDiffer DEF Releasing
    <3>6. timer' = Wrapped /\ timer # Divisor BY <1>0, <2>3, <3>5, ReleasePins
    <3>7. timer' = timer + 1 BY <3>6 DEF Wrapped
    <3> QED BY <1>3, <1>5, <3>3, <3>4, <3>7
  <2>4. CASE Reading /\ accepted
    <3>1. timer' = 0 /\ k = Divisor - Sample + 1 BY <2>4, LastBack
    <3> QED BY <1>3, <3>1
  <2> QED BY <2>2, <2>3, <2>4
<1>9. FromPage' /\ page' = "DONE" => ~Flying'
  <2> SUFFICES ASSUME FromPage', page' = "DONE" PROVE ~Flying'
    OBVIOUS
  <2>1. TopTypes' /\ sel' = (IF ClientDone THEN sel + 1 ELSE sel) BY <1>0, TopMoves
  <2>2. sel' = 2 /\ sel \in {1, 2, 3, 4, 5}
    <3>1. PageView!:' BY PageView, PTL
    <3> QED BY <1>1, <2>1, <3>1, ClientAt DEF Places
  <2>3. ~ClientDone
    <3> SUFFICES ASSUME ClientDone PROVE FALSE
      OBVIOUS
    <3>1. sel = 1 BY <2>1, <2>2
    <3>2. ~FromPage BY <1>1, <3>1, PageView
    <3>3. page' = page BY <3>2 DEF Tick, ClientStep, page_vars
    <3>4. page = "PROLOGUE" BY <1>1, <3>1, <3>2 DEF PageTypes
    <3> QED BY <3>3, <3>4
  <2>4. FromPage BY <1>0, <2>3, FollowsHolds DEF Follows
  <2>5. page # "DONE" /\ Offered = PageOctet BY <1>1, <2>3, <2>4, PageView
  <2>6. PageStep(accepted, ParserDone) BY <2>4 DEF Tick, ClientStep
  <2>7. page = "RELEASE" /\ accepted
    <3>1. page \in {"PROLOGUE", "READ", "RELEASE"} BY <1>1, <2>5 DEF PageTypes
    <3> QED BY <2>6, <3>1 DEF PageStep
  <2>8. Releasing BY <2>5, <2>7 DEF PageOctet, Releasing
  <2>9. timer = Divisor /\ ~Enters
    BY <1>0, <2>7, <2>8, ReleasePins, OctetsDiffer DEF Enters, Reading, Releasing
  <2>10. \A k \in 1 .. Latency : ~InPipe(k)
    <3>1. \A k \in 1 .. Latency : InPipe(k) => k = (timer + 1) + (Divisor - Sample)
      BY <1>0, <2>4, <2>8 DEF BackInv
    <3> QED BY <1>3, <2>9, <3>1
  <2>11. ~InSkid BY <1>0, <2>4 DEF PipeInv, InSkid
  <2>12. ~Flying BY <2>10, <2>11 DEF Flying
  <2> QED BY <1>4, <2>9, <2>12
<1> QED BY <1>6, <1>7, <1>8, <1>9 DEF BackInv

-----------------------------------------------------------------------------
(* The states of the clients. *)

\* A client is at hand from its place on, and not before.
LEMMA ClientMoves ==
  ASSUME ClientInv, Tick
  PROVE  /\ sel \in {1, 2, 3, 4, 5} /\ sel' = (IF ClientDone THEN sel + 1 ELSE sel)
         /\ client = "wake" => sel = 1
         /\ client = "serial" => sel = 2
         /\ client = "app" => sel = 3
         /\ client = "we" => sel = 4
         /\ client' = "wake" => sel' = 1
         /\ client' = "serial" => sel' = 2
         /\ client' = "app" => sel' = 3
         /\ client' = "we" => sel' = 4
         /\ ClientDone => client # "none" /\ consumed' = 0
         /\ FromUid' => (FromUid /\ ~ClientDone) \/ sel = 1
         /\ FromPage' => (FromPage /\ ~ClientDone) \/ sel = 1
         /\ FromUid /\ ~FromUid' => sel' = 3
         /\ FromPage /\ ~FromPage' => sel' = 3
<1>1. TopTypes /\ TopTypes' BY TopMoves DEF ClientInv
<1>2. Places /\ Places'
  <2>1. ClientAt!:' BY ClientAt, PTL
  <2> QED BY <1>1, <2>1, ClientAt
<1>3. /\ ClientDone => client # "none" /\ consumed' = 0 /\ sel' = sel + 1
      /\ ~ClientDone => sel' = sel
  BY TopMoves
<1>4. ~ClientDone => (FromUid' <=> FromUid) /\ (FromPage' <=> FromPage)
  BY FollowsHolds DEF Follows
<1>5. (FromUid \/ FromPage => client = "serial") /\ (FromUid' \/ FromPage' => client' = "serial")
  BY DEF FromUid, FromPage
<1> QED BY <1>2, <1>3, <1>4, <1>5 DEF Places

LEMMA WakeTypesStep ==
  ASSUME ClientInv, Tick
  PROVE  WakeTypes'
<1>0. TopTypes /\ WakeTypes BY DEF ClientInv
<1>1. SettleCycles \in Nat BY BootAssumption
<1>2. CASE client = "wake"
  <2>1. WakeStep(accepted) BY <1>2 DEF Tick, ClientStep
  <2>2. /\ wake \in {"IDLE", "MBR", "MBR_RELEASE", "WAKE", "WAKE_RELEASE", "SETTLE", "DONE"}
        /\ delay \in Nat
    BY <1>0 DEF WakeTypes
  <2>3. wake' \in {"IDLE", "MBR", "MBR_RELEASE", "WAKE", "WAKE_RELEASE", "SETTLE", "DONE"}
    BY <2>1, <2>2 DEF WakeStep, On, WakeNext
  <2>4. delay' \in Nat BY <1>1, <2>1, <2>2 DEF WakeStep
  <2>5. sel' > 1 => wake' = "DONE"
    <3>1. sel' > 1 => wake = "DONE" BY <1>0, <1>2, ClientMoves, WakeView
    <3> QED BY <2>1, <3>1 DEF WakeStep, On, WakeNext
  <2>6. state' = "BOOT-READ" BY <1>0, <1>2, TopMoves, WakeView
  <2> QED BY <2>3, <2>4, <2>5, <2>6 DEF WakeTypes
<1>3. CASE client # "wake"
  <2>1. wake' = wake /\ delay' = delay BY <1>3 DEF Tick, ClientStep, wake_vars
  <2>2. sel' > 1 => sel > 1
    <3>1. ClientDone => sel # 1
      <4>1. sel = 1 => client \in {"none", "wake"} BY <1>0, ClientAt DEF Places
      <4> QED BY <1>3, <4>1, ClientMoves
    <3> QED BY <3>1, ClientMoves
  <2>3. state' \in {"SELECT-FLASH", "SELECT-FLASH-RELEASE"} =>
          state \in {"SELECT-FLASH", "SELECT-FLASH-RELEASE"}
    <3>1. state' = CASE state = "SELECT-FLASH" /\ accepted -> "SELECT-FLASH-RELEASE"
                     [] state = "SELECT-FLASH-RELEASE" /\ accepted -> "BOOT-READ"
                     [] state = "BOOT-READ" /\ sel > Len(Clients) -> "BOOT-DECIDE"
                     [] state = "BOOT-DECIDE" -> Decide
                     [] OTHER -> state
      BY DEF Tick, TopStep
    <3>2. Decide \in {"REBOOT-WAIT", "USB-CONNECT"} BY DEF Decide
    <3> QED BY <3>1, <3>2
  <2> QED BY <1>0, <2>1, <2>2, <2>3 DEF WakeTypes
<1> QED BY <1>2, <1>3

\* The last octet of the identifier is there when the write path is through.
LEMMA UidLast ==
  ASSUME PathInv, Tick, FromUid, taken, read_count = 0
  PROVE  uid_w' \in {"RELEASE", "DONE"} /\ (uid_w' = "RELEASE" => ~cs')
<1>0. /\ ClientInv /\ Offers /\ PinInv /\ PipeInv /\ OctetInv /\ BackInv BY DEF PathInv
<1>1. TopTypes /\ UidTypes BY <1>0 DEF ClientInv
<1>2. /\ Divisor \in Nat /\ Latency \in Nat /\ Sample \in Nat /\ 1 < Sample /\ Sample < Divisor
      /\ Divisor - Sample + 1 < Latency /\ Bits \in Nat \ {0}
  BY Timing
<1>3. Sampled /\ Flying /\ Len(shreg) = Bits - 1
  BY <1>0, BitArrives DEF taken, octet_valid
<1>4. \A k \in 1 .. Latency - 1 : ~InPipe(k) BY <1>0, <1>3, NoneArrives
<1>5. ~(Reading /\ BitOut)
  <2>1. timer \in 0 .. Divisor BY <1>0 DEF PinInv
  <2>2. BitOut => timer - Sample \in 1 .. Latency - 1 BY <1>2, <2>1 DEF BitOut
  <2>3. Reading /\ BitOut => InPipe(timer - Sample) BY <1>0 DEF BackInv
  <2> QED BY <1>4, <2>2, <2>3
<1>6. nbits \in 0 .. Bits - 1 /\ BitsOut \in 0 .. Bits - 1
  <2>1. cycle \in 0 .. Bits - 1 /\ nbits = IF BitOut THEN (cycle + 1) % Bits ELSE cycle
    BY <1>0 DEF PinInv
  <2> QED BY <1>2, <2>1 DEF BitsOut
<1>7. GetsOut = consumed + 1
  <2>1. BitsOut # Len(shreg) + 1 BY <1>2, <1>3, <1>6
  <2> QED BY <1>0, <1>3, <2>1 DEF OctetInv
<1>8. GetsOut = GetCount
  <2>1. GetCount \in Nat BY <1>0 DEF Offers
  <2> QED BY <1>5, <2>1 DEF GetsOut, OctetOut
<1>9. UidTotal \in Nat \ {0} BY BootAssumption DEF UidTotal
<1>10. GetCount = UidTotal
  <2>1. consumed = CountedDown(UidTotal, read_count) BY <1>1 DEF UidTypes
  <2>2. consumed = UidTotal - 1 BY <1>9, <2>1 DEF CountedDown
  <2> QED BY <1>7, <1>8, <1>9, <2>2
<1>11. uid_w \in {"RELEASE", "DONE"}
  <2>1. GetCount = CountedDown(UidTotal, write_count) /\ write_count \in 0 .. UidTotal
    BY <1>1, UidView DEF UidTypes
  <2>2. write_count = UidTotal BY <1>9, <1>10, <2>1 DEF CountedDown
  <2> QED BY <1>1, <1>9, <2>2 DEF UidTypes
<1>12. UidStep(accepted, taken) BY DEF Tick, ClientStep
<1>13. uid_w' \in {"RELEASE", "DONE"} /\ (uid_w' = "RELEASE" => uid_w = "RELEASE")
  BY <1>11, <1>12 DEF UidStep
<1>14. uid_w = "RELEASE" => ~cs'
  <2> SUFFICES ASSUME uid_w = "RELEASE" PROVE ~cs'
    OBVIOUS
  <2>1. Releasing /\ client = "serial" BY <1>1, UidView DEF UidOctet, Releasing
  <2> DEFINE i == Divisor - Sample + 1
  <2>2. i \in 1 .. Latency - 1 BY <1>2
  <2>3. ~InPipe(i) BY <1>4, <2>2
  <2>4. ~cs BY <1>0, <2>1, <2>3 DEF BackInv
  <2> QED BY <1>0, <2>1, <2>4, ReleasePins
<1> QED BY <1>13, <1>14

LEMMA UidTypesStep ==
  ASSUME PathInv, Tick
  PROVE  UidTypes'
<1>0. ClientInv /\ Offers /\ OctetInv /\ BackInv /\ PipeInv BY DEF PathInv
<1>1. TopTypes /\ UidTypes BY <1>0 DEF ClientInv
<1>2. UidTotal \in Nat \ {0} BY BootAssumption DEF UidTotal
<1>3. /\ uid_w \in {"IDLE", "READ", "RELEASE", "DONE"}
      /\ uid_r \in {"READ", "DONE"}
      /\ write_count \in 0 .. UidTotal /\ read_count \in 0 .. UidTotal
      /\ uid_w = "IDLE" => write_count = UidTotal - 1
      /\ uid_w = "READ" => write_count < UidTotal
      /\ uid_w \in {"RELEASE", "DONE"} => write_count = UidTotal
      /\ ~FromUid /\ sel <= 2 => uid_w = "IDLE" /\ uid_r = "READ" /\ read_count = UidTotal - 1
  BY <1>1 DEF UidTypes
<1>4. CASE ~FromUid
  <2>1. uid_w' = uid_w /\ uid_r' = uid_r /\ write_count' = write_count /\ read_count' = read_count
    BY <1>4 DEF Tick, ClientStep, uid_vars
  <2>2. sel' <= 2 => sel <= 2 BY <1>0, ClientMoves
  <2>3. FromUid' => sel = 1 /\ consumed' = 0
    <3>1. FromUid' => sel = 1 /\ sel' = 2 BY <1>0, <1>4, ClientMoves DEF FromUid
    <3> QED BY <1>0, <3>1, ClientMoves
  <2>4. CountedDown(UidTotal, UidTotal - 1) = 0 BY <1>2 DEF CountedDown
  <2>5. FromUid' => uid_r = "READ" /\ read_count = UidTotal - 1 BY <1>3, <1>4, <2>3
  <2> QED BY <1>2, <1>3, <1>4, <2>1, <2>2, <2>3, <2>4, <2>5 DEF UidTypes
<1>5. CASE FromUid
  <2>1. UidStep(accepted, taken) BY <1>5 DEF Tick, ClientStep
  <2>2. ClientDone <=> uid_r = "DONE" BY <1>1, <1>5, UidView
  <2>3. FromUid' <=> ~ClientDone
    <3>1. sel = 2 BY <1>1, <1>5, UidView
    <3> QED BY <1>0, <1>5, <3>1, FollowsHolds, ClientMoves DEF Follows
  <2>4. ~FromUid' => sel' = 3 BY <1>0, <1>5, ClientMoves
  <2>5. /\ uid_w' \in {"IDLE", "READ", "RELEASE", "DONE"} /\ write_count' \in 0 .. UidTotal
        /\ uid_w' = "IDLE" => write_count' = UidTotal - 1
        /\ uid_w' = "READ" => write_count' < UidTotal
        /\ uid_w' \in {"RELEASE", "DONE"} => write_count' = UidTotal
    <3>1. CASE uid_w = "READ" /\ accepted
      <4>1. write_count' = (write_count - 1) % (UidTotal + 1) BY <2>1, <3>1 DEF UidStep
      <4>2. write_count' = IF write_count = 0 THEN UidTotal ELSE write_count - 1
        BY <1>2, <1>3, <3>1, <4>1
      <4>3. uid_w' = IF write_count = 0 THEN "RELEASE" ELSE "READ" BY <2>1, <3>1 DEF UidStep
      <4> QED BY <1>2, <1>3, <3>1, <4>2, <4>3
    <3>2. CASE ~(uid_w = "READ" /\ accepted)
      <4>1. write_count' = write_count BY <2>1, <3>2 DEF UidStep
      <4>2. uid_w' \in {uid_w, "READ", "DONE"} /\ (uid_w' = "READ" => uid_w \in {"IDLE", "READ"})
            /\ (uid_w' = "DONE" => uid_w \in {"RELEASE", "DONE"})
        BY <2>1, <3>2 DEF UidStep
      <4> QED BY <1>2, <1>3, <4>1, <4>2
    <3> QED BY <3>1, <3>2
  <2>6. CASE ~taken
    <3>1. uid_r' = uid_r /\ read_count' = read_count BY <2>1, <2>6 DEF UidStep
    <3>2. FromUid' => consumed' = consumed BY <1>0, <2>3, <2>6, FollowsHolds DEF Follows
    <3>3. FromUid' => uid_r = "READ" BY <1>3, <2>2, <2>3
    <3>4. FromUid' => consumed = CountedDown(UidTotal, read_count) /\ read_count < UidTotal
      BY <1>1, <1>5, <3>3 DEF UidTypes
    <3> QED BY <1>3, <2>4, <2>5, <3>1, <3>2, <3>3, <3>4 DEF UidTypes
  <2>7. CASE taken
    <3>1. ~ClientDone
      <4>1. Flying BY <1>0, <2>7, BitArrives DEF taken, octet_valid
      <4> QED BY <1>0, <4>1, OverQuiet
    <3>2. FromUid' /\ consumed' = consumed + 1 /\ uid_r = "READ"
      BY <1>0, <1>3, <2>2, <2>3, <2>7, <3>1, FollowsHolds DEF Follows
    <3>3. consumed = CountedDown(UidTotal, read_count) /\ read_count < UidTotal
      BY <1>1, <1>5, <3>2 DEF UidTypes
    <3>4. /\ uid_r' = IF read_count = 0 THEN "DONE" ELSE "READ"
          /\ read_count' = (read_count - 1) % (UidTotal + 1)
      BY <2>1, <2>7, <3>2 DEF UidStep
    <3>5. read_count' = IF read_count = 0 THEN UidTotal ELSE read_count - 1
      BY <1>2, <1>3, <3>4
    <3>6. consumed' = CountedDown(UidTotal, read_count')
      BY <1>2, <1>3, <3>2, <3>3, <3>5 DEF CountedDown
    <3>7. read_count = 0 => uid_w' \in {"RELEASE", "DONE"} /\ (uid_w' = "RELEASE" => ~cs')
      BY <1>5, <2>7, UidLast
    <3> QED BY <1>2, <1>3, <2>5, <3>2, <3>4, <3>5, <3>6, <3>7 DEF UidTypes
  <2> QED BY <2>6, <2>7
<1> QED BY <1>4, <1>5

LEMMA PageTypesStep ==
  ASSUME ClientInv, Tick
  PROVE  PageTypes'
<1>1. TopTypes /\ PageTypes BY DEF ClientInv
<1>2. PageLen \in Nat \ {0} /\ Len(Prologue) = 5 BY BootAssumption, OfferLengths
<1>3. /\ page \in {"PROLOGUE", "READ", "RELEASE", "DONE"}
      /\ send_idx \in 0 .. 4 /\ page_left \in 0 .. PageLen
      /\ page = "PROLOGUE" => page_left = PageLen - 1
      /\ page = "READ" => page_left < PageLen
      /\ ~FromPage /\ sel <= 2 => page = "PROLOGUE" /\ send_idx = 0
  BY <1>1 DEF PageTypes
<1>4. CASE ~FromPage
  <2>1. page' = page /\ send_idx' = send_idx /\ page_left' = page_left
    BY <1>4 DEF Tick, ClientStep, page_vars
  <2>2. sel' <= 2 => sel <= 2 BY ClientMoves
  <2> QED BY <1>3, <1>4, <2>1, <2>2 DEF PageTypes
<1>5. CASE FromPage
  <2>1. PageStep(accepted, ParserDone) BY <1>5 DEF Tick, ClientStep
  <2>2. ~FromPage' => sel' = 3 BY <1>5, ClientMoves
  <2>3. send_idx' \in 0 .. 4 BY <1>2, <1>3, <2>1 DEF PageStep
  <2>4. /\ page' \in {"PROLOGUE", "READ", "RELEASE", "DONE"} /\ page_left' \in 0 .. PageLen
        /\ page' = "PROLOGUE" => page_left' = PageLen - 1
        /\ page' = "READ" => page_left' < PageLen
    <3>1. CASE page = "READ" /\ accepted
      <4>1. page_left' = (page_left - 1) % (PageLen + 1) BY <2>1, <3>1 DEF PageStep
      <4>2. page_left' = IF page_left = 0 THEN PageLen ELSE page_left - 1
        BY <1>2, <1>3, <3>1, <4>1
      <4>3. page' = IF page_left = 0 \/ ParserDone THEN "RELEASE" ELSE "READ"
        BY <2>1, <3>1 DEF PageStep
      <4> QED BY <1>2, <1>3, <3>1, <4>2, <4>3
    <3>2. CASE ~(page = "READ" /\ accepted)
      <4>1. page_left' = page_left BY <2>1, <3>2 DEF PageStep
      <4>2. \/ page' = page
            \/ page = "PROLOGUE" /\ page' = "READ"
            \/ page' = "DONE"
        BY <2>1, <3>2 DEF PageStep
      <4> QED BY <1>2, <1>3, <4>1, <4>2
    <3> QED BY <3>1, <3>2
  <2> QED BY <2>2, <2>3, <2>4 DEF PageTypes
<1> QED BY <1>4, <1>5

LEMMA AppTypesStep ==
  ASSUME PathInv, Tick
  PROVE  AppTypes'
<1>0. ClientInv /\ Offers /\ OctetInv /\ BackInv /\ PipeInv BY DEF PathInv
<1>1. TopTypes /\ AppTypes BY <1>0 DEF ClientInv
<1>2. ProbeLen \in Nat \ {0} BY BootAssumption
<1>3. /\ app \in {"IDLE", "CMD", "ADDR", "DUMMY", "READ_PUSH", "READ_CAP", "RELEASE", "DONE"}
      /\ ai \in 0 .. 2
      /\ client # "app" /\ sel <= 3 => app = "IDLE"
  BY <1>1 DEF AppTypes
<1>4. CASE client # "app"
  <2>1. app' = app /\ ai' = ai /\ cnt' = cnt BY <1>4 DEF Tick, ClientStep, app_vars
  <2>2. sel' <= 3 => sel <= 3 BY <1>0, ClientMoves
  <2>3. client' = "app" => consumed' = 0 /\ sel <= 3
    <3>1. ~ClientDone => client' # "app"
      BY <1>0, <1>4, TopMoves
    <3>2. client' = "app" => sel' = 3 BY <1>0, ClientMoves
    <3> QED BY <1>0, <2>2, <3>1, <3>2, ClientMoves
  <2> QED BY <1>3, <1>4, <2>1, <2>2, <2>3 DEF AppTypes
<1>5. CASE client = "app"
  <2>1. AppStep(accepted, taken, Octet[3], board.ram) BY <1>5 DEF Tick, ClientStep
  <2>2. (ClientDone <=> app = "DONE") /\ (Ready <=> app = "READ_CAP") /\ sel = 3
    BY <1>1, <1>5, AppView
  <2>3. app' \in {"IDLE", "CMD", "ADDR", "DUMMY", "READ_PUSH", "READ_CAP", "RELEASE", "DONE"}
    BY <1>3, <2>1 DEF AppStep, On, AppNext
  <2>4. ai' \in 0 .. 2 BY <1>3, <2>1 DEF AppStep
  <2>5. CASE ClientDone
    <3>1. sel' = 4 /\ client' # "app" BY <1>0, <2>2, <2>5, ClientMoves
    <3> QED BY <2>3, <2>4, <3>1 DEF AppTypes
  <2>6. CASE ~ClientDone
    <3>1. client' = "app" /\ consumed' = IF taken THEN consumed + 1 ELSE consumed
      BY <1>0, <1>5, <2>6, TopMoves
    <3>2. consumed \in Nat BY <1>1 DEF TopTypes
    <3>3. CASE app = "READ_CAP" /\ taken
      <4>1. cnt \in 1 .. ProbeLen /\ consumed = ProbeLen - cnt BY <1>1, <1>5, <3>3 DEF AppTypes
      <4>2. /\ app' = IF cnt = 1 THEN "RELEASE" ELSE "READ_PUSH"
            /\ cnt # 1 => cnt' = cnt - 1
        BY <2>1, <3>3 DEF AppStep
      <4> QED BY <1>2, <2>4, <3>1, <3>3, <4>1, <4>2 DEF AppTypes
    <3>4. CASE ~taken /\ app \in {"READ_PUSH", "READ_CAP"}
      <4>1. cnt \in 1 .. ProbeLen /\ consumed = ProbeLen - cnt BY <1>1, <1>5, <3>4 DEF AppTypes
      <4>2. app' \in {"READ_PUSH", "READ_CAP"} /\ cnt' = cnt
        BY <2>1, <3>4 DEF AppStep, On, AppNext
      <4> QED BY <2>4, <3>1, <3>4, <4>1, <4>2 DEF AppTypes
    <3>5. CASE ~taken /\ app = "DUMMY" /\ accepted
      <4>1. consumed = 0 BY <1>1, <1>5, <3>5 DEF AppTypes
      <4>2. app' = "READ_PUSH" /\ cnt' = ProbeLen
        BY <2>1, <3>5 DEF AppStep, On, AppNext
      <4> QED BY <1>2, <2>4, <3>1, <3>5, <4>1, <4>2 DEF AppTypes
    <3>6. CASE ~taken /\ (app \in {"IDLE", "CMD", "ADDR"} \/ (app = "DUMMY" /\ ~accepted))
      <4>1. consumed = 0 BY <1>1, <1>5, <3>6 DEF AppTypes
      <4>2. app' \in {"IDLE", "CMD", "ADDR", "DUMMY"}
        BY <2>1, <3>6 DEF AppStep, On, AppNext
      <4> QED BY <2>4, <3>1, <3>6, <4>1, <4>2 DEF AppTypes
    <3>7. CASE ~taken /\ app \in {"RELEASE", "DONE"}
      <4>1. consumed = ProbeLen BY <1>1, <1>5, <3>7 DEF AppTypes
      <4>2. app' \in {"RELEASE", "DONE"}
        BY <2>1, <3>7 DEF AppStep, On, AppNext
      <4> QED BY <2>4, <3>1, <3>7, <4>1, <4>2 DEF AppTypes
    <3>8. taken => app = "READ_CAP" BY <2>2 DEF taken
    <3> QED BY <1>3, <3>3, <3>4, <3>5, <3>6, <3>7, <3>8
  <2> QED BY <2>5, <2>6
<1> QED BY <1>4, <1>5

LEMMA WeTypesStep ==
  ASSUME ClientInv, Tick
  PROVE  WeTypes'
<1>1. TopTypes /\ WeTypes BY DEF ClientInv
<1>2. /\ we \in {"IDLE", "CMD", "READ", "CAPTURE", "RELEASE", "DONE"}
      /\ client # "we" /\ sel <= 4 => we = "IDLE"
      /\ client = "we" => consumed = IF we \in {"RELEASE", "DONE"} THEN 1 ELSE 0
  BY <1>1 DEF WeTypes
<1>3. CASE client # "we"
  <2>1. we' = we BY <1>3 DEF Tick, ClientStep, we_vars
  <2>2. sel' <= 4 => sel <= 4 BY ClientMoves
  <2>3. client' = "we" => consumed' = 0 /\ sel <= 4
    <3>1. ~ClientDone => client' # "we" BY <1>3, TopMoves
    <3>2. client' = "we" => sel' = 4 BY ClientMoves
    <3> QED BY <2>2, <3>1, <3>2, ClientMoves
  <2> QED BY <1>2, <1>3, <2>1, <2>2, <2>3 DEF WeTypes
<1>4. CASE client = "we"
  <2>1. WeStep(accepted, taken, Octet[3]) BY <1>4 DEF Tick, ClientStep
  <2>2. (ClientDone <=> we = "DONE") /\ (Ready <=> we = "CAPTURE") /\ sel = 4
    BY <1>1, <1>4, WeView
  <2>3. taken => we = "CAPTURE" BY <2>2 DEF taken
  <2>4. /\ we = "IDLE" => we' = "CMD"
        /\ we = "CAPTURE" => we' = IF taken THEN "RELEASE" ELSE "CAPTURE"
        /\ we = "CMD" => we' \in {"CMD", "READ"}
        /\ we = "READ" => we' \in {"READ", "CAPTURE"}
        /\ we \in {"RELEASE", "DONE"} => we' \in {"RELEASE", "DONE"}
    BY <2>1 DEF WeStep, On, WeNext
  <2>5. CASE ClientDone
    <3>1. sel' = 5 /\ client' # "we" BY <2>2, <2>5, ClientMoves
    <3> QED BY <1>2, <2>2, <2>4, <2>5, <3>1 DEF WeTypes
  <2>6. CASE ~ClientDone
    <3>1. client' = "we" /\ consumed' = IF taken THEN consumed + 1 ELSE consumed
      BY <1>4, <2>6, TopMoves
    <3> QED BY <1>2, <1>4, <2>3, <2>4, <3>1 DEF WeTypes
  <2> QED BY <2>5, <2>6
<1> QED BY <1>3, <1>4

LEMMA ClientInvStep ==
  ASSUME PathInv, Tick
  PROVE  ClientInv'
<1>1. ClientInv BY DEF PathInv
<1>2. TopTypes /\ (client \in {"none", "wake"} => consumed = 0) BY <1>1 DEF ClientInv
<1>3. TopTypes' BY <1>1, TopMoves
<1>4. client' \in {"none", "wake"} => consumed' = 0
  <2>1. CASE ClientDone BY <1>1, <2>1, ClientMoves
  <2>2. CASE ~ClientDone
    <3>1. client' \in {"none", "wake"} => client \in {"none", "wake"} BY <1>1, <2>2, TopMoves
    <3>2. client \in {"none", "wake"} => ~taken BY <1>2, NoneView, WakeView DEF taken
    <3>3. consumed' = IF taken THEN consumed + 1 ELSE consumed BY <1>1, <2>2, TopMoves
    <3> QED BY <1>2, <3>1, <3>2, <3>3
  <2> QED BY <2>1, <2>2
<1> QED BY <1>1, <1>3, <1>4, WakeTypesStep, UidTypesStep, PageTypesStep, AppTypesStep, WeTypesStep
        DEF ClientInv

-----------------------------------------------------------------------------
(* The invariant is inductive. *)

LEMMA BootInit ==
  Init => BootInv
<1> SUFFICES ASSUME Init PROVE BootInv
  OBVIOUS
<1>1. /\ board \in Boards /\ wel \in BOOLEAN /\ held \in BOOLEAN
      /\ state = IF board.ram THEN "SELECT-FLASH" ELSE "BOOT-READ"
      /\ sel = 1 /\ consumed = 0
      /\ wake = "IDLE" /\ delay = 0
      /\ uid_w = "IDLE" /\ uid_r = "READ" /\ write_count = UidTotal - 1 /\ read_count = UidTotal - 1
      /\ page = "PROLOGUE" /\ send_idx = 0 /\ page_left = PageLen - 1
      /\ app = "IDLE" /\ ai = 0 /\ we = "IDLE"
      /\ timer = 0 /\ cycle = 0 /\ started = FALSE /\ cs = FALSE
      /\ skid = <<>> /\ shreg = <<>> /\ fr = <<>> /\ frames = <<>>
      /\ clocked = 0 /\ nbits = 0 /\ heard = "FLASH" /\ awake \in {-1, RES1}
      /\ bank \in IF board.ram THEN {"FLASH", "RAM"} ELSE {"FLASH"}
      /\ pipe = [k \in 1 .. Latency |-> NoFrame]
  BY BoardType DEF Init, CtlInit, ClientInit
<1>2. TopTypes
  <2>1. {uid, secpage, slot} \subseteq Seq(Nat)
    <3>1. uid \in Uids /\ secpage \in SecPages \cup {<<>>} /\ slot \in Slots \cup {<<>>} BY DEF Init
    <3>2. <<>> \in Seq(Nat) OBVIOUS
    <3> QED BY <3>1, <3>2, BootAssumption
  <2>2. sel \in 1 .. Len(Clients) + 1
    <3>1. Len(Clients) \in {2, 3, 4} BY <1>1, ClientList
    <3> QED BY <1>1, <3>1
  <2> QED BY <1>1, <2>1, <2>2 DEF TopTypes
<1>3. client = IF board.ram THEN "none" ELSE "wake"
  <2>1. Clients[1] = "wake" /\ Len(Clients) \in {2, 3, 4} BY <1>1, ClientList
  <2>2. 1 <= Len(Clients) BY <2>1
  <2> QED BY <1>1, <2>1, <2>2 DEF client
<1>4. ~FromUid /\ ~FromPage BY <1>3 DEF FromUid, FromPage
<1>5. UidTotal \in Nat \ {0} /\ PageLen \in Nat \ {0} BY BootAssumption DEF UidTotal
<1>6. ClientInv
  <2>1. WakeTypes BY <1>1 DEF WakeTypes
  <2>2. UidTypes BY <1>1, <1>4, <1>5 DEF UidTypes
  <2>3. PageTypes BY <1>1, <1>4, <1>5 DEF PageTypes
  <2>4. AppTypes BY <1>1, <1>3 DEF AppTypes
  <2>5. WeTypes BY <1>1, <1>3 DEF WeTypes
  <2> QED BY <1>1, <1>2, <2>1, <2>2, <2>3, <2>4, <2>5 DEF ClientInv
<1>7. /\ Offered = IF board.ram THEN Put(0) ELSE Nothing
      /\ Over = 0 /\ PutCount = 0 /\ GetCount = 0
      /\ RamFrames \in {0, 1} /\ (board.ram <=> RamFrames = 1)
  <2>1. RamFrames \in {0, 1} /\ (board.ram <=> RamFrames = 1) BY <1>2, CommandOf
  <2>2. CASE board.ram BY <1>1, <1>3, <2>1, <2>2, NoneView
  <2>3. CASE ~board.ram BY <1>1, <1>2, <1>3, <2>1, <2>3, WakeView DEF WakeOctet
  <2> QED BY <2>1, <2>2, <2>3
<1>8. ~Releasing /\ ~Reading BY <1>7, OctetsDiffer DEF Releasing, Reading
<1>9. Bits \in Nat \ {0} /\ Divisor \in Nat /\ Latency \in Nat BY Timing
<1>10. ~BitOut /\ ~OctetOut BY <1>1 DEF BitOut, OctetOut
<1>11. PinInv
  <2>1. timer \in 0 .. Divisor /\ cycle \in 0 .. Bits - 1 /\ cycle = 0 /\ nbits = 0 /\ PutCount = 0
    BY <1>1, <1>7, <1>9
  <2>2. started \in BOOLEAN /\ cs \in BOOLEAN /\ ~started /\ ~cs BY <1>1
  <2>3. nbits = IF BitOut THEN (cycle + 1) % Bits ELSE cycle BY <2>1, <1>10
  <2> QED BY <2>1, <2>2, <2>3, <1>8 DEF PinInv
<1>12. FrameInv
  <2>1. frames \in Seq(FrameTypes) /\ Len(frames) = 0 /\ fr \in Seq(Nat) BY <1>1
  <2>2. FramesOver BY <1>7, <1>8, <2>1 DEF FramesOver
  <2>3. FrameOpen BY <1>1, <2>1 DEF FrameOpen
  <2> QED BY <2>2, <2>3 DEF FrameInv
<1>13. DeviceInv
  <2>1. Len(frames) = 0 /\ RES1 \in Nat BY <1>1, BootAssumption
  <2> QED BY <1>1, <1>7, <2>1 DEF DeviceInv
<1>14. \A k \in 1 .. Latency : ~InPipe(k) BY <1>1, TagKinds DEF InPipe
<1>15. ~InSkid /\ ~Flying BY <1>1, <1>14 DEF InSkid, Flying
<1>16. PipeInv
  <2>1. pipe \in [1 .. Latency -> Tags] BY <1>1, TagKinds
  <2>2. skid \in Seq(Tags) /\ shreg \in Seq(Samples) /\ Len(skid) = 0 BY <1>1
  <2> QED BY <1>1, <1>14, <1>15, <2>1, <2>2 DEF PipeInv
<1>17. OctetInv
  <2>1. Len(shreg) = 0 BY <1>1
  <2>2. GetsOut = 0 /\ BitsOut = 0 BY <1>7, <1>8, <1>10 DEF GetsOut, BitsOut
  <2> QED BY <1>1, <1>9, <1>15, <2>1, <2>2 DEF OctetInv
<1>18. BackInv BY <1>1, <1>8, <1>15 DEF BackInv
<1> QED BY <1>6, <1>11, <1>12, <1>13, <1>16, <1>17, <1>18 DEF BootInv

LEMMA BootTick ==
  ASSUME BootInv, Tick
  PROVE  BootInv'
<1>1. PathInv BY OffersHold DEF BootInv, PathInv
<1>2. ProgramStep BY Programmed DEF BootInv
<1>3. ClientInv' BY <1>1, ClientInvStep
<1>4. Offers'
  <2>1. OffersHold!:' BY OffersHold, PTL
  <2> QED BY <1>3, <2>1
<1>5. /\ ClientInv /\ Offers /\ PinInv /\ FrameInv /\ DeviceInv BY <1>1 DEF PathInv
<1>6. TopTypes BY <1>5 DEF ClientInv
<1>7. PinInv' BY <1>2, <1>4, <1>5, PinInvStep
<1>8. FrameInv' BY <1>2, <1>4, <1>5, <1>6, <1>7, FramesStep, FrameOpenStep DEF FrameInv
<1>9. DeviceInv' BY <1>5, DeviceInvStep
<1> QED BY <1>1, <1>2, <1>3, <1>4, <1>7, <1>8, <1>9, PipeInvStep, OctetInvStep, BackInvStep
        DEF BootInv

\* The host's requests are none of the boot's business.
LEMMA BootHolds ==
  ASSUME BootInv, UNCHANGED Board
  PROVE  BootInv'
<1>1. /\ UNCHANGED given /\ state' = state /\ sel' = sel /\ consumed' = consumed
      /\ wake' = wake /\ delay' = delay
      /\ uid_w' = uid_w /\ uid_r' = uid_r /\ write_count' = write_count /\ read_count' = read_count
      /\ page' = page /\ send_idx' = send_idx /\ page_left' = page_left
      /\ app' = app /\ ai' = ai /\ cnt' = cnt /\ we' = we
      /\ timer' = timer /\ cycle' = cycle /\ started' = started /\ cs' = cs
      /\ pipe' = pipe /\ skid' = skid /\ shreg' = shreg
      /\ bank' = bank /\ awake' = awake /\ fr' = fr /\ clocked' = clocked /\ nbits' = nbits
      /\ heard' = heard /\ frames' = frames
  BY DEF Board, top_vars, pin_vars, ctl_vars, client_vars, wake_vars, uid_vars, page_vars, app_vars,
         we_vars
<1>2. /\ board' = board /\ Clients' = Clients /\ Commands' = Commands /\ RamFrames' = RamFrames
      /\ uid' = uid /\ secpage' = secpage /\ slot' = slot /\ wel' = wel /\ held' = held
  BY <1>1, SameBoard
<1>3. client' = client /\ (FromUid' <=> FromUid) /\ (FromPage' <=> FromPage) /\ FrameOf' = FrameOf
  BY <1>1, <1>2 DEF client, FromUid, FromPage, FrameOf
<1>4. Offered' = Offered
  <2>1. /\ WakeOctet' = WakeOctet /\ UidOctet' = UidOctet /\ PageOctet' = PageOctet
        /\ AppOctet' = AppOctet /\ WeOctet' = WeOctet
    BY <1>1 DEF WakeOctet, UidOctet, PageOctet, AppOctet, WeOctet
  <2> QED BY <1>1, <1>3, <2>1 DEF Offered
<1>5. Over' = Over /\ PutCount' = PutCount /\ GetCount' = GetCount /\ Command' = Command
  <2>1. Over' = Over BY <1>1, <1>2, <1>3 DEF Over
  <2>2. PutCount' = PutCount BY <1>1, <1>3 DEF PutCount
  <2>3. GetCount' = GetCount BY <1>1, <1>3 DEF GetCount
  <2> QED BY <1>2, <2>1, <2>2, <2>3 DEF Command
<1>6. /\ (Reading' <=> Reading) /\ (Releasing' <=> Releasing) /\ (BitOut' <=> BitOut)
      /\ (OctetOut' <=> OctetOut) /\ PutsOut' = PutsOut /\ GetsOut' = GetsOut /\ BitsOut' = BitsOut
      /\ Age' = Age
  <2>1. (Reading' <=> Reading) /\ (Releasing' <=> Releasing) BY <1>4 DEF Reading, Releasing
  <2>2. (BitOut' <=> BitOut) /\ (OctetOut' <=> OctetOut) BY <1>1, <1>4 DEF BitOut, OctetOut
  <2> QED BY <1>1, <1>4, <1>5, <2>1, <2>2 DEF PutsOut, GetsOut, BitsOut, Age
<1>7. /\ \A k : InPipe(k)' <=> InPipe(k)
      /\ (InSkid' <=> InSkid) /\ (Flying' <=> Flying) /\ Due' = Due
  <2>1. \A k : InPipe(k)' <=> InPipe(k) BY <1>1 DEF InPipe
  <2>2. InSkid' <=> InSkid BY <1>1 DEF InSkid
  <2>3. Flying' <=> Flying BY <2>1, <2>2 DEF Flying
  <2>4. Value(consumed)' = Value(consumed) BY <1>1, <1>2, <1>3 DEF Value
  <2> QED BY <1>1, <1>3, <2>1, <2>2, <2>3, <2>4 DEF Due
<1>8. ClientInv'
  <2>1. TopTypes' BY <1>1, <1>2 DEF BootInv, ClientInv, TopTypes
  <2>2. WakeTypes' BY <1>1 DEF BootInv, ClientInv, WakeTypes
  <2>3. UidTypes' BY <1>1, <1>3 DEF BootInv, ClientInv, UidTypes
  <2>4. PageTypes' BY <1>1, <1>3 DEF BootInv, ClientInv, PageTypes
  <2>5. AppTypes' BY <1>1, <1>3 DEF BootInv, ClientInv, AppTypes
  <2>6. WeTypes' BY <1>1, <1>3 DEF BootInv, ClientInv, WeTypes
  <2> QED BY <1>1, <1>3, <2>1, <2>2, <2>3, <2>4, <2>5, <2>6 DEF BootInv, ClientInv
<1>9. PinInv' BY <1>1, <1>4, <1>5, <1>6 DEF BootInv, PinInv
<1>10. FrameInv'
  <2>1. ASSUME NEW n PROVE MayHear(n)' = MayHear(n) BY DEF MayHear
  <2>2. FramesOver' BY <1>1, <1>2, <1>5, <1>6, <2>1 DEF BootInv, FrameInv, FramesOver
  <2>3. FrameOpen' BY <1>1, <1>5, <1>6 DEF BootInv, FrameInv, FrameOpen
  <2> QED BY <2>2, <2>3 DEF FrameInv
<1>11. DeviceInv' BY <1>1, <1>2, <1>3 DEF BootInv, DeviceInv
<1>12. PipeInv' BY <1>1, <1>3, <1>6, <1>7 DEF BootInv, PipeInv
<1>13. OctetInv' BY <1>1, <1>6, <1>7 DEF BootInv, OctetInv
<1>14. BackInv'
  <2>1. Reading' /\ BitOut' => InPipe(timer - Sample)' BY <1>1, <1>6 DEF BootInv, BackInv, InPipe
  <2>2. client' = "serial" /\ Releasing' /\ cs' => timer' = 0 /\ InPipe(Divisor - Sample + 1)'
    BY <1>1, <1>3, <1>6, <1>7 DEF BootInv, BackInv
  <2> QED BY <1>1, <1>3, <1>6, <1>7, <2>1, <2>2 DEF BootInv, BackInv
<1> QED BY <1>8, <1>9, <1>10, <1>11, <1>12, <1>13, <1>14 DEF BootInv

THEOREM BootCorrect == Spec => []BootInv
<1>1. BootInv /\ [Next]_vars => BootInv'
  <2> SUFFICES ASSUME BootInv, [Next]_vars PROVE BootInv'
    OBVIOUS
  <2>1. CASE Tick BY <2>1, BootTick
  <2>2. CASE HostAsks BY <2>2, BootHolds DEF HostAsks
  <2>3. CASE HostReads BY <2>3, BootHolds DEF HostReads
  <2>4. CASE UNCHANGED vars BY <2>4, BootHolds DEF vars, Board
  <2> QED BY <2>1, <2>2, <2>3, <2>4 DEF Next
<1> QED BY <1>1, BootInit, PTL DEF Spec

\* A sequence that another begins with.
LEMMA Begins ==
  ASSUME NEW s \in Seq(Nat), NEW t \in Seq(Nat), Len(s) <= Len(t),
         \A k \in 1 .. Len(s) : s[k] = t[k]
  PROVE  IsPrefix(s, t)
<1> DEFINE l == Len(s)
           u == SubSeq(s, 1, l)
           v == SubSeq(t, 1, l)
<1>1. u \in Seq(Nat) /\ Len(u) = l /\ \A k \in 1 .. l : u[k] = s[k] OBVIOUS
<1>2. v \in Seq(Nat) /\ Len(v) = l /\ \A k \in 1 .. l : v[k] = t[k] OBVIOUS
<1> HIDE DEF u, v
<1>3. u = v BY <1>1, <1>2, SameSequence
<1> QED BY <1>3 DEF u, v, IsPrefix

(* Each client's command reaches the flash as a chip-select frame of its own,
   whole, once the flash is selected and awake. *)
THEOREM FramesAsMeant == Spec => []FramesMeant
<1>1. BootInv => FramesMeant
  <2> SUFFICES ASSUME BootInv PROVE FramesMeant
    OBVIOUS
  <2>0. ClientInv /\ PinInv /\ FramesOver /\ FrameOpen /\ Offers
    BY OffersHold DEF BootInv, FrameInv
  <2>1. TopTypes BY <2>0 DEF ClientInv
  <2> DEFINE n == Len(frames)
             L == Len(Commands)
  <2>2. L \in Nat BY <2>1, CommandOf
  <2>3. /\ Over \in 0 .. L /\ PutCount \in Nat
        /\ PutCount > 0 \/ Offered # Nothing => Over < L
        /\ PutCount > 0 => PutCount <= Len(Command)
        /\ Putting => PutCount < Len(Command)
    BY <2>0 DEF Offers
  <2>4. n = Over + (IF Releasing /\ ~cs THEN 1 ELSE 0) BY <2>0 DEF FramesOver
  <2>5. n <= L
    <3>1. Releasing => Over < L BY <2>3, OctetsDiffer DEF Releasing
    <3> HIDE DEF n, L
    <3> QED BY <2>2, <2>3, <2>4, <3>1
  <2>6. \A k \in 1 .. n : frames[k].sent = Commands[k] /\ frames[k].to \in MayHear(Commands[k])
    BY <2>0 DEF FramesOver
  <2>7. ASSUME fr # <<>> PROVE n < L /\ IsPrefix(fr, Commands[n + 1])
    <3>1. cs BY <2>0, <2>7 DEF FrameOpen
    <3>2. fr \in Seq(Nat) /\ Len(fr) = PutsOut /\ \A k \in 1 .. Len(fr) : fr[k] = Command[k]
      BY <2>0, <3>1 DEF FrameOpen
    <3>3. PutsOut > 0 BY <2>7, <3>2
    <3>4. OctetOut => Offered # Nothing BY OctetsDiffer DEF OctetOut, BitOut
    <3>5. PutsOut = PutCount + (IF OctetOut /\ Putting THEN 1 ELSE 0) BY DEF PutsOut, Putting
    <3>6. n = Over BY <2>3, <2>4, <3>1
    <3>7. PutCount > 0 \/ Offered # Nothing BY <2>3, <3>3, <3>4, <3>5
    <3>8. Over < L /\ Over \in Nat BY <2>3, <3>7
    <3>9. Command \in Seq(Nat) /\ Commands[n + 1] = Command BY <2>1, <3>6, <3>8, CommandTyped
    <3>10. Len(fr) <= Len(Command)
      <4> DEFINE m == Len(Command)
      <4>1. m \in Nat BY <3>9
      <4> HIDE DEF m
      <4> QED BY <2>3, <3>2, <3>3, <3>5, <4>1 DEF m
    <3>11. IsPrefix(fr, Command) BY <3>2, <3>9, <3>10, Begins
    <3> QED BY <3>6, <3>8, <3>9, <3>11
  <2> QED BY <2>5, <2>6, <2>7 DEF FramesMeant
<1> QED BY <1>1, BootCorrect, PTL

\* The octet the controller gives out is the one that is due.
LEMMA OctetIsDue ==
  ASSUME BootInv, octet_valid
  PROVE  Octet = Due /\ client # "none" /\ Flying
<1>0. ClientInv /\ PipeInv /\ OctetInv BY DEF BootInv
<1>1. TopTypes BY <1>0 DEF ClientInv
<1>2. Sampled /\ Len(shreg) = Bits - 1 BY DEF octet_valid
<1>3. Arriving = <<Due, Len(shreg)>> /\ Arriving \in Samples /\ Flying BY <1>0, <1>2, BitArrives
<1>4. client # "none"
  <2> SUFFICES ASSUME client = "none" PROVE FALSE
    OBVIOUS
  <2>1. GetCount = consumed BY <1>0, NoneView DEF ClientInv
  <2>2. ~Reading BY <1>0, OffersHold DEF Offers
  <2> QED BY <1>0, <1>1, <1>3, <2>1, <2>2, AllTaken
<1> DEFINE bits == Append(shreg, Arriving)
           d    == Due
<1>5. shreg \in Seq(Samples) /\ \A k \in 1 .. Len(shreg) : shreg[k] = <<d, k - 1>>
  BY <1>0 DEF PipeInv, OctetInv
<1>6. Bits \in Nat \ {0} BY Timing
<1>7. Octet = IF \A k \in 1 .. Bits : bits[k] = <<bits[1][1], k - 1>> THEN bits[1][1] ELSE Garbled
  BY DEF Octet
<1>8. Arriving = <<d, Bits - 1>> BY <1>2, <1>3
<1> HIDE DEF d
<1>9. bits[Bits] = <<d, Bits - 1>> /\ \A k \in 1 .. Bits - 1 : bits[k] = shreg[k]
  BY <1>2, <1>3, <1>5, <1>6, <1>8
<1>10. \A k \in 1 .. Bits : bits[k] = <<d, k - 1>>
  <2> HIDE DEF bits
  <2> SUFFICES ASSUME NEW k \in 1 .. Bits PROVE bits[k] = <<d, k - 1>>
    OBVIOUS
  <2>1. CASE k = Bits BY <1>9, <2>1
  <2>2. CASE k \in 1 .. Bits - 1 BY <1>2, <1>5, <1>9, <2>2
  <2> QED BY <1>6, <2>1, <2>2
<1>11. bits[1][1] = d
  <2>1. bits[1] = <<d, 0>> BY <1>6, <1>10
  <2> QED BY <2>1
<1>12. Octet = d BY <1>7, <1>10, <1>11
<1> QED BY <1>3, <1>4, <1>12 DEF d

(* Every octet the controller gives out was read in the frame of the client
   that takes it, whole, and is the next one of that client's. *)
THEOREM RepliesOfOwn == Spec => []RepliesOwn
<1>1. BootInv => RepliesOwn BY OctetIsDue DEF RepliesOwn, Due
<1> QED BY <1>1, BootCorrect, PTL

-----------------------------------------------------------------------------
(* What the stay sources have seen. *)

Seen(word, n) ==
  \E k \in 0 .. n - Len(word) : \A j \in 1 .. Len(word) : At(slot, k + j) = word[j]

\* The window is the last Size octets of the slot that were taken, or all of them.
WindowInv ==
  /\ window \in Seq(Nat) /\ sync_found \in BOOLEAN /\ poison_found \in BOOLEAN
  /\ client = "app" =>
       /\ Len(window) = IF consumed < Size THEN consumed ELSE Size
       /\ \A j \in 1 .. Len(window) : window[j] = At(slot, (consumed - Len(window)) + j)
       /\ sync_found <=> Seen(SyncWord, consumed)
       /\ poison_found <=> board.ram /\ Seen(PoisonWord, consumed)
  /\ client # "app" /\ sel <= 3 => window = <<>> /\ ~sync_found /\ ~poison_found
  /\ auto_boot /\ sel > 3 => /\ sync_found <=> Holds(SyncWord)
                             /\ poison_found <=> board.ram /\ Holds(PoisonWord)

StatusInv ==
  (client = "we" /\ consumed = 1) \/ ("we" \in board.stay /\ sel > 4) =>
    status_reg = IF wel THEN 2 ELSE 0

\* The synchroniser has settled long before the decision.
ButtonInv ==
  /\ wake # "IDLE" => sync[1] = held
  /\ wake \notin {"IDLE", "MBR"} => sync[2] = held

DecideInv == WindowInv /\ StatusInv /\ ButtonInv /\ DecisionRight

\* The window after one more octet.
LEMMA WindowGrows ==
  ASSUME NEW s \in Seq(Nat), NEW n \in Nat, window \in Seq(Nat),
         Len(window) = IF n < Size THEN n ELSE Size,
         \A j \in 1 .. Len(window) : window[j] = At(s, (n - Len(window)) + j)
  PROVE  LET w == Window(At(s, n + 1)) IN
           /\ w \in Seq(Nat) /\ Len(w) = IF n + 1 < Size THEN n + 1 ELSE Size
           /\ \A j \in 1 .. Len(w) : w[j] = At(s, ((n + 1) - Len(w)) + j)
<1> DEFINE v == At(s, n + 1)
           a == Append(window, v)
           l == Len(window)
           z == Size
<1>1. z \in Nat \ {0} BY BootAssumption DEF Size
<1>2. v \in Nat BY DEF At
<1>3. l \in Nat /\ l = IF n < z THEN n ELSE z OBVIOUS
<1>4. a \in Seq(Nat) /\ Len(a) = l + 1 /\ a[l + 1] = v /\ \A j \in 1 .. l : a[j] = window[j]
  BY <1>2
<1>5. Window(v) = IF Len(a) > z THEN Tail(a) ELSE a BY DEF Window
<1>6. \A j \in 1 .. l : window[j] = At(s, (n - l) + j) OBVIOUS
<1> HIDE DEF v, a, l, z
<1>7. \A j \in 1 .. l + 1 : a[j] = At(s, (n - l) + j)
  <2> SUFFICES ASSUME NEW j \in 1 .. l + 1 PROVE a[j] = At(s, (n - l) + j)
    OBVIOUS
  <2>1. CASE j = l + 1
    <3>1. (n - l) + j = n + 1 BY <1>3, <2>1
    <3> QED BY <1>4, <2>1, <3>1 DEF v
  <2>2. CASE j \in 1 .. l BY <1>4, <1>6, <2>2
  <2> QED BY <1>3, <2>1, <2>2
<1>8. CASE n < z
  <2>1. Window(v) = a /\ Len(a) = n + 1 BY <1>1, <1>3, <1>4, <1>5, <1>8
  <2>2. n + 1 = (IF n + 1 < z THEN n + 1 ELSE z) BY <1>1, <1>8
  <2>3. \A j \in 1 .. Len(a) : a[j] = At(s, ((n + 1) - Len(a)) + j)
    <3> SUFFICES ASSUME NEW j \in 1 .. Len(a) PROVE a[j] = At(s, ((n + 1) - Len(a)) + j)
      OBVIOUS
    <3>1. ((n + 1) - Len(a)) + j = (n - l) + j /\ j \in 1 .. l + 1 BY <1>3, <1>8, <2>1
    <3> QED BY <1>7, <3>1
  <2> QED BY <1>4, <2>1, <2>2, <2>3 DEF v, z
<1>9. CASE ~(n < z)
  <2>1. Window(v) = Tail(a) /\ l = z BY <1>1, <1>3, <1>4, <1>5, <1>9
  <2>2. Tail(a) \in Seq(Nat) /\ Len(Tail(a)) = l /\ \A j \in 1 .. l : Tail(a)[j] = a[j + 1]
    BY <1>3, <1>4
  <2>3. l = (IF n + 1 < z THEN n + 1 ELSE z) BY <1>1, <1>3, <1>9
  <2>4. \A j \in 1 .. l : Tail(a)[j] = At(s, ((n + 1) - l) + j)
    <3> SUFFICES ASSUME NEW j \in 1 .. l PROVE Tail(a)[j] = At(s, ((n + 1) - l) + j)
      OBVIOUS
    <3>1. (n - l) + (j + 1) = ((n + 1) - l) + j /\ j + 1 \in 1 .. l + 1 BY <1>3
    <3> QED BY <1>7, <2>2, <3>1
  <2> QED BY <2>1, <2>2, <2>3, <2>4 DEF v, z
<1> QED BY <1>8, <1>9

\* A word has been seen in one octet more if it had been, or is in the window.
LEMMA WordSeen ==
  ASSUME slot \in Seq(Nat), NEW n \in Nat \ {0}, NEW w \in Seq(Nat),
         Len(w) = IF n < Size THEN n ELSE Size,
         \A j \in 1 .. Len(w) : w[j] = At(slot, (n - Len(w)) + j),
         NEW word \in Seq(Nat), Len(word) = Size
  PROVE  Seen(word, n) <=> Seen(word, n - 1) \/ w = word
<1> DEFINE Fits(k) == \A j \in 1 .. Len(word) : At(slot, k + j) = word[j]
           z == Size
<1>1. z \in Nat \ {0} BY BootAssumption DEF Size
<1>2. Seen(word, n) <=> \E k \in 0 .. n - z : Fits(k) BY DEF Seen
<1>3. Seen(word, n - 1) <=> \E k \in 0 .. (n - 1) - z : Fits(k) BY DEF Seen
<1>4. w = word <=> n - z \in Nat /\ Fits(n - z)
  <2>1. CASE n < z
    <3>1. Len(w) # Len(word) BY <2>1
    <3>2. ~(n - z \in Nat) BY <1>1, <2>1
    <3> QED BY <3>1, <3>2
  <2>2. CASE ~(n < z)
    <3>1. Len(w) = z /\ Len(word) = z /\ n - z \in Nat BY <1>1, <2>2
    <3>2. \A j \in 1 .. z : w[j] = At(slot, (n - z) + j) BY <3>1
    <3>3. ASSUME w = word PROVE Fits(n - z) BY <3>1, <3>2, <3>3
    <3>4. ASSUME Fits(n - z) PROVE w = word
      <4>1. \A j \in 1 .. z : w[j] = word[j] BY <3>1, <3>2, <3>4
      <4> QED BY <3>1, <4>1, SameSequence
    <3> QED BY <3>1, <3>3, <3>4
  <2> QED BY <2>1, <2>2
<1> HIDE DEF Fits, z
<1>5. ASSUME NEW k \in 0 .. n - z PROVE k \in 0 .. (n - 1) - z \/ (k = n - z /\ n - z \in Nat)
  BY <1>1, <1>5
<1>6. 0 .. (n - 1) - z \subseteq 0 .. n - z /\ (n - z \in Nat => n - z \in 0 .. n - z) BY <1>1
<1> QED BY <1>2, <1>3, <1>4, <1>5, <1>6

\* What the client takes is the value that is due.
LEMMA TakesDue ==
  ASSUME BootInv, taken
  PROVE  /\ client = "app" => Octet[3] = At(slot, consumed + 1)
         /\ client = "we" => Octet[3] = IF wel THEN 2 ELSE 0
<1>1. TopTypes BY DEF BootInv, ClientInv
<1>2. Octet = Due BY OctetIsDue DEF taken
<1>3. Octet[3] = Value(consumed) BY <1>2 DEF Due
<1>4. client = "app" \/ client = "we" => ~FromUid /\ ~FromPage BY <1>1, AppView, WeView
<1> QED BY <1>3, <1>4 DEF Value

LEMMA WindowStep ==
  ASSUME BootInv, WindowInv, Tick
  PROVE  WindowInv'
<1>0. ClientInv /\ TopTypes /\ AppTypes BY DEF BootInv, ClientInv
<1>1. /\ slot \in Seq(Nat) /\ SyncWord \in Seq(Nat) /\ PoisonWord \in Seq(Nat)
      /\ Len(SyncWord) = Size /\ Len(PoisonWord) = Size /\ Size \in Nat \ {0}
      /\ ProbeLen \in Nat \ {0}
  BY <1>0, BootAssumption DEF TopTypes, Size
<1>2. slot' = slot /\ board' = board /\ auto_boot' = auto_boot BY SameBoard DEF Tick
<1>3. /\ Seen(SyncWord, consumed)' <=> Seen(SyncWord, consumed')
      /\ Seen(PoisonWord, consumed)' <=> Seen(PoisonWord, consumed')
      /\ Holds(SyncWord)' <=> Holds(SyncWord)
      /\ Holds(PoisonWord)' <=> Holds(PoisonWord)
  BY <1>2 DEF Seen, Holds, At
<1>4. /\ window \in Seq(Nat) /\ sync_found \in BOOLEAN /\ poison_found \in BOOLEAN
      /\ client # "app" /\ sel <= 3 => window = <<>> /\ ~sync_found /\ ~poison_found
      /\ auto_boot /\ sel > 3 => /\ sync_found <=> Holds(SyncWord)
                                 /\ poison_found <=> board.ram /\ Holds(PoisonWord)
  BY DEF WindowInv
<1>5. /\ sel \in {1, 2, 3, 4, 5} /\ sel' = (IF ClientDone THEN sel + 1 ELSE sel)
      /\ client = "app" => sel = 3
      /\ client' = "app" => sel' = 3
      /\ ClientDone => consumed' = 0
  BY <1>0, ClientMoves
<1>6. CASE client # "app"
  <2>1. window' = window /\ sync_found' = sync_found /\ poison_found' = poison_found
    BY <1>6 DEF Tick, ClientStep, app_vars
  <2>2. ASSUME client' = "app"
        PROVE  consumed' = 0 /\ window' = <<>> /\ ~sync_found' /\ ~poison_found'
    <3>1. ClientDone BY <1>0, <1>6, <2>2, TopMoves
    <3> QED BY <1>4, <1>5, <1>6, <2>1, <2>2, <3>1
  <2>3. ~Seen(SyncWord, 0) /\ ~Seen(PoisonWord, 0)
    <3>1. 0 .. 0 - Size = {} BY <1>1
    <3> QED BY <1>1, <3>1 DEF Seen
  <2>4. ASSUME client' = "app"
        PROVE  /\ Len(window') = IF consumed' < Size THEN consumed' ELSE Size
               /\ Len(window') = 0
               /\ sync_found' <=> Seen(SyncWord, consumed)'
               /\ poison_found' <=> board'.ram /\ Seen(PoisonWord, consumed)'
    BY <1>1, <1>3, <2>2, <2>3, <2>4
  <2>5. /\ client' # "app" /\ sel' <= 3 => window' = <<>> /\ ~sync_found' /\ ~poison_found'
        /\ auto_boot' /\ sel' > 3 => /\ sync_found' <=> Holds(SyncWord)'
                                     /\ poison_found' <=> board'.ram /\ Holds(PoisonWord)'
    <3>1. sel = 3 => client = "none" \/ ~ClientDone
      <4>1. sel = 3 => client \in {"none", "app"} BY <1>0, ClientAt DEF Places
      <4> QED BY <1>6, <4>1
    <3>2. client = "none" => ~ClientDone BY NoneView
    <3>3. (sel' <= 3 => sel <= 3) /\ (sel' > 3 => sel > 3) BY <1>5, <3>1, <3>2
    <3> QED BY <1>2, <1>3, <1>4, <1>6, <2>1, <3>3
  <2> QED BY <1>4, <2>1, <2>4, <2>5 DEF WindowInv
<1>7. CASE client = "app"
  <2>0. AppStep(accepted, taken, Octet[3], board.ram) BY <1>7 DEF Tick, ClientStep
  <2>1. /\ Len(window) = IF consumed < Size THEN consumed ELSE Size
        /\ \A j \in 1 .. Len(window) : window[j] = At(slot, (consumed - Len(window)) + j)
        /\ sync_found <=> Seen(SyncWord, consumed)
        /\ poison_found <=> board.ram /\ Seen(PoisonWord, consumed)
    BY <1>7 DEF WindowInv
  <2>2. /\ window' = IF taken THEN Window(Octet[3]) ELSE window
        /\ sync_found' = (sync_found \/ (taken /\ window' = SyncWord))
        /\ poison_found' = (poison_found \/ (taken /\ board.ram /\ window' = PoisonWord))
    BY <2>0 DEF AppStep
  <2>3. consumed \in Nat /\ auto_boot /\ sel = 3 BY <1>0, <1>7, AppView DEF TopTypes
  <2> DEFINE n == IF taken THEN consumed + 1 ELSE consumed
  <2>4. /\ window' \in Seq(Nat) /\ Len(window') = IF n < Size THEN n ELSE Size
        /\ \A j \in 1 .. Len(window') : window'[j] = At(slot, (n - Len(window')) + j)
        /\ sync_found' \in BOOLEAN /\ poison_found' \in BOOLEAN
        /\ sync_found' <=> Seen(SyncWord, n)
        /\ poison_found' <=> board.ram /\ Seen(PoisonWord, n)
    <3>1. CASE ~taken BY <1>4, <2>1, <2>2, <3>1
    <3>2. CASE taken
      <4>1. n = consumed + 1 /\ n \in Nat \ {0} /\ n - 1 = consumed BY <2>3, <3>2
      <4>2. window' = Window(At(slot, consumed + 1)) BY <1>7, <2>2, <3>2, TakesDue
      <4> HIDE DEF n
      <4>3. /\ window' \in Seq(Nat) /\ Len(window') = IF n < Size THEN n ELSE Size
            /\ \A j \in 1 .. Len(window') : window'[j] = At(slot, (n - Len(window')) + j)
        BY <1>1, <1>4, <2>1, <2>3, <4>1, <4>2, WindowGrows
      <4>4. Seen(SyncWord, n) <=> Seen(SyncWord, consumed) \/ window' = SyncWord
        <5>1. Seen(SyncWord, n) <=> Seen(SyncWord, n - 1) \/ window' = SyncWord
          BY <1>1, <4>1, <4>3, WordSeen
        <5> QED BY <4>1, <5>1
      <4>5. Seen(PoisonWord, n) <=> Seen(PoisonWord, consumed) \/ window' = PoisonWord
        <5>1. Seen(PoisonWord, n) <=> Seen(PoisonWord, n - 1) \/ window' = PoisonWord
          BY <1>1, <4>1, <4>3, WordSeen
        <5> QED BY <4>1, <5>1
      <4>6. sync_found' \in BOOLEAN /\ poison_found' \in BOOLEAN BY <1>4, <2>2
      <4> QED BY <2>1, <2>2, <3>2, <4>3, <4>4, <4>5, <4>6
    <3> QED BY <3>1, <3>2
  <2>5. CASE ClientDone
    <3>1. sel' = 4 /\ client' # "app" BY <1>5, <2>3, <2>5
    <3>2. app = "DONE" /\ ~taken BY <1>0, <1>7, <2>5, AppView DEF taken
    <3>3. consumed = ProbeLen BY <1>0, <1>7, <3>2 DEF AppTypes
    <3>4. n = ProbeLen BY <3>2, <3>3
    <3>5. (Seen(SyncWord, n) <=> Holds(SyncWord)) /\ (Seen(PoisonWord, n) <=> Holds(PoisonWord))
      BY <3>4 DEF Seen, Holds
    <3> HIDE DEF n
    <3> QED BY <1>2, <1>3, <2>4, <3>1, <3>5 DEF WindowInv
  <2>6. CASE ~ClientDone
    <3>1. client' = "app" /\ consumed' = n /\ sel' = 3 BY <1>0, <1>5, <1>7, <2>3, <2>6, TopMoves
    <3>2. ASSUME NEW k PROVE At(slot', k) = At(slot, k) BY <1>2
    <3> HIDE DEF n
    <3> QED BY <1>2, <1>3, <2>4, <3>1, <3>2 DEF WindowInv
  <2> QED BY <2>5, <2>6
<1> QED BY <1>6, <1>7

LEMMA StatusStep ==
  ASSUME BootInv, StatusInv, Tick
  PROVE  StatusInv'
<1>0. ClientInv /\ TopTypes /\ WeTypes BY DEF BootInv, ClientInv
<1>1. wel' = wel /\ board' = board BY SameBoard DEF Tick
<1>2. /\ sel \in {1, 2, 3, 4, 5} /\ sel' = (IF ClientDone THEN sel + 1 ELSE sel)
      /\ client' = "we" => sel' = 4
      /\ ClientDone => consumed' = 0
  BY <1>0, ClientMoves
<1>3. CASE client # "we"
  <2>1. status_reg' = status_reg BY <1>3 DEF Tick, ClientStep, we_vars
  <2>2. client' = "we" => consumed' = 0 BY <1>0, <1>2, <1>3, TopMoves
  <2>3. "we" \in board.stay /\ sel' > 4 => sel > 4
    <3>1. sel = 4 => client \in {"none", "we"} BY <1>0, ClientAt DEF Places
    <3>2. client = "none" => ~ClientDone BY NoneView
    <3> QED BY <1>2, <1>3, <3>1, <3>2
  <2> QED BY <1>1, <2>1, <2>2, <2>3 DEF StatusInv
<1>4. CASE client = "we"
  <2>1. status_reg' = IF taken THEN Octet[3] ELSE status_reg
    BY <1>4 DEF Tick, ClientStep, WeStep
  <2>2. CASE taken
    <3>1. status_reg' = IF wel THEN 2 ELSE 0 BY <1>4, <2>1, <2>2, TakesDue
    <3> QED BY <1>1, <3>1 DEF StatusInv
  <2>3. CASE ~taken /\ consumed = 1
    <3>1. status_reg' = IF wel THEN 2 ELSE 0 BY <1>4, <2>1, <2>3 DEF StatusInv
    <3> QED BY <1>1, <3>1 DEF StatusInv
  <2>4. CASE ~taken /\ consumed # 1
    <3>1. consumed = 0 /\ we \notin {"RELEASE", "DONE"} BY <1>0, <1>4, <2>4 DEF WeTypes
    <3>2. ~ClientDone /\ sel = 4 BY <1>0, <1>4, <3>1, WeView
    <3>3. consumed' = 0 /\ sel' = 4 BY <1>0, <1>2, <2>4, <3>1, <3>2, TopMoves
    <3> QED BY <3>3 DEF StatusInv
  <2> QED BY <2>2, <2>3, <2>4
<1> QED BY <1>3, <1>4

LEMMA ButtonStep ==
  ASSUME BootInv, ButtonInv, Tick
  PROVE  ButtonInv'
<1>0. WakeTypes BY DEF BootInv, ClientInv
<1>1. held' = held BY SameBoard DEF Tick
<1>2. sync' = <<held, sync[1]>> BY DEF Tick, TopStep
<1>3. sync'[1] = held /\ sync'[2] = sync[1] BY <1>2
<1>4. wake' \notin {"IDLE", "MBR"} => wake # "IDLE"
  <2>1. CASE client = "wake" BY <1>0, <2>1 DEF Tick, ClientStep, WakeStep, WakeTypes
  <2>2. CASE client # "wake" BY <2>2 DEF Tick, ClientStep, wake_vars
  <2> QED BY <2>1, <2>2
<1> QED BY <1>1, <1>3, <1>4 DEF ButtonInv

\* What the sources ask for at the decision.
LEMMA StaysUnlessBootable ==
  ASSUME BootInv, DecideInv, state = "BOOT-DECIDE"
  PROVE  Decide = IF Bootable THEN "REBOOT-WAIT" ELSE "USB-CONNECT"
<1>0. TopTypes /\ WakeTypes BY DEF BootInv, ClientInv
<1>1. CASE ~auto_boot BY <1>1 DEF Decide, Bootable
<1>2. CASE auto_boot
  <2> DEFINE L == Len(Clients)
  <2>1. /\ L \in {3, 4} /\ ("we" \in board.stay => L = 4)
    BY <1>0, <1>2, ClientList DEF TopTypes
  <2>2. sel = L + 1 BY <1>0 DEF TopTypes
  <2> HIDE DEF L
  <2>3. sel > 3 /\ sel > 1 /\ ("we" \in board.stay => sel > 4) BY <2>1, <2>2
  <2>4. AppStay <=> ~Holds(SyncWord) \/ (board.ram /\ Holds(PoisonWord))
    BY <1>2, <2>3 DEF DecideInv, WindowInv, AppStay
  <2>5. "we" \in board.stay => (WeStay <=> wel)
    <3> SUFFICES ASSUME "we" \in board.stay PROVE WeStay <=> wel
      OBVIOUS
    <3>1. status_reg = IF wel THEN 2 ELSE 0 BY <2>3 DEF DecideInv, StatusInv
    <3>2. (2 \div 2) % 2 = 1 /\ (0 \div 2) % 2 = 0 OBVIOUS
    <3>3. CASE wel BY <3>1, <3>2, <3>3 DEF WeStay
    <3>4. CASE ~wel BY <3>1, <3>2, <3>4 DEF WeStay
    <3> QED BY <3>3, <3>4
  <2>6. sync[2] = held
    <3>1. wake = "DONE" BY <1>0, <2>3 DEF WakeTypes
    <3> QED BY <3>1 DEF DecideInv, ButtonInv
  <2>7. Stay <=> ~Bootable
    BY <1>2, <2>4, <2>5, <2>6, Zenon DEF Stay, Bootable
  <2> QED BY <1>2, <2>7 DEF Decide
<1> QED BY <1>1, <1>2

LEMMA DecisionStep ==
  ASSUME BootInv, DecideInv, Tick
  PROVE  DecisionRight'
<1>1. UNCHANGED given BY DEF Tick
<1>2. Bootable' <=> Bootable
  <2>1. (Holds(SyncWord)' <=> Holds(SyncWord)) /\ (Holds(PoisonWord)' <=> Holds(PoisonWord))
    BY <1>1, SameBoard DEF Holds, At
  <2> QED BY <1>1, <2>1, SameBoard DEF Bootable
<1>3. /\ state' = CASE state = "SELECT-FLASH" /\ accepted -> "SELECT-FLASH-RELEASE"
                    [] state = "SELECT-FLASH-RELEASE" /\ accepted -> "BOOT-READ"
                    [] state = "BOOT-READ" /\ sel > Len(Clients) -> "BOOT-DECIDE"
                    [] state = "BOOT-DECIDE" -> Decide
                    [] OTHER -> state
      /\ por_boot' = (por_boot \/ (state = "BOOT-DECIDE" /\ Decide = "REBOOT-WAIT"))
  BY DEF Tick, TopStep
<1>4. /\ state = "REBOOT-WAIT" => Bootable
      /\ state = "USB-CONNECT" => ~Bootable
      /\ por_boot <=> state = "REBOOT-WAIT"
  BY DEF DecideInv, DecisionRight
<1>5. CASE state = "BOOT-DECIDE"
  <2>1. state' = IF Bootable THEN "REBOOT-WAIT" ELSE "USB-CONNECT"
    BY <1>3, <1>5, StaysUnlessBootable
  <2>2. por_boot' <=> state' = "REBOOT-WAIT" BY <1>3, <1>4, <1>5, <2>1, StaysUnlessBootable
  <2> QED BY <1>2, <2>1, <2>2 DEF DecisionRight
<1>6. CASE state # "BOOT-DECIDE"
  <2>1. state' = state \/ state' \notin {"REBOOT-WAIT", "USB-CONNECT"} BY <1>3, <1>6
  <2>2. state \in {"REBOOT-WAIT", "USB-CONNECT"} => state' = state BY <1>3
  <2>3. por_boot' <=> por_boot BY <1>3, <1>6
  <2> QED BY <1>2, <1>4, <2>1, <2>2, <2>3 DEF DecisionRight
<1> QED BY <1>5, <1>6

LEMMA DecideInit ==
  Init => DecideInv
<1> SUFFICES ASSUME Init PROVE DecideInv
  OBVIOUS
<1>1. /\ board \in Boards /\ sel = 1 /\ consumed = 0 /\ por_boot = FALSE
      /\ state = IF board.ram THEN "SELECT-FLASH" ELSE "BOOT-READ"
      /\ wake = "IDLE" /\ window = <<>> /\ sync_found = FALSE /\ poison_found = FALSE
  BY DEF Init, ClientInit
<1>2. client \notin {"app", "we"}
  <2>1. TopTypes BY BootInit DEF BootInv, ClientInv
  <2> QED BY <1>1, <2>1, AppView, WeView
<1>3. WindowInv
  <2>1. /\ window \in Seq(Nat) /\ sync_found \in BOOLEAN /\ poison_found \in BOOLEAN
        /\ ~sync_found /\ ~poison_found
    <3>1. window = <<>> /\ sync_found = FALSE /\ poison_found = FALSE BY <1>1
    <3>2. window \in Seq(Nat) BY <3>1
    <3> QED BY <3>1, <3>2, Zenon
  <2>2. ~(sel > 3) BY <1>1
  <2> QED BY <1>1, <1>2, <2>1, <2>2, Zenon DEF WindowInv
<1>4. StatusInv BY <1>1, <1>2 DEF StatusInv
<1>5. ButtonInv BY <1>1 DEF ButtonInv
<1>6. DecisionRight BY <1>1 DEF DecisionRight
<1> QED BY <1>3, <1>4, <1>5, <1>6 DEF DecideInv

LEMMA DecideHolds ==
  ASSUME DecideInv, UNCHANGED Board
  PROVE  DecideInv'
<1>1. /\ UNCHANGED given /\ state' = state /\ sel' = sel /\ consumed' = consumed
      /\ por_boot' = por_boot /\ sync' = sync /\ wake' = wake
      /\ window' = window /\ sync_found' = sync_found /\ poison_found' = poison_found
      /\ status_reg' = status_reg
  BY DEF Board, top_vars, client_vars, wake_vars, app_vars, we_vars
<1>2. /\ board' = board /\ slot' = slot /\ wel' = wel /\ held' = held /\ auto_boot' = auto_boot
      /\ Clients' = Clients
  BY <1>1, SameBoard
<1>3. client' = client BY <1>1, <1>2 DEF client
<1>4. /\ Seen(SyncWord, consumed)' <=> Seen(SyncWord, consumed)
      /\ Seen(PoisonWord, consumed)' <=> Seen(PoisonWord, consumed)
      /\ Holds(SyncWord)' <=> Holds(SyncWord)
      /\ Holds(PoisonWord)' <=> Holds(PoisonWord)
  BY <1>1, <1>2 DEF Seen, Holds, At
<1>5. WindowInv'
  <2>1. ASSUME NEW k PROVE At(slot', k) = At(slot, k) BY <1>2
  <2> QED BY <1>1, <1>2, <1>3, <1>4, <2>1 DEF DecideInv, WindowInv
<1>6. StatusInv' BY <1>1, <1>2, <1>3 DEF DecideInv, StatusInv
<1>7. ButtonInv' BY <1>1, <1>2 DEF DecideInv, ButtonInv
<1>8. DecisionRight' BY <1>1, <1>2, <1>4 DEF DecideInv, DecisionRight, Bootable
<1> QED BY <1>5, <1>6, <1>7, <1>8 DEF DecideInv

(* The device reboots into the application exactly when the slot holds one and
   nothing asks it to stay. *)
THEOREM DecisionIsRight == Spec => []DecisionRight
<1>1. BootInv /\ DecideInv /\ [Next]_vars => DecideInv'
  <2> SUFFICES ASSUME BootInv, DecideInv, [Next]_vars PROVE DecideInv'
    OBVIOUS
  <2>1. CASE Tick
    BY <2>1, WindowStep, StatusStep, ButtonStep, DecisionStep DEF DecideInv
  <2>2. CASE HostAsks BY <2>2, DecideHolds DEF HostAsks
  <2>3. CASE HostReads BY <2>3, DecideHolds DEF HostReads
  <2>4. CASE UNCHANGED vars BY <2>4, DecideHolds DEF vars, Board
  <2> QED BY <2>1, <2>2, <2>3, <2>4 DEF Next
<1>2. DecideInv => DecisionRight BY DEF DecideInv
<1> QED BY <1>1, <1>2, DecideInit, BootCorrect, PTL DEF Spec

-----------------------------------------------------------------------------
(* The serial number, from the flash to the handler's memory. *)

\* The first n octets of the page, and where in them the scanner is.
Ends(p, n) == p <= n /\ \A j \in 1 .. p : At(secpage, (n - p) + j) = Key[j]

KeyEnd == Min(KeyEnds)
Colon  == Place(COLON, KeyEnd + 1)
Opens  == Place(QUOTE, Colon + 1)
Closes == Place(QUOTE, Opens + 1)

\* The characters in memory are the first that fit of the n after the place p.
Kept(p, n) ==
  /\ Len(serial) = IF n < MaxLen THEN n ELSE MaxLen
  /\ \A j \in 1 .. Len(serial) : serial[j] = At(secpage, p + j)

Scanned ==
  /\ serial \in Seq(Nat)
  /\ parser \in {"SEARCH", "SEEK_COLON", "SEEK_VALUE", "CAPTURE", "DONE"}
  /\ parser \in {"SEARCH", "SEEK_COLON", "SEEK_VALUE"} => serial = <<>>
  /\ parser # "SEARCH" => KeyEnds # {}
  /\ parser = "SEARCH" =>
       /\ \A k \in KeyEnds : consumed < k
       /\ match_pos \in 0 .. Len(Key) - 1 /\ Ends(match_pos, consumed)
       /\ \A p \in 1 .. Len(Key) - 1 : Ends(p, consumed) => p <= match_pos
  /\ parser = "SEEK_COLON" => KeyEnd <= consumed /\ consumed < Colon
  /\ parser = "SEEK_VALUE" => Colon <= consumed /\ consumed < Opens
  /\ parser = "CAPTURE" => /\ Opens <= consumed /\ consumed < Closes
                           /\ Kept(Opens, consumed - Opens)
  /\ parser = "DONE" => Closes <= consumed /\ Kept(Opens, (Closes - Opens) - 1)

PageText ==
  /\ consumed <= PageLen /\ Scanned
  /\ page \in {"RELEASE", "DONE"} => page_left = PageLen \/ ParserDone

Digit(k) == IF k % 2 = 1 THEN uid[(k + 1) \div 2] \div 16 ELSE uid[k \div 2] % 16

Encoded == IF consumed < DummyBytes THEN 0 ELSE consumed - DummyBytes

UidText ==
  /\ nibble \in {"HIGH", "LOW"}
  /\ nibble = "LOW" => uid_r = "READ" /\ consumed >= DummyBytes
  /\ Len(serial) = 2 * Encoded + (IF nibble = "LOW" THEN 1 ELSE 0)
  /\ \A j \in 1 .. Len(serial) : serial[j] = Digit(j)

SerialInv ==
  /\ serial \in Seq(Nat)
  /\ board.source = "uid" => Len(uid) = UidBytes
  /\ sel = 1 => /\ nibble = "HIGH" /\ parser = "SEARCH" /\ match_pos = 0 /\ serial = <<>>
                /\ page \notin {"RELEASE", "DONE"}
  /\ FromUid => UidText
  /\ FromPage => PageText
  /\ sel > 2 => serial = SerialOfFlash

-----------------------------------------------------------------------------
(* The descriptor, from the memory to the host. *)

\* A descriptor that fills its last packet is asked for once more.
ShortEnd == Len(DescriptorOf(SerialOfFlash)) % PacketSize # 0

DescriptorInv ==
  LET whole == DescriptorOf(serial)
      due   == IF w_length < Len(whole) THEN w_length ELSE Len(whole)
      r     == Len(received)
  IN /\ handler \in {"IDLE", "CLAIM", "STREAM"}
     /\ w_length \in Nat /\ received \in Seq(Nat)
     /\ w_length = 0 => handler = "IDLE" /\ received = <<>>
     /\ w_length > 0 =>
          /\ sel > 2
          /\ r <= due /\ \A k \in 1 .. r : received[k] = whole[k]
          /\ handler = "IDLE" => r = due
          /\ handler = "CLAIM" => \/ r = due
                                  \/ r = pos /\ pos < due /\ r % PacketSize = 0
          /\ handler = "STREAM" =>
               /\ packet \in Seq(Nat) /\ Len(packet) = in_packet
               /\ in_packet < PacketSize /\ r % PacketSize = 0
               /\ pos = r + in_packet /\ pos < due
               /\ \A k \in 1 .. in_packet : packet[k] = whole[r + k]

LEMMA Minimal ==
  ASSUME NEW R, IsWellFoundedOn(R, Nat), NEW T, T \subseteq Nat, T # {}
  PROVE  \E x \in T : \A y \in T : ~(<<y, x>> \in R)
BY WFMin, Zenon

\* The least of a set of numbers.
LEMMA LeastOf ==
  ASSUME NEW T, T \subseteq Nat, T # {}
  PROVE  Min(T) \in T /\ \A y \in T : Min(T) <= y
<1> DEFINE R == OpToRel(<, Nat)
<1>1. \A x, y \in Nat : x < y => <<x, y>> \in R BY DEF OpToRel
<1>2. IsWellFoundedOn(R, Nat) BY NatLessThanWellFounded
<1> HIDE DEF R
<1>3. PICK x \in T : \A y \in T : ~(<<y, x>> \in R) BY <1>2, Minimal
<1>4. \A y \in T : ~(y < x) BY <1>1, <1>3
<1>5. \A y \in T : x <= y BY <1>4
<1>6. \E k \in T : \A y \in T : k <= y BY <1>5
<1>7. Min(T) \in T /\ \A y \in T : Min(T) <= y BY <1>6, Zenon DEF Min
<1> QED BY <1>7

LEMMA LeastIs ==
  ASSUME NEW T, T \subseteq Nat, NEW k \in T, \A y \in T : k <= y
  PROVE  Min(T) = k
<1>1. k \in Nat /\ Min(T) \in Nat /\ Min(T) <= k /\ k <= Min(T) BY LeastOf
<1> QED BY <1>1

\* The place of a character.
LEMMA PlaceOf ==
  ASSUME NEW c, NEW n \in Nat
  PROVE  /\ Place(c, n) \in Nat /\ Place(c, n) <= PageLen + 1
         /\ n <= Place(c, n) \/ Place(c, n) = PageLen + 1
         /\ Place(c, n) <= PageLen => At(secpage, Place(c, n)) = c
         /\ \A k \in n .. PageLen : At(secpage, k) = c => Place(c, n) <= k
<1> DEFINE T == {k \in n .. PageLen : At(secpage, k) = c} \cup {PageLen + 1}
           p == Place(c, n)
<1>1. PageLen \in Nat BY BootAssumption
<1>2. T \subseteq Nat /\ T # {} /\ PageLen + 1 \in T BY <1>1
<1>3. p = Min(T) BY DEF Place
<1>4. p \in T /\ \A y \in T : p <= y
  <2> HIDE DEF T, p
  <2> QED BY <1>2, <1>3, LeastOf
<1> HIDE DEF p
<1>5. p = PageLen + 1 \/ (p \in n .. PageLen /\ At(secpage, p) = c) BY <1>4
<1>6. \A k \in n .. PageLen : At(secpage, k) = c => p <= k BY <1>4
<1>7. p \in Nat /\ p <= PageLen + 1 /\ (n <= p \/ p = PageLen + 1) BY <1>1, <1>5
<1> QED BY <1>1, <1>5, <1>6, <1>7 DEF p

\* One octet further on the way to the place.
LEMMA PlaceNext ==
  ASSUME NEW c, NEW k \in Nat, NEW n \in Nat, n < PageLen, k <= n + 1, n < Place(c, k)
  PROVE  /\ At(secpage, n + 1) = c => Place(c, k) = n + 1
         /\ At(secpage, n + 1) # c => n + 1 < Place(c, k)
<1> DEFINE p == Place(c, k)
<1>1. /\ p \in Nat /\ n < p /\ p <= PageLen + 1
      /\ p <= PageLen => At(secpage, p) = c
      /\ \A j \in k .. PageLen : At(secpage, j) = c => p <= j
  BY PlaceOf
<1>2. n + 1 \in k .. PageLen /\ PageLen \in Nat BY BootAssumption
<1> HIDE DEF p
<1>3. At(secpage, n + 1) = c => p = n + 1
  <2> SUFFICES ASSUME At(secpage, n + 1) = c PROVE p = n + 1
    OBVIOUS
  <2>1. p <= n + 1 BY <1>1, <1>2
  <2> QED BY <1>1, <2>1
<1>4. At(secpage, n + 1) # c => n + 1 < p
  <2>1. p = n + 1 => At(secpage, n + 1) = c BY <1>1, <1>2
  <2> QED BY <1>1, <2>1
<1> QED BY <1>3, <1>4 DEF p

\* The end of the key, as a state of the scan.
LEMMA KeyEndIs ==
  ASSUME NEW k \in Nat
  PROVE  k \in KeyEnds <=> k <= PageLen /\ Ends(Len(Key), k)
<1> DEFINE L == Len(Key)
<1>1. L \in Nat /\ PageLen \in Nat BY TextAssumption, BootAssumption
<1>2. k \in KeyEnds <=> k \in L .. PageLen /\ \A n \in 1 .. L : At(secpage, (k - L) + n) = Key[n]
  BY DEF KeyEnds
<1>3. Ends(L, k) <=> L <= k /\ \A j \in 1 .. L : At(secpage, (k - L) + j) = Key[j] BY DEF Ends
<1> HIDE DEF L
<1>4. k \in L .. PageLen <=> L <= k /\ k <= PageLen BY <1>1
<1> QED BY <1>2, <1>3, <1>4 DEF L

LEMMA KeyEndFirst ==
  ASSUME KeyEnds # {}
  PROVE  KeyEnd \in KeyEnds /\ KeyEnd \in Nat /\ KeyEnd <= PageLen /\ \A k \in KeyEnds : KeyEnd <= k
<1>1. KeyEnds \subseteq Nat /\ \A k \in KeyEnds : k <= PageLen BY TextAssumption, BootAssumption DEF KeyEnds
<1>2. KeyEnd \in KeyEnds /\ \A k \in KeyEnds : KeyEnd <= k BY <1>1, LeastOf DEF KeyEnd
<1> QED BY <1>1, <1>2

LEMMA EndsGrows ==
  ASSUME NEW n \in Nat, NEW p \in Nat \ {0}
  PROVE  Ends(p, n + 1) <=> At(secpage, n + 1) = Key[p] /\ Ends(p - 1, n)
<1>1. Ends(p, n + 1) <=> p <= n + 1 /\ \A j \in 1 .. p : At(secpage, ((n + 1) - p) + j) = Key[j]
  BY DEF Ends
<1>2. Ends(p - 1, n) <=> p - 1 <= n /\ \A j \in 1 .. p - 1 : At(secpage, (n - (p - 1)) + j) = Key[j]
  BY DEF Ends
<1>3. (p <= n + 1 <=> p - 1 <= n) /\ ((n + 1) - p) + p = n + 1 /\ p \in 1 .. p OBVIOUS
<1>4. ASSUME NEW j \in 1 .. p PROVE ((n + 1) - p) + j = (n - (p - 1)) + j /\ (j = p \/ j \in 1 .. p - 1)
  OBVIOUS
<1>5. 1 .. p - 1 \subseteq 1 .. p OBVIOUS
<1>6. ASSUME Ends(p, n + 1) PROVE At(secpage, n + 1) = Key[p] /\ Ends(p - 1, n)
  <2>1. At(secpage, n + 1) = Key[p]
    <3>1. At(secpage, ((n + 1) - p) + p) = Key[p] BY <1>1, <1>3, <1>6
    <3> QED BY <1>3, <3>1
  <2>2. ASSUME NEW j \in 1 .. p - 1 PROVE At(secpage, (n - (p - 1)) + j) = Key[j]
    <3>1. j \in 1 .. p BY <1>5
    <3>2. At(secpage, ((n + 1) - p) + j) = Key[j] BY <1>1, <1>6, <3>1
    <3> QED BY <1>4, <3>1, <3>2
  <2>3. p - 1 <= n BY <1>1, <1>3, <1>6
  <2> QED BY <1>2, <2>1, <2>2, <2>3
<1>7. ASSUME At(secpage, n + 1) = Key[p], Ends(p - 1, n) PROVE Ends(p, n + 1)
  <2>1. ASSUME NEW j \in 1 .. p PROVE At(secpage, ((n + 1) - p) + j) = Key[j]
    <3>1. CASE j = p
      <4>1. ((n + 1) - p) + j = n + 1 BY <3>1
      <4> QED BY <1>7, <3>1, <4>1
    <3>2. CASE j \in 1 .. p - 1
      <4>1. At(secpage, (n - (p - 1)) + j) = Key[j] BY <1>2, <1>7, <3>2
      <4> QED BY <1>4, <4>1
    <3> QED BY <1>4, <3>1, <3>2
  <2>2. p <= n + 1 BY <1>2, <1>3, <1>7
  <2> QED BY <1>1, <2>1, <2>2
<1> QED BY <1>6, <1>7

\* The search for the key: no match is lost when one breaks off.
LEMMA SearchStep ==
  ASSUME Scanned, parser = "SEARCH", NEW n \in Nat, n = consumed, n < PageLen,
         NEW m, m = IF At(secpage, n + 1) = Key[match_pos + 1] THEN match_pos + 1
                    ELSE Restart(At(secpage, n + 1))
  PROVE  /\ m = Len(Key) => KeyEnds # {} /\ KeyEnd = n + 1
         /\ m # Len(Key) => \A k \in KeyEnds : n + 1 < k
         /\ m \in 0 .. Len(Key) /\ Ends(m, n + 1)
         /\ \A p \in 1 .. Len(Key) - 1 : Ends(p, n + 1) => p <= m
<1> DEFINE L  == Len(Key)
           m0 == match_pos
           c  == At(secpage, n + 1)
<1>1. L \in Nat /\ L > 1 /\ \A j \in 2 .. L - 1 : Key[j] # Key[1] BY TextAssumption
<1>2. m0 \in 0 .. L - 1 /\ Ends(m0, n) /\ \A k \in KeyEnds : n < k BY DEF Scanned
<1>3. ASSUME NEW p \in 1 .. L - 1, Ends(p, n) PROVE p <= m0 BY <1>3 DEF Scanned
<1>4. ASSUME NEW p \in 1 .. L
      PROVE  Ends(p, n + 1) <=> c = Key[p] /\ Ends(p - 1, n)
  <2>1. p \in Nat \ {0} BY <1>1
  <2> QED BY <2>1, EndsGrows
<1>5. Ends(0, n + 1) /\ Ends(0, n) BY DEF Ends
<1>6. m = IF c = Key[m0 + 1] THEN m0 + 1 ELSE IF c = Key[1] THEN 1 ELSE 0 BY DEF Restart
<1>7. \A k \in KeyEnds : k \in Nat BY TextAssumption DEF KeyEnds
<1> HIDE DEF L, m0, c
<1>8. m \in 0 .. L BY <1>1, <1>2, <1>6
\* A shorter match that goes on is not within the one that broke off.
<1>9. ASSUME NEW p \in 2 .. L, Ends(p - 1, n), p - 1 < m0 PROVE FALSE
  <2> DEFINE j == (m0 - p) + 2
  <2>1. /\ p \in Nat /\ m0 \in Nat /\ j \in 1 .. m0 /\ j \in 2 .. L - 1
        /\ (n - m0) + j = (n - (p - 1)) + 1 /\ 1 \in 1 .. p - 1
    BY <1>1, <1>2, <1>9
  <2> HIDE DEF j
  <2>2. At(secpage, (n - m0) + j) = Key[j] BY <1>2, <2>1 DEF Ends
  <2>3. At(secpage, (n - (p - 1)) + 1) = Key[1] BY <1>9, <2>1 DEF Ends
  <2> QED BY <1>1, <2>1, <2>2, <2>3
<1>10. Ends(m, n + 1)
  <2>1. CASE c = Key[m0 + 1]
    <3>1. m = m0 + 1 /\ m \in 1 .. L /\ m - 1 = m0 BY <1>1, <1>2, <1>6, <2>1
    <3> QED BY <1>2, <1>4, <2>1, <3>1
  <2>2. CASE c # Key[m0 + 1] /\ c = Key[1]
    <3>1. m = 1 /\ 1 \in 1 .. L /\ 1 - 1 = 0 BY <1>1, <1>6, <2>2
    <3> QED BY <1>4, <1>5, <2>2, <3>1
  <2>3. CASE c # Key[m0 + 1] /\ c # Key[1] BY <1>5, <1>6, <2>3
  <2> QED BY <2>1, <2>2, <2>3
<1>11. ASSUME NEW p \in 1 .. L - 1, Ends(p, n + 1) PROVE p <= m
  <2>1. p \in 1 .. L /\ c = Key[p] /\ Ends(p - 1, n) BY <1>1, <1>4, <1>11
  <2>2. CASE p = 1
    <3>1. m0 + 1 >= 1 BY <1>2
    <3> QED BY <1>2, <1>6, <2>1, <2>2
  <2>3. CASE p # 1
    <3>1. p - 1 \in 1 .. L - 1 /\ p \in 2 .. L BY <1>1, <2>3
    <3>2. p - 1 <= m0 BY <1>3, <2>1, <3>1
    <3>3. ~(p - 1 < m0) BY <1>9, <2>1, <3>1
    <3>4. m0 + 1 = p BY <1>2, <3>1, <3>2, <3>3
    <3> QED BY <1>6, <2>1, <3>1, <3>4
  <2> QED BY <2>2, <2>3
<1>12. n + 1 \in KeyEnds <=> m = L
  <2>1. n + 1 \in KeyEnds <=> Ends(L, n + 1)
    <3>1. n + 1 \in Nat /\ n + 1 <= PageLen BY BootAssumption
    <3> QED BY <3>1, KeyEndIs DEF L
  <2>2. ASSUME Ends(L, n + 1) PROVE m = L
    <3>1. L \in 1 .. L /\ L - 1 \in 1 .. L - 1 BY <1>1
    <3>2. c = Key[L] /\ Ends(L - 1, n) BY <1>4, <2>2, <3>1
    <3>3. L - 1 <= m0 BY <1>3, <3>1, <3>2
    <3>4. m0 + 1 = L BY <1>1, <1>2, <3>3
    <3> QED BY <1>6, <3>2, <3>4
  <2> QED BY <1>10, <2>1, <2>2
<1>13. m = L => KeyEnds # {} /\ KeyEnd = n + 1
  <2> SUFFICES ASSUME m = L PROVE KeyEnds # {} /\ KeyEnd = n + 1
    OBVIOUS
  <2>1. n + 1 \in KeyEnds /\ KeyEnds # {} BY <1>12
  <2>2. \A k \in KeyEnds : n + 1 <= k BY <1>2, <1>7
  <2>3. KeyEnds \subseteq Nat BY <1>7
  <2> QED BY <2>1, <2>2, <2>3, LeastIs DEF KeyEnd
<1>14. m # L => \A k \in KeyEnds : n + 1 < k
  <2> SUFFICES ASSUME m # L, NEW k \in KeyEnds PROVE n + 1 < k
    OBVIOUS
  <2>1. k # n + 1 /\ n < k /\ k \in Nat BY <1>2, <1>7, <1>12
  <2> QED BY <2>1
<1> QED BY <1>8, <1>10, <1>11, <1>13, <1>14 DEF L

\* What the places depend on.
LEMMA SamePage ==
  ASSUME secpage' = secpage
  PROVE  /\ KeyEnds' = KeyEnds /\ KeyEnd' = KeyEnd /\ Colon' = Colon /\ Opens' = Opens
         /\ Closes' = Closes
         /\ \A k : At(secpage', k) = At(secpage, k)
<1>1. KeyEnds' = KeyEnds BY DEF KeyEnds
<1>2. KeyEnd' = KeyEnd BY <1>1 DEF KeyEnd
<1>3. Colon' = Colon BY <1>2 DEF Colon, Place
<1>4. Opens' = Opens BY <1>3 DEF Opens, Place
<1>5. Closes' = Closes BY <1>4 DEF Closes, Place
<1> QED BY <1>1, <1>2, <1>3, <1>4, <1>5

\* A character more in memory, as long as there is room.
LEMMA KeptGrows ==
  ASSUME serial \in Seq(Nat), secpage \in Seq(Nat), NEW p \in Nat, NEW n \in Nat, Kept(p, n),
         secpage' = secpage, serial' = Captured(At(secpage, (p + n) + 1))
  PROVE  serial' \in Seq(Nat) /\ Kept(p, n + 1)'
<1> DEFINE v == At(secpage, (p + n) + 1)
           l == Len(serial)
<1>1. MaxLen \in Nat BY TextAssumption
<1>2. v \in Nat BY DEF At
<1>3. /\ l = IF n < MaxLen THEN n ELSE MaxLen
      /\ \A j \in 1 .. l : serial[j] = At(secpage, p + j)
  BY DEF Kept
<1>4. serial' = IF l < MaxLen THEN Append(serial, v) ELSE serial BY DEF Captured
<1>5. /\ Append(serial, v) \in Seq(Nat) /\ Len(Append(serial, v)) = l + 1
      /\ Append(serial, v)[l + 1] = v /\ \A j \in 1 .. l : Append(serial, v)[j] = serial[j]
  BY <1>2
<1>6. l \in Nat OBVIOUS
<1>7. Kept(p, n + 1)' <=> /\ Len(serial') = (IF n + 1 < MaxLen THEN n + 1 ELSE MaxLen)
                          /\ \A j \in 1 .. Len(serial') : serial'[j] = At(secpage, p + j)
  BY DEF Kept
<1>8. serial' \in Seq(Nat) BY <1>4, <1>5
<1>9. CASE l < MaxLen
  <2>1. l = n /\ Len(serial') = n + 1 BY <1>1, <1>3, <1>4, <1>5, <1>9
  <2>2. ASSUME NEW j \in 1 .. n + 1 PROVE serial'[j] = At(secpage, p + j)
    <3>1. CASE j = n + 1
      <4>1. p + j = (p + n) + 1 BY <3>1
      <4> QED BY <1>4, <1>5, <1>9, <2>1, <3>1, <4>1
    <3>2. CASE j \in 1 .. n BY <1>3, <1>4, <1>5, <1>9, <2>1, <3>2
    <3> QED BY <3>1, <3>2
  <2>3. n + 1 = IF n + 1 < MaxLen THEN n + 1 ELSE MaxLen BY <1>1, <1>9, <2>1
  <2> QED BY <1>7, <1>8, <2>1, <2>2, <2>3
<1>10. CASE ~(l < MaxLen)
  <2>1. l = MaxLen /\ serial' = serial /\ n >= MaxLen BY <1>1, <1>3, <1>4, <1>6, <1>10
  <2>2. MaxLen = IF n + 1 < MaxLen THEN n + 1 ELSE MaxLen BY <1>1, <2>1
  <2> QED BY <1>3, <1>7, <1>8, <2>1, <2>2
<1> QED BY <1>9, <1>10

LEMMA InOrder ==
  ASSUME KeyEnds # {}
  PROVE  /\ KeyEnd \in Nat /\ Colon \in Nat /\ Opens \in Nat /\ Closes \in Nat /\ PageLen \in Nat
         /\ KeyEnd < Colon /\ Colon <= PageLen + 1
         /\ Opens <= PageLen + 1 /\ (Colon < Opens \/ Opens = PageLen + 1)
         /\ Closes <= PageLen + 1 /\ (Opens < Closes \/ Closes = PageLen + 1)
<1> DEFINE k == KeyEnd
           a == Colon
           b == Opens
           c == Closes
<1>1. k \in Nat /\ k <= PageLen BY KeyEndFirst
<1>2. a = Place(COLON, k + 1) /\ b = Place(QUOTE, a + 1) /\ c = Place(QUOTE, b + 1)
  BY DEF Colon, Opens, Closes
<1> HIDE DEF k, a, b, c
<1>3. k + 1 \in Nat /\ PageLen \in Nat BY <1>1, BootAssumption
<1>4. a \in Nat /\ a <= PageLen + 1 /\ (k + 1 <= a \/ a = PageLen + 1) BY <1>2, <1>3, PlaceOf
<1>5. a + 1 \in Nat BY <1>4
<1>6. b \in Nat /\ b <= PageLen + 1 /\ (a + 1 <= b \/ b = PageLen + 1) BY <1>2, <1>5, PlaceOf
<1>7. b + 1 \in Nat BY <1>6
<1>8. c \in Nat /\ c <= PageLen + 1 /\ (b + 1 <= c \/ c = PageLen + 1) BY <1>2, <1>7, PlaceOf
<1>9. k < a /\ (a < b \/ b = PageLen + 1) /\ (b < c \/ c = PageLen + 1)
  BY <1>1, <1>3, <1>4, <1>6, <1>8
<1> QED BY <1>1, <1>3, <1>4, <1>6, <1>8, <1>9 DEF k, a, b, c

\* The places, octet by octet.
LEMMA PlacesNext ==
  ASSUME KeyEnds # {}, NEW n \in Nat, n < PageLen
  PROVE  LET c == At(secpage, n + 1) IN
           /\ KeyEnd <= n /\ n < Colon  => (c = COLON => Colon = n + 1) /\ (c # COLON => n + 1 < Colon)
           /\ Colon <= n /\ n < Opens  => (c = QUOTE => Opens = n + 1) /\ (c # QUOTE => n + 1 < Opens)
           /\ Opens <= n /\ n < Closes => (c = QUOTE => Closes = n + 1) /\ (c # QUOTE => n + 1 < Closes)
<1> DEFINE c == At(secpage, n + 1)
<1>1. KeyEnd \in Nat /\ Colon \in Nat /\ Opens \in Nat BY InOrder
<1>2. ASSUME KeyEnd <= n, n < Colon
      PROVE  (c = COLON => Colon = n + 1) /\ (c # COLON => n + 1 < Colon)
  <2>1. KeyEnd + 1 \in Nat /\ KeyEnd + 1 <= n + 1 BY <1>1, <1>2
  <2>2. n < Place(COLON, KeyEnd + 1) BY <1>2 DEF Colon
  <2> QED BY <2>1, <2>2, PlaceNext DEF Colon
<1>3. ASSUME Colon <= n, n < Opens
      PROVE  (c = QUOTE => Opens = n + 1) /\ (c # QUOTE => n + 1 < Opens)
  <2>1. Colon + 1 \in Nat /\ Colon + 1 <= n + 1 BY <1>1, <1>3
  <2>2. n < Place(QUOTE, Colon + 1) BY <1>3 DEF Opens
  <2> QED BY <2>1, <2>2, PlaceNext DEF Opens
<1>4. ASSUME Opens <= n, n < Closes
      PROVE  (c = QUOTE => Closes = n + 1) /\ (c # QUOTE => n + 1 < Closes)
  <2>1. Opens + 1 \in Nat /\ Opens + 1 <= n + 1 BY <1>1, <1>4
  <2>2. n < Place(QUOTE, Opens + 1) BY <1>4 DEF Closes
  <2> QED BY <2>1, <2>2, PlaceNext DEF Closes
<1> QED BY <1>2, <1>3, <1>4

\* The scanner takes the next octet of the page.
LEMMA ScanStep ==
  ASSUME Scanned, consumed \in Nat, consumed < PageLen, secpage \in Seq(Nat), secpage' = secpage,
         Parse(At(secpage, consumed + 1)), consumed' = consumed + 1
  PROVE  Scanned'
<1> DEFINE n == consumed
           c == At(secpage, n + 1)
           L == Len(Key)
<1>1. n \in Nat /\ n < PageLen /\ PageLen \in Nat /\ consumed' = n + 1 BY BootAssumption
<1>2. L \in Nat /\ L > 1 /\ MaxLen \in Nat BY TextAssumption
<1>3. /\ KeyEnds' = KeyEnds /\ KeyEnd' = KeyEnd /\ Colon' = Colon /\ Opens' = Opens
      /\ Closes' = Closes
  BY SamePage
<1>4. /\ serial \in Seq(Nat)
      /\ parser \in {"SEARCH", "SEEK_COLON", "SEEK_VALUE", "CAPTURE", "DONE"}
      /\ parser \in {"SEARCH", "SEEK_COLON", "SEEK_VALUE"} => serial = <<>>
      /\ parser # "SEARCH" => KeyEnds # {}
  BY DEF Scanned
<1>5. CASE parser = "SEARCH"
  <2> DEFINE m == IF c = Key[match_pos + 1] THEN match_pos + 1 ELSE Restart(c)
  <2>1. /\ m = L => KeyEnds # {} /\ KeyEnd = n + 1
        /\ m # L => \A k \in KeyEnds : n + 1 < k
        /\ m \in 0 .. L /\ Ends(m, n + 1)
        /\ \A p \in 1 .. L - 1 : Ends(p, n + 1) => p <= m
    BY <1>1, <1>5, SearchStep
  <2>2. match_pos \in 0 .. L - 1 BY <1>5 DEF Scanned
  <2>3. serial' = serial /\ serial = <<>> BY <1>4, <1>5 DEF Parse
  <2>4. ASSUME NEW p PROVE Ends(p, consumed)' <=> Ends(p, n + 1)
    <3> HIDE DEF n
    <3> QED BY <1>1 DEF Ends
  <2>5. CASE m = L
    <3>1. Matches(c) /\ match_pos = L - 1
      <4>1. c = Key[match_pos + 1]
        <5>1. Restart(c) \in {0, 1} BY DEF Restart
        <5> HIDE DEF L, c
        <5> QED BY <1>2, <2>5, <5>1
      <4>2. match_pos + 1 = L BY <2>5, <4>1
      <4> HIDE DEF L
      <4> QED BY <1>2, <1>5, <2>2, <4>1, <4>2 DEF Matches
    <3>2. parser' = "SEEK_COLON" BY <1>5, <3>1 DEF Parse
    <3>3. KeyEnds # {} /\ KeyEnd = n + 1 /\ n + 1 < Colon BY <2>1, <2>5, InOrder
    <3> QED BY <1>1, <1>3, <2>3, <3>2, <3>3 DEF Scanned
  <2>6. CASE m # L
    <3>1. ~(Matches(c) /\ match_pos = L - 1) BY <1>2, <2>2, <2>6 DEF Matches
    <3>2. parser' = "SEARCH" BY <1>5, <3>1 DEF Parse, Matches
    <3>3. match_pos' = m /\ m \in 0 .. L - 1
      <4>1. match_pos' = IF c = Key[match_pos + 1] THEN (match_pos + 1) % L ELSE Restart(c)
        BY <1>5 DEF Parse, Matches
      <4>2. m \in 0 .. L - 1
        <5> HIDE DEF m, L
        <5> QED BY <1>2, <2>1, <2>6
      <4>3. c = Key[match_pos + 1] => (match_pos + 1) % L = match_pos + 1
        <5>1. c = Key[match_pos + 1] => match_pos + 1 \in 0 .. L - 1 BY <4>2
        <5> HIDE DEF L
        <5>2. ASSUME NEW x \in 0 .. L - 1 PROVE x % L = x BY <1>2
        <5> QED BY <5>1, <5>2
      <4> QED BY <4>1, <4>2, <4>3
    <3> HIDE DEF m, n
    <3>4. \A k \in KeyEnds : n + 1 < k BY <2>1, <2>6
    <3>5. Ends(match_pos, consumed)' <=> Ends(m, n + 1) BY <1>1, <3>3 DEF Ends
    <3> HIDE DEF L
    <3>6. /\ Ends(match_pos, consumed)' /\ match_pos' \in 0 .. L - 1
          /\ \A p \in 1 .. L - 1 : Ends(p, consumed)' => p <= match_pos'
      BY <2>1, <2>4, <3>3, <3>5
    <3> QED BY <1>1, <1>3, <2>3, <3>2, <3>4, <3>6 DEF Scanned, L
  <2> QED BY <2>5, <2>6
<1>6. CASE parser = "SEEK_COLON"
  <2>1. KeyEnds # {} /\ KeyEnd <= n /\ n < Colon BY <1>4, <1>6 DEF Scanned
  <2>2. (c = COLON => Colon = n + 1) /\ (c # COLON => n + 1 < Colon) BY <1>1, <2>1, PlacesNext
  <2>3. serial' = serial /\ serial = <<>> BY <1>4, <1>6 DEF Parse
  <2>4. parser' = IF c = COLON THEN "SEEK_VALUE" ELSE "SEEK_COLON" BY <1>6 DEF Parse, Matches
  <2>5. KeyEnd <= n + 1 BY <1>1, <2>1, InOrder
  <2>6. Colon = n + 1 => n + 1 < Opens BY <1>1, <2>1, InOrder
  <2> HIDE DEF n, c
  <2> QED BY <1>1, <1>3, <2>1, <2>2, <2>3, <2>4, <2>5, <2>6 DEF Scanned
<1>7. CASE parser = "SEEK_VALUE"
  <2>1. KeyEnds # {} /\ Colon <= n /\ n < Opens BY <1>4, <1>7 DEF Scanned
  <2>2. (c = QUOTE => Opens = n + 1) /\ (c # QUOTE => n + 1 < Opens) BY <1>1, <2>1, PlacesNext
  <2>3. serial' = serial /\ serial = <<>> BY <1>4, <1>7 DEF Parse
  <2>4. parser' = IF c = QUOTE THEN "CAPTURE" ELSE "SEEK_VALUE" BY <1>7 DEF Parse, Matches
  <2>5. Colon <= n + 1 BY <1>1, <2>1, InOrder
  <2>6. Opens = n + 1 => n + 1 < Closes BY <1>1, <2>1, InOrder
  <2>7. Kept(Opens, 0)'
    <3>1. Len(serial') = 0 /\ MaxLen \in Nat BY <1>2, <2>3
    <3> QED BY <3>1 DEF Kept
  <2>8. Opens = n + 1 => (consumed - Opens)' = 0 BY <1>1, <1>3
  <2>9. parser' = "CAPTURE" => Kept(Opens, consumed - Opens)'
    <3> SUFFICES ASSUME Opens = n + 1 PROVE Kept(Opens, consumed - Opens)'
      BY <2>2, <2>4
    <3> QED BY <2>7, <2>8 DEF Kept
  <2> HIDE DEF n, c
  <2> QED BY <1>1, <1>3, <2>1, <2>2, <2>3, <2>4, <2>5, <2>6, <2>9 DEF Scanned
<1>8. CASE parser = "CAPTURE"
  <2>1. KeyEnds # {} /\ Opens <= n /\ n < Closes /\ Kept(Opens, n - Opens) BY <1>4, <1>8 DEF Scanned
  <2>2. (c = QUOTE => Closes = n + 1) /\ (c # QUOTE => n + 1 < Closes) BY <1>1, <2>1, PlacesNext
  <2>3. parser' = IF c = QUOTE THEN "DONE" ELSE "CAPTURE" BY <1>8 DEF Parse, Matches
  <2>4. serial' = IF c = QUOTE THEN serial ELSE Captured(c) BY <1>8 DEF Parse
  <2>5. /\ Opens \in Nat /\ Opens <= n + 1 /\ n - Opens \in Nat
        /\ (n + 1) - Opens = (n - Opens) + 1 /\ (Opens + (n - Opens)) + 1 = n + 1
    BY <1>1, <2>1, InOrder
  <2>6. CASE c = QUOTE
    <3>1. (Closes - Opens) - 1 = n - Opens BY <1>1, <2>2, <2>5, <2>6
    <3>2. Kept(Opens, (Closes - Opens) - 1) BY <2>1, <3>1
    <3>3. serial' = serial BY <2>4, <2>6
    <3>4. Kept(Opens, (Closes - Opens) - 1)' BY <1>3, <3>2, <3>3 DEF Kept
    <3>5. Closes' <= consumed' BY <1>1, <1>3, <2>2, <2>6
    <3> HIDE DEF n, c
    <3> QED BY <1>1, <1>3, <1>4, <2>1, <2>3, <2>6, <3>3, <3>4, <3>5 DEF Scanned
  <2>7. CASE c # QUOTE
    <3>1. PICK o \in Nat, d \in Nat : o = Opens /\ d = n - Opens BY <2>5
    <3>2. Kept(o, d) /\ (o + d) + 1 = n + 1 /\ (n + 1) - Opens = d + 1 BY <2>1, <2>5, <3>1
    <3>3. serial' = Captured(At(secpage, (o + d) + 1)) BY <2>4, <2>7, <3>2
    <3>4. serial' \in Seq(Nat) /\ Kept(o, d + 1)'
      <4> HIDE DEF n, c
      <4> QED BY <1>4, <3>2, <3>3, KeptGrows
    <3>5. (consumed - Opens)' = d + 1 /\ Opens' = o BY <1>1, <1>3, <3>1, <3>2
    <3>6. Kept(Opens, consumed - Opens)' BY <3>4, <3>5 DEF Kept
    <3> HIDE DEF n, c
    <3> QED BY <1>1, <1>3, <2>1, <2>2, <2>3, <2>5, <2>7, <3>4, <3>6 DEF Scanned
  <2> QED BY <2>6, <2>7
<1>9. CASE parser = "DONE"
  <2>1. KeyEnds # {} /\ Closes <= n /\ Kept(Opens, (Closes - Opens) - 1) BY <1>4, <1>9 DEF Scanned
  <2>2. serial' = serial /\ parser' = "DONE" BY <1>9 DEF Parse, Matches
  <2>3. Kept(Opens, (Closes - Opens) - 1)' BY <1>3, <2>1, <2>2 DEF Kept
  <2>4. Closes' <= consumed' BY <1>1, <1>3, <2>1, InOrder
  <2> QED BY <1>1, <1>3, <1>4, <2>1, <2>2, <2>3, <2>4 DEF Scanned
<1> QED BY <1>4, <1>5, <1>6, <1>7, <1>8, <1>9

\* The first that fit of a sequence.
LEMMA UptoOf ==
  ASSUME NEW s \in Seq(Nat), NEW n \in Nat
  PROVE  /\ Upto(n, s) \in Seq(Nat) /\ Len(Upto(n, s)) = IF n < Len(s) THEN n ELSE Len(s)
         /\ \A k \in 1 .. Len(Upto(n, s)) : Upto(n, s)[k] = s[k]
<1> DEFINE t == SubSeq(s, 1, n)
<1>1. CASE n < Len(s)
  <2>1. t \in Seq(Nat) /\ Len(t) = n /\ \A k \in 1 .. n : t[k] = s[k] BY <1>1
  <2> QED BY <1>1, <2>1 DEF Upto
<1>2. CASE ~(n < Len(s)) BY <1>2 DEF Upto
<1> QED BY <1>1, <1>2

\* A value of n characters, which begins after the place p.
LEMMA ValueOfPage ==
  ASSUME secpage \in Seq(Nat), NEW p \in Nat, NEW n \in Int
  PROVE  LET t == [k \in 1 .. n |-> At(secpage, p + k)] IN
           /\ t \in Seq(Nat) /\ Len(t) = IF n < 0 THEN 0 ELSE n
           /\ \A k \in 1 .. Len(t) : t[k] = At(secpage, p + k)
<1> DEFINE t == [k \in 1 .. n |-> At(secpage, p + k)]
           l == IF n < 0 THEN 0 ELSE n
<1>1. l \in Nat /\ 1 .. n = 1 .. l OBVIOUS
<1>2. \A k \in 1 .. l : At(secpage, p + k) \in Nat BY DEF At
<1>3. t \in [1 .. l -> Nat] /\ \A k \in 1 .. l : t[k] = At(secpage, p + k) BY <1>1, <1>2
<1> HIDE DEF t, l
<1>4. t \in Seq(Nat) /\ Len(t) = l BY <1>1, <1>3
<1> QED BY <1>3, <1>4 DEF t, l

LEMMA KeptIs ==
  ASSUME serial \in Seq(Nat), secpage \in Seq(Nat), NEW p \in Nat, NEW n \in Nat, Kept(p, n)
  PROVE  serial = Upto(MaxLen, [k \in 1 .. n |-> At(secpage, p + k)])
<1> DEFINE t == [k \in 1 .. n |-> At(secpage, p + k)]
           s == Upto(MaxLen, t)
<1>1. t \in Seq(Nat) /\ Len(t) = n /\ \A k \in 1 .. n : t[k] = At(secpage, p + k)
  <2>1. /\ t \in Seq(Nat) /\ Len(t) = IF n < 0 THEN 0 ELSE n
        /\ \A k \in 1 .. Len(t) : t[k] = At(secpage, p + k)
    <3>1. n \in Int OBVIOUS
    <3> QED BY <3>1, ValueOfPage
  <2> HIDE DEF t
  <2>2. Len(t) = n BY <2>1
  <2> QED BY <2>1, <2>2
<1>2. MaxLen \in Nat BY TextAssumption
<1> HIDE DEF t
<1>3. /\ s \in Seq(Nat) /\ Len(s) = IF MaxLen < n THEN MaxLen ELSE n
      /\ \A k \in 1 .. Len(s) : s[k] = t[k]
  BY <1>1, <1>2, UptoOf
<1> HIDE DEF s
<1>4. Len(serial) = IF n < MaxLen THEN n ELSE MaxLen BY DEF Kept
<1>5. Len(serial) = Len(s) /\ Len(s) <= n BY <1>2, <1>3, <1>4
<1>6. ASSUME NEW k \in 1 .. Len(serial) PROVE serial[k] = s[k]
  <2>1. k \in 1 .. n /\ k \in 1 .. Len(s) BY <1>5
  <2>2. serial[k] = At(secpage, p + k) BY DEF Kept
  <2> QED BY <1>1, <1>3, <2>1, <2>2
<1>7. serial = s BY <1>3, <1>5, <1>6, SameSequence
<1> QED BY <1>7 DEF s, t

\* The scanner is through: at the end of the value, or of the page.
LEMMA PageRead ==
  ASSUME Scanned, consumed \in Nat, consumed <= PageLen, secpage \in Seq(Nat),
         consumed = PageLen \/ ParserDone, board.source = "page"
  PROVE  serial = SerialOfFlash
<1> DEFINE N == (Closes - Opens) - 1
           t == [k \in 1 .. N |-> At(secpage, Opens + k)]
<1>0. PageLen \in Nat /\ MaxLen \in Nat BY BootAssumption, TextAssumption
<1>1. SerialOfFlash = Upto(MaxLen, SerialOfPage) BY DEF SerialOfFlash
<1>2. KeyEnds # {} => SerialOfPage = t
  BY DEF SerialOfPage, Closes, Opens, Colon, KeyEnd
<1>3. Upto(MaxLen, <<>>) = <<>> BY <1>0 DEF Upto
<1>4. /\ serial \in Seq(Nat)
      /\ parser \in {"SEARCH", "SEEK_COLON", "SEEK_VALUE", "CAPTURE", "DONE"}
      /\ parser \in {"SEARCH", "SEEK_COLON", "SEEK_VALUE"} => serial = <<>>
      /\ parser # "SEARCH" => KeyEnds # {}
  BY DEF Scanned
<1>5. CASE parser = "SEARCH"
  <2>1. consumed = PageLen /\ \A k \in KeyEnds : consumed < k BY <1>5 DEF Scanned, ParserDone
  <2>2. \A k \in KeyEnds : k \in Nat /\ k <= PageLen BY <1>0, TextAssumption DEF KeyEnds
  <2>3. KeyEnds = {} BY <1>0, <2>1, <2>2
  <2>4. SerialOfPage = <<>> BY <2>3 DEF SerialOfPage
  <2> QED BY <1>1, <1>3, <1>4, <1>5, <2>4
<1>6. CASE parser \in {"SEEK_COLON", "SEEK_VALUE"}
  <2>1. consumed = PageLen /\ KeyEnds # {} BY <1>4, <1>6 DEF ParserDone
  <2>2. consumed < Colon \/ consumed < Opens BY <1>6 DEF Scanned
  <2>3. Opens = PageLen + 1 /\ Closes = PageLen + 1 BY <2>1, <2>2, InOrder
  <2>4. N = -1 BY <1>0, <2>3
  <2>5. t = <<>>
    <3>1. 1 .. N = {} BY <2>4
    <3> QED BY <3>1
  <2> HIDE DEF t, N
  <2> QED BY <1>1, <1>2, <1>3, <1>4, <1>6, <2>1, <2>5
<1>7. CASE parser \in {"CAPTURE", "DONE"}
  <2>1. KeyEnds # {} BY <1>4, <1>7
  <2>2. Opens \in Nat /\ Closes \in Nat /\ Opens < Closes /\ Kept(Opens, N)
    <3>1. CASE parser = "CAPTURE"
      <4>1. consumed = PageLen /\ Opens <= consumed /\ consumed < Closes BY <3>1 DEF Scanned, ParserDone
      <4>2. Kept(Opens, consumed - Opens) BY <3>1 DEF Scanned
      <4>3. Closes = PageLen + 1 /\ Opens \in Nat BY <2>1, <4>1, InOrder
      <4>4. N = consumed - Opens BY <1>0, <4>1, <4>3
      <4> HIDE DEF N
      <4>5. Kept(Opens, N) BY <4>2, <4>4
      <4> QED BY <1>0, <4>1, <4>3, <4>5
    <3>2. CASE parser = "DONE"
      <4>1. Closes <= consumed /\ Kept(Opens, N) BY <3>2 DEF Scanned
      <4> HIDE DEF N
      <4> QED BY <1>0, <2>1, <4>1, InOrder
    <3> QED BY <1>7, <3>1, <3>2
  <2>3. N \in Nat BY <2>2
  <2> HIDE DEF N
  <2>4. serial = Upto(MaxLen, t) BY <1>4, <2>2, <2>3, KeptIs
  <2> QED BY <1>1, <1>2, <2>1, <2>4
<1> QED BY <1>4, <1>5, <1>6, <1>7

\* A page octet that is taken is one of the page, and all of them were taken at the end.
LEMMA PageTaken ==
  ASSUME BootInv, FromPage
  PROVE  /\ taken => consumed < PageLen /\ Octet[3] = At(secpage, consumed + 1)
         /\ page = "DONE" => ~octet_valid /\ (page_left = PageLen => consumed = PageLen)
<1>0. ClientInv /\ TopTypes /\ PageTypes /\ PinInv /\ OctetInv /\ BackInv BY DEF BootInv, ClientInv
<1> DEFINE C == consumed
           G == GetCount
           E == GetsOut
           X == Len(shreg)
<1>1. PageLen \in Nat \ {0} /\ Bits \in Nat \ {0} BY BootAssumption, TimingAssumption
<1>2. G = (IF page_left = PageLen THEN PageLen ELSE (PageLen - 1) - page_left) /\ page_left \in 0 .. PageLen
  BY <1>0, PageView DEF CountedDown, PageTypes
<1>3. C \in Nat BY <1>0 DEF TopTypes
<1>4. taken => C < PageLen /\ Octet[3] = At(secpage, C + 1)
  <2> SUFFICES ASSUME taken PROVE C < PageLen /\ Octet[3] = At(secpage, C + 1)
    OBVIOUS
  <2>1. Octet = Due /\ Flying /\ X = Bits - 1 BY OctetIsDue DEF taken, octet_valid
  <2>2. Octet[3] = At(secpage, C + 1)
    <3>1. Octet[3] = Value(C) BY <2>1 DEF Due
    <3>2. ~FromUid /\ client = "serial" BY <1>0, PageView
    <3> QED BY <3>1, <3>2 DEF Value
  <2>3. E = C + 1
    <3>1. BitsOut \in 0 .. Bits - 1
      <4>1. nbits \in 0 .. Bits - 1
        <5>1. cycle \in 0 .. Bits - 1 /\ nbits = IF BitOut THEN (cycle + 1) % Bits ELSE cycle
          BY <1>0 DEF PinInv
        <5> QED BY <1>1, <5>1
      <4>2. 0 \in 0 .. Bits - 1 BY <1>1
      <4> QED BY <4>1, <4>2 DEF BitsOut
    <3>2. \/ E = C /\ BitsOut = X + 1
          \/ E = C + 1 /\ BitsOut = 0 /\ X = Bits - 1
      BY <1>0, <2>1 DEF OctetInv
    <3> HIDE DEF X, E, C
    <3> QED BY <1>1, <2>1, <3>1, <3>2
  <2>4. E <= PageLen
    <3>1. Reading => page_left < PageLen
      <4>1. Reading => page = "READ" BY <1>0, PageView, OctetsDiffer DEF Reading, PageOctet
      <4> QED BY <1>0, <4>1 DEF PageTypes
    <3>2. E = G \/ (E = G + 1 /\ Reading) BY <1>2, <1>1 DEF GetsOut
    <3> HIDE DEF G, E
    <3> QED BY <1>1, <1>2, <3>1, <3>2
  <2> HIDE DEF E, C
  <2> QED BY <1>1, <1>3, <2>2, <2>3, <2>4
<1>5. page = "DONE" => ~octet_valid /\ (page_left = PageLen => C = PageLen)
  <2> SUFFICES ASSUME page = "DONE" PROVE ~octet_valid /\ (page_left = PageLen => C = PageLen)
    OBVIOUS
  <2>1. ~Flying BY <1>0 DEF BackInv
  <2>2. ~octet_valid BY <2>1, OctetIsDue
  <2>3. E = C BY <1>0, <2>1 DEF OctetInv
  <2>4. ~Reading BY <1>0, PageView, OctetsDiffer DEF Reading, PageOctet
  <2>5. E = G BY <1>1, <1>2, <2>4 DEF GetsOut
  <2> HIDE DEF E, C, G
  <2> QED BY <1>2, <2>2, <2>3, <2>5
<1> QED BY <1>4, <1>5

LEMMA ScannedStays ==
  ASSUME Scanned, secpage' = secpage, consumed' = consumed, parser' = parser,
         match_pos' = match_pos, serial' = serial
  PROVE  Scanned'
<1>1. /\ KeyEnds' = KeyEnds /\ KeyEnd' = KeyEnd /\ Colon' = Colon /\ Opens' = Opens
      /\ Closes' = Closes
  BY SamePage
<1>2. ASSUME NEW p PROVE Ends(p, consumed)' <=> Ends(p, consumed) BY DEF Ends
<1>3. Ends(match_pos, consumed)' <=> Ends(match_pos, consumed) BY DEF Ends
<1>4. /\ Kept(Opens, consumed - Opens)' <=> Kept(Opens, consumed - Opens)
      /\ Kept(Opens, (Closes - Opens) - 1)' <=> Kept(Opens, (Closes - Opens) - 1)
  BY <1>1 DEF Kept
<1> QED BY <1>1, <1>2, <1>3, <1>4 DEF Scanned

\* The text of the page, and of nothing else.
LEMMA PageTextStep ==
  ASSUME BootInv, SerialInv, FromPage, ~ClientDone, Tick
  PROVE  PageText'
<1>0. ClientInv /\ TopTypes /\ PageTypes BY DEF BootInv, ClientInv
<1>1. PageText BY DEF SerialInv
<1>2. secpage' = secpage /\ secpage \in Seq(Nat) /\ consumed \in Nat
  BY <1>0, SameBoard DEF Tick, TopTypes
<1>3. consumed' = IF taken THEN consumed + 1 ELSE consumed BY <1>0, TopMoves
<1>4. PageLen \in Nat \ {0} BY BootAssumption
<1>5. IF taken THEN Parse(Octet[3]) ELSE UNCHANGED text_vars
  BY <1>0, PageView DEF Tick, ClientStep
<1>6. Scanned' /\ consumed' <= PageLen /\ (ParserDone => ParserDone')
  <2>1. CASE taken
    <3>1. consumed < PageLen /\ Octet[3] = At(secpage, consumed + 1) BY <2>1, PageTaken
    <3>2. Parse(At(secpage, consumed + 1)) /\ consumed' = consumed + 1 BY <1>3, <1>5, <2>1, <3>1
    <3>3. Scanned' BY <1>1, <1>2, <3>1, <3>2, ScanStep DEF PageText
    <3>4. consumed' <= PageLen BY <1>2, <1>4, <3>1, <3>2
    <3>5. ParserDone => ParserDone' BY <3>2 DEF Parse, Matches, ParserDone
    <3> QED BY <3>3, <3>4, <3>5
  <2>2. CASE ~taken
    <3>1. consumed' = consumed /\ UNCHANGED text_vars BY <1>3, <1>5, <2>2
    <3>2. parser' = parser /\ match_pos' = match_pos /\ serial' = serial BY <3>1 DEF text_vars
    <3>3. Scanned /\ consumed <= PageLen BY <1>1 DEF PageText
    <3>4. Scanned' BY <1>2, <3>1, <3>2, <3>3, ScannedStays
    <3> QED BY <3>1, <3>2, <3>3, <3>4 DEF ParserDone
  <2> QED BY <2>1, <2>2
<1>7. ASSUME page' \in {"RELEASE", "DONE"} PROVE page_left' = PageLen \/ ParserDone
  <2>1. PageStep(accepted, ParserDone) BY DEF Tick, ClientStep
  <2>2. CASE page \in {"RELEASE", "DONE"}
    <3>1. page_left' = page_left BY <2>1, <2>2 DEF PageStep
    <3> QED BY <1>1, <2>2, <3>1 DEF PageText
  <2>3. CASE page \in {"PROLOGUE", "READ"}
    <3>1. page = "READ" /\ accepted /\ (page_left = 0 \/ ParserDone)
      BY <1>7, <2>1, <2>3 DEF PageStep
    <3>2. page_left' = (page_left - 1) % (PageLen + 1) BY <2>1, <3>1 DEF PageStep
    <3>3. (0 - 1) % (PageLen + 1) = PageLen BY <1>4
    <3> QED BY <3>1, <3>2, <3>3
  <2> QED BY <1>0, <2>2, <2>3 DEF PageTypes
<1> QED BY <1>6, <1>7 DEF PageText

\* The octets of the identifier: which are forwarded, and when the last is in.
LEMMA UidForwarded ==
  ASSUME BootInv, FromUid
  PROVE  /\ uid_r = "READ" => /\ consumed \in 0 .. UidTotal - 1
                              /\ UidForwards <=> consumed >= DummyBytes
         /\ uid_r = "DONE" => consumed = UidTotal
         /\ octet_valid => Octet[3] = At(uid, (consumed - DummyBytes) + 1)
<1>0. ClientInv /\ TopTypes /\ UidTypes BY DEF BootInv, ClientInv
<1>1. UidBytes \in Nat \ {0} /\ DummyBytes \in Nat /\ UidTotal = UidBytes + DummyBytes
  BY BootAssumption DEF UidTotal
<1>2. /\ consumed = IF read_count = UidTotal THEN UidTotal ELSE (UidTotal - 1) - read_count
      /\ read_count \in 0 .. UidTotal
      /\ uid_r = "READ" => read_count < UidTotal
      /\ uid_r = "DONE" => read_count = UidTotal
  BY <1>0 DEF UidTypes, CountedDown
<1>3. UidForwards <=> uid_r = "READ" /\ read_count < UidBytes BY DEF UidForwards
<1>4. octet_valid => Octet[3] = At(uid, (consumed - DummyBytes) + 1)
  <2> SUFFICES ASSUME octet_valid PROVE Octet[3] = At(uid, (consumed - DummyBytes) + 1)
    OBVIOUS
  <2>1. Octet[3] = Value(consumed) BY OctetIsDue DEF Due
  <2>2. client = "serial" /\ ~FromPage BY <1>0, UidView
  <2> QED BY <2>1, <2>2 DEF Value
<1> QED BY <1>1, <1>2, <1>3, <1>4

\* A digit more.
LEMMA DigitOf ==
  ASSUME NEW e \in Nat, e < UidBytes, uid \in Seq(Nat), Len(uid) = UidBytes
  PROVE  /\ At(uid, e + 1) \in Nat
         /\ Digit(2 * e + 1) = At(uid, e + 1) \div 16
         /\ Digit(2 * e + 2) = At(uid, e + 1) % 16
<1>1. e + 1 \in 1 .. Len(uid) BY BootAssumption
<1>2. At(uid, e + 1) = uid[e + 1] /\ uid[e + 1] \in Nat BY <1>1 DEF At
<1>3. /\ (2 * e + 1) % 2 = 1 /\ (2 * e + 2) % 2 # 1
      /\ ((2 * e + 1) + 1) \div 2 = e + 1 /\ (2 * e + 2) \div 2 = e + 1
  OBVIOUS
<1> QED BY <1>2, <1>3 DEF Digit

LEMMA DigitTaken ==
  ASSUME serial \in Seq(Nat), \A j \in 1 .. Len(serial) : serial[j] = Digit(j),
         Len(serial) < MaxLen, NEW d \in Nat, d = Digit(Len(serial) + 1), serial' = Captured(d),
         uid' = uid
  PROVE  /\ serial' \in Seq(Nat) /\ Len(serial') = Len(serial) + 1
         /\ \A j \in 1 .. Len(serial') : serial'[j] = Digit(j)'
<1> DEFINE l == Len(serial)
           s == Append(serial, d)
<1>1. serial' = s BY DEF Captured
<1>2. s \in Seq(Nat) /\ Len(s) = l + 1 /\ s[l + 1] = d /\ \A j \in 1 .. l : s[j] = serial[j]
  OBVIOUS
<1>3. \A j : Digit(j)' = Digit(j) BY DEF Digit
<1>4. l \in Nat /\ d = Digit(l + 1) /\ \A j \in 1 .. l : serial[j] = Digit(j) OBVIOUS
<1> HIDE DEF s, l
<1>5. \A j \in 1 .. l + 1 : s[j] = Digit(j)
  <2> SUFFICES ASSUME NEW j \in 1 .. l + 1 PROVE s[j] = Digit(j)
    OBVIOUS
  <2>1. j = l + 1 \/ j \in 1 .. l BY <1>4
  <2> QED BY <1>2, <1>4, <2>1
<1> QED BY <1>1, <1>2, <1>3, <1>5 DEF l

\* Two digits for each octet forwarded, and one for the octet that is held.
LEMMA UidTextStep ==
  ASSUME BootInv, SerialInv, FromUid, ~ClientDone, Tick
  PROVE  UidText' /\ serial' \in Seq(Nat)
<1> DEFINE e == Encoded
           D == DummyBytes
           o == At(uid, e + 1)
<1>0. ClientInv /\ TopTypes /\ UidTypes BY DEF BootInv, ClientInv
<1>1. /\ UidText /\ serial \in Seq(Nat) /\ uid \in Seq(Nat) /\ Len(uid) = UidBytes
      /\ consumed \in Nat
  BY <1>0, UidView DEF SerialInv, TopTypes
<1>2. uid' = uid BY SameBoard DEF Tick
<1>3. UidBytes \in Nat \ {0} /\ D \in Nat /\ MaxLen \in Nat /\ 2 * UidBytes <= MaxLen
      /\ UidTotal = UidBytes + D
  BY BootAssumption, TextAssumption, SerialAssumption DEF UidTotal
<1>4. uid_r = "READ" BY <1>0, UidView DEF UidTypes
<1>5. /\ consumed \in 0 .. UidTotal - 1 /\ (UidForwards <=> consumed >= D)
      /\ octet_valid => Octet[3] = At(uid, (consumed - D) + 1)
  BY <1>4, UidForwarded
<1>6. /\ nibble \in {"HIGH", "LOW"} /\ (nibble = "LOW" => consumed >= D)
      /\ Len(serial) = 2 * e + (IF nibble = "LOW" THEN 1 ELSE 0)
      /\ \A j \in 1 .. Len(serial) : serial[j] = Digit(j)
  BY <1>1 DEF UidText
<1>7. consumed' = IF taken THEN consumed + 1 ELSE consumed BY <1>0, TopMoves
<1>8. IF octet_valid /\ UidForwards THEN Encode(Octet[3]) ELSE UNCHANGED text_vars
  BY <1>0, UidView DEF Tick, ClientStep
<1>9. taken <=> octet_valid /\ (UidForwards => nibble = "LOW")
  BY <1>0, <1>4, UidView DEF taken, UidReady, UidForwards
<1>10. uid_r' = IF taken /\ read_count = 0 THEN "DONE" ELSE uid_r
  BY DEF Tick, ClientStep, UidStep
<1>11. Encoded' = IF consumed' < D THEN 0 ELSE consumed' - D BY DEF Encoded
<1>12. e = (IF consumed < D THEN 0 ELSE consumed - D) BY DEF Encoded
<1>13. UidText' <=> /\ nibble' \in {"HIGH", "LOW"}
                    /\ nibble' = "LOW" => uid_r' = "READ" /\ consumed' >= D
                    /\ Len(serial') = 2 * Encoded' + (IF nibble' = "LOW" THEN 1 ELSE 0)
                    /\ \A j \in 1 .. Len(serial') : serial'[j] = Digit(j)'
  BY DEF UidText
<1> HIDE DEF e, D
<1>14. e \in Nat /\ e < UidBytes /\ (consumed >= D => (consumed - D) + 1 = e + 1)
  BY <1>3, <1>5, <1>12
<1>15. o \in Nat /\ Digit(2 * e + 1) = o \div 16 /\ Digit(2 * e + 2) = o % 16
  BY <1>1, <1>14, DigitOf
<1> HIDE DEF o
<1>16. CASE octet_valid /\ UidForwards /\ nibble = "HIGH"
  <2>1. Octet[3] = o BY <1>5, <1>14, <1>16 DEF o
  <2>2. nibble' = "LOW" /\ serial' = Captured(o \div 16) BY <1>8, <1>16, <2>1 DEF Encode
  <2>3. consumed' = consumed /\ uid_r' = "READ" /\ consumed >= D BY <1>4, <1>5, <1>7, <1>9, <1>10, <1>16
  <2>4. Encoded' = e BY <1>11, <1>12, <2>3
  <2>5. Len(serial) = 2 * e /\ 2 * e < MaxLen BY <1>3, <1>6, <1>14, <1>16
  <2>6. o \div 16 \in Nat BY <1>15
  <2>7. /\ serial' \in Seq(Nat) /\ Len(serial') = 2 * e + 1
        /\ \A j \in 1 .. Len(serial') : serial'[j] = Digit(j)'
    <3>1. o \div 16 = Digit(Len(serial) + 1) BY <1>15, <2>5
    <3>2. Len(serial) < MaxLen BY <2>5
    <3>3. /\ serial' \in Seq(Nat) /\ Len(serial') = Len(serial) + 1
          /\ \A j \in 1 .. Len(serial') : serial'[j] = Digit(j)'
      BY <1>1, <1>2, <1>6, <2>2, <2>6, <3>1, <3>2, DigitTaken
    <3> QED BY <2>5, <3>3
  <2> QED BY <1>13, <2>2, <2>3, <2>4, <2>7
<1>17. CASE octet_valid /\ UidForwards /\ nibble = "LOW"
  <2>1. Octet[3] = o BY <1>5, <1>14, <1>17 DEF o
  <2>2. nibble' = "HIGH" /\ serial' = Captured(o % 16) BY <1>8, <1>17, <2>1 DEF Encode
  <2>3. consumed' = consumed + 1 /\ consumed >= D BY <1>5, <1>7, <1>9, <1>17
  <2>4. Encoded' = e + 1 BY <1>1, <1>3, <1>11, <1>12, <2>3
  <2>5. Len(serial) = 2 * e + 1 /\ 2 * e + 1 < MaxLen BY <1>3, <1>6, <1>14, <1>17
  <2>6. o % 16 \in Nat BY <1>15
  <2>7. /\ serial' \in Seq(Nat) /\ Len(serial') = 2 * e + 2
        /\ \A j \in 1 .. Len(serial') : serial'[j] = Digit(j)'
    <3>1. Len(serial) + 1 = 2 * e + 2 BY <1>14, <2>5
    <3>2. o % 16 = Digit(Len(serial) + 1) BY <1>15, <3>1
    <3>3. Len(serial) < MaxLen BY <2>5
    <3>4. /\ serial' \in Seq(Nat) /\ Len(serial') = Len(serial) + 1
          /\ \A j \in 1 .. Len(serial') : serial'[j] = Digit(j)'
      BY <1>1, <1>2, <1>6, <2>2, <2>6, <3>2, <3>3, DigitTaken
    <3> QED BY <3>1, <3>4
  <2>8. 2 * e + 2 = 2 * (e + 1) BY <1>14
  <2> QED BY <1>13, <2>2, <2>4, <2>7, <2>8
<1>18. CASE ~(octet_valid /\ UidForwards)
  <2>1. nibble' = nibble /\ serial' = serial BY <1>8, <1>18 DEF text_vars
  <2>2. \A j : Digit(j)' = Digit(j) BY <1>2 DEF Digit
  <2>3. CASE taken
    <3>1. consumed < D /\ nibble = "HIGH" /\ consumed' = consumed + 1
      BY <1>1, <1>3, <1>5, <1>6, <1>7, <1>9, <1>18, <2>3
    <3>2. Encoded' = 0 /\ e = 0 BY <1>1, <1>3, <1>11, <1>12, <3>1
    <3> QED BY <1>1, <1>6, <1>13, <2>1, <2>2, <3>1, <3>2
  <2>4. CASE ~taken
    <3>1. consumed' = consumed /\ uid_r' = "READ" /\ Encoded' = e BY <1>4, <1>7, <1>10, <1>11, <1>12, <2>4
    <3> QED BY <1>1, <1>6, <1>13, <2>1, <2>2, <3>1
  <2> QED BY <2>3, <2>4
<1> QED BY <1>6, <1>16, <1>17, <1>18

\* The identifier is all there once the last of its octets is.
LEMMA UidRead ==
  ASSUME BootInv, SerialInv, FromUid, ClientDone
  PROVE  serial = SerialOfFlash
<1>0. ClientInv /\ TopTypes /\ UidTypes BY DEF BootInv, ClientInv
<1>1. uid_r = "DONE" /\ board.source = "uid" BY <1>0, UidView
<1>2. UidBytes \in Nat \ {0} /\ DummyBytes \in Nat /\ UidTotal = UidBytes + DummyBytes
  BY BootAssumption DEF UidTotal
<1>3. consumed = UidTotal BY <1>1, UidForwarded
<1>4. Encoded = UidBytes BY <1>2, <1>3 DEF Encoded
<1>5. UidText /\ serial \in Seq(Nat) BY DEF SerialInv
<1>6. Len(serial) = 2 * UidBytes /\ \A j \in 1 .. Len(serial) : serial[j] = Digit(j)
  BY <1>1, <1>2, <1>4, <1>5 DEF UidText
<1>7. SerialOfFlash = [n \in 1 .. 2 * UidBytes |-> Digit(n)]
  BY <1>1 DEF SerialOfFlash, Digit
<1> DEFINE n == 2 * UidBytes
<1>8. n \in Nat BY <1>2
<1> HIDE DEF n
<1>9. serial \in [1 .. n -> Nat] BY <1>5, <1>6, <1>8 DEF n
<1>10. serial = [k \in 1 .. n |-> Digit(k)]
  <2>1. \A k \in 1 .. n : serial[k] = Digit(k) BY <1>6 DEF n
  <2> QED BY <1>9, <2>1
<1> QED BY <1>7, <1>10 DEF n

LEMMA TextInit ==
  Init => SerialInv
<1> SUFFICES ASSUME Init PROVE SerialInv
  OBVIOUS
<1>1. /\ serial = <<>> /\ nibble = "HIGH" /\ parser = "SEARCH" /\ match_pos = 0 /\ sel = 1
      /\ page = "PROLOGUE" /\ uid \in Uids
  BY DEF Init, SerialInit, ClientInit
<1>2. TopTypes BY BootInit DEF BootInv, ClientInv
<1>3. ~FromUid /\ ~FromPage BY <1>1, <1>2, UidView, PageView
<1>4. serial \in Seq(Nat) BY <1>1
<1>5. Len(uid) = UidBytes BY <1>1, SerialAssumption
<1> QED BY <1>1, <1>3, <1>4, <1>5 DEF SerialInv

\* The serial number that is meant.
LEMMA MeantStays ==
  ASSUME UNCHANGED given
  PROVE  SerialOfFlash' = SerialOfFlash
<1>1. secpage' = secpage /\ uid' = uid /\ board' = board BY SameBoard
<1>2. KeyEnds' = KeyEnds /\ Opens' = Opens /\ Closes' = Closes BY <1>1, SamePage
<1>3. SerialOfPage =
        IF KeyEnds = {} THEN <<>>
        ELSE [n \in 1 .. (Closes - Opens) - 1 |-> At(secpage, Opens + n)]
  BY DEF SerialOfPage, Closes, Opens, Colon, KeyEnd
<1>4. SerialOfPage' =
        IF KeyEnds' = {} THEN <<>>
        ELSE [n \in 1 .. (Closes' - Opens') - 1 |-> At(secpage', Opens' + n)]
  BY DEF SerialOfPage, Closes, Opens, Colon, KeyEnd
<1>5. SerialOfPage' = SerialOfPage BY <1>1, <1>2, <1>3, <1>4
<1> QED BY <1>1, <1>5 DEF SerialOfFlash, Upto

\* The serial number's reader begins.
LEMMA TextBegins ==
  ASSUME nibble' = "HIGH", parser' = "SEARCH", match_pos' = 0, serial' = <<>>, consumed' = 0,
         page' \notin {"RELEASE", "DONE"}
  PROVE  UidText' /\ PageText'
<1>1. Len(serial') = 0 /\ serial' \in Seq(Nat) /\ 1 .. 0 = {} OBVIOUS
<1>2. DummyBytes \in Nat /\ PageLen \in Nat BY BootAssumption
<1>3. Encoded' = 0 BY <1>2 DEF Encoded
<1>4. UidText' BY <1>1, <1>3 DEF UidText
<1> DEFINE L == Len(Key)
<1>5. L \in Nat /\ L > 1 BY TextAssumption
<1>6. /\ Ends(match_pos, consumed)'
      /\ \A p \in 1 .. L - 1 : Ends(p, consumed)' => p <= match_pos'
  BY <1>1, <1>5 DEF Ends
<1>7. \A k \in KeyEnds' : 0 < k
  <2>1. \A k \in KeyEnds' : k \in L .. PageLen BY DEF KeyEnds
  <2> HIDE DEF L
  <2> QED BY <1>5, <2>1
<1>8. match_pos' \in 0 .. L - 1 BY <1>5
<1>9. Scanned' BY <1>1, <1>6, <1>7, <1>8 DEF Scanned
<1> QED BY <1>2, <1>4, <1>9 DEF PageText

LEMMA SerialStep ==
  ASSUME BootInv, SerialInv, Tick
  PROVE  /\ SerialInv'
         /\ sel > 2 => sel' > 2 /\ serial' = serial /\ SerialOfFlash' = SerialOfFlash
<1>0. ClientInv /\ TopTypes BY DEF BootInv, ClientInv
<1>1. UNCHANGED given /\ board' = board /\ uid' = uid BY SameBoard DEF Tick
<1>2. /\ sel \in {1, 2, 3, 4, 5} /\ sel' = (IF ClientDone THEN sel + 1 ELSE sel)
      /\ client = "serial" => sel = 2
      /\ client' = "serial" => sel' = 2
      /\ ClientDone => client # "none" /\ consumed' = 0
      /\ FromUid' => (FromUid /\ ~ClientDone) \/ sel = 1
      /\ FromPage' => (FromPage /\ ~ClientDone) \/ sel = 1
  BY <1>0, ClientMoves
<1>3. /\ serial \in Seq(Nat)
      /\ board.source = "uid" => Len(uid) = UidBytes
      /\ sel = 1 => /\ nibble = "HIGH" /\ parser = "SEARCH" /\ match_pos = 0 /\ serial = <<>>
                    /\ page \notin {"RELEASE", "DONE"}
      /\ FromUid => UidText
      /\ FromPage => PageText
      /\ sel > 2 => serial = SerialOfFlash
  BY DEF SerialInv
<1>4. CASE FromUid /\ ~ClientDone
  <2>1. sel = 2 /\ ~FromPage BY <1>0, <1>4, UidView
  <2>2. UidText' /\ serial' \in Seq(Nat) BY <1>4, UidTextStep
  <2>3. sel' = 2 /\ ~FromPage' BY <1>2, <1>4, <2>1
  <2> QED BY <1>1, <1>3, <2>1, <2>2, <2>3 DEF SerialInv
<1>5. CASE FromPage /\ ~ClientDone
  <2>1. sel = 2 /\ ~FromUid BY <1>0, <1>5, PageView
  <2>2. PageText' BY <1>5, PageTextStep
  <2>3. sel' = 2 /\ ~FromUid' BY <1>2, <1>5, <2>1
  <2>4. serial' \in Seq(Nat) BY <2>2 DEF PageText, Scanned
  <2> QED BY <1>1, <1>3, <2>1, <2>2, <2>3, <2>4 DEF SerialInv
<1>6. CASE (FromUid \/ FromPage) /\ ClientDone
  <2>1. sel = 2 /\ sel' = 3 /\ ~FromUid' /\ ~FromPage' BY <1>0, <1>2, <1>6, UidView, PageView
  <2>2. UNCHANGED text_vars /\ serial = SerialOfFlash
    <3>1. CASE FromUid
      <4>1. uid_r = "DONE" /\ ~FromPage BY <1>0, <1>6, <3>1, UidView
      <4>2. UNCHANGED text_vars BY <4>1 DEF Tick, ClientStep, UidForwards
      <4> QED BY <1>6, <3>1, <4>2, UidRead
    <3>2. CASE FromPage
      <4>1. page = "DONE" /\ ~FromUid /\ board.source = "page" BY <1>0, <1>6, <3>2, PageView
      <4>2. ~octet_valid /\ (page_left = PageLen => consumed = PageLen) BY <3>2, <4>1, PageTaken
      <4>3. UNCHANGED text_vars BY <4>1, <4>2 DEF Tick, ClientStep, taken
      <4>4. Scanned /\ consumed <= PageLen /\ (page_left = PageLen \/ ParserDone)
        BY <1>3, <3>2, <4>1 DEF PageText
      <4>5. serial = SerialOfFlash BY <1>0, <4>1, <4>2, <4>4, PageRead DEF TopTypes
      <4> QED BY <4>3, <4>5
    <3> QED BY <1>6, <3>1, <3>2
  <2>3. serial' = serial BY <2>2 DEF text_vars
  <2>4. SerialOfFlash' = SerialOfFlash BY <1>1, MeantStays
  <2> QED BY <1>1, <1>3, <2>1, <2>2, <2>3, <2>4 DEF SerialInv
<1>7. CASE ~FromUid /\ ~FromPage
  <2>1. UNCHANGED text_vars /\ UNCHANGED page_vars BY <1>7 DEF Tick, ClientStep
  <2>2. /\ nibble' = nibble /\ parser' = parser /\ match_pos' = match_pos /\ serial' = serial
        /\ page' = page
    BY <2>1 DEF text_vars, page_vars
  <2>3. SerialOfFlash' = SerialOfFlash BY <1>1, MeantStays
  <2>4. (FromUid' => sel' = 2) /\ (FromPage' => sel' = 2)
    BY <1>2 DEF FromUid, FromPage
  <2>5. CASE sel = 1
    <3>1. CASE ~ClientDone
      <4>1. sel' = 1 /\ ~FromUid' /\ ~FromPage' BY <1>2, <2>4, <2>5, <3>1
      <4> QED BY <1>1, <1>3, <2>2, <2>5, <4>1 DEF SerialInv
    <3>2. CASE ClientDone
      <4>1. sel' = 2 /\ consumed' = 0 BY <1>2, <2>5, <3>2
      <4>2. UidText' /\ PageText' BY <1>3, <2>2, <2>5, <4>1, TextBegins
      <4> QED BY <1>1, <1>3, <2>2, <2>5, <4>1, <4>2 DEF SerialInv
    <3> QED BY <3>1, <3>2
  <2>6. CASE sel = 2
    <3>1. client \in {"serial", "none"} BY <1>0, <2>6, ClientAt DEF Places
    <3>2. client # "serial" BY <1>0, <1>7, BoardType DEF TopTypes, FromUid, FromPage
    <3>3. sel' = 2 /\ ~FromUid' /\ ~FromPage' BY <1>2, <1>7, <2>6, <3>1, <3>2
    <3> QED BY <1>1, <1>3, <2>2, <2>6, <3>3 DEF SerialInv
  <2>7. CASE sel > 2
    <3>1. sel' > 2 /\ ~FromUid' /\ ~FromPage' BY <1>2, <1>7, <2>7
    <3> QED BY <1>1, <1>3, <2>2, <2>3, <2>7, <3>1 DEF SerialInv
  <2> QED BY <1>2, <2>5, <2>6, <2>7
<1> QED BY <1>4, <1>5, <1>6, <1>7

\* The host's requests are none of the reader's business.
LEMMA SerialHolds ==
  ASSUME SerialInv, UNCHANGED Board
  PROVE  SerialInv' /\ sel' = sel /\ serial' = serial /\ SerialOfFlash' = SerialOfFlash
<1>1. /\ UNCHANGED given /\ state' = state /\ sel' = sel /\ consumed' = consumed
      /\ uid_r' = uid_r /\ page' = page /\ page_left' = page_left
      /\ nibble' = nibble /\ parser' = parser /\ match_pos' = match_pos /\ serial' = serial
  BY DEF Board, top_vars, client_vars, uid_vars, page_vars, text_vars
<1>2. board' = board /\ uid' = uid /\ secpage' = secpage /\ Clients' = Clients BY <1>1, SameBoard
<1>3. (FromUid' <=> FromUid) /\ (FromPage' <=> FromPage)
  BY <1>1, <1>2 DEF FromUid, FromPage, client
<1>4. SerialOfFlash' = SerialOfFlash BY <1>1, MeantStays
<1>5. UidText' <=> UidText BY <1>1, <1>2 DEF UidText, Encoded, Digit
<1>6. PageText => PageText' BY <1>1, <1>2, ScannedStays DEF PageText, ParserDone
<1> QED BY <1>1, <1>2, <1>3, <1>4, <1>5, <1>6 DEF SerialInv

\* The descriptor of a text.
LEMMA DescriptorIs ==
  ASSUME NEW s \in Seq(Nat)
  PROVE  /\ DescriptorOf(s) \in Seq(Nat) /\ Len(DescriptorOf(s)) = 2 + 2 * Len(s)
<1> DEFINE n == 2 + 2 * Len(s)
           d == DescriptorOf(s)
<1>1. n \in Nat OBVIOUS
<1>2. ASSUME NEW k \in 1 .. n
      PROVE  (CASE k = 1 -> n [] k = 2 -> 3
               [] OTHER -> IF k % 2 = 1 THEN s[(k - 1) \div 2] ELSE 0) \in Nat
  <2>1. CASE k > 2 /\ k % 2 = 1
    <3>1. (k - 1) \div 2 \in 1 .. Len(s) BY <2>1
    <3> QED BY <2>1, <3>1
  <2>2. CASE k > 2 /\ k % 2 # 1 BY <2>2
  <2>3. CASE k \in {1, 2} BY <2>3
  <2> QED BY <2>1, <2>2, <2>3
<1>3. d \in [1 .. n -> Nat] BY <1>2 DEF DescriptorOf
<1> HIDE DEF d, n
<1>4. d \in Seq(Nat) /\ Len(d) = n BY <1>1, <1>3
<1> QED BY <1>4 DEF d, n

\* What the host is to get: how many octets, and that they are some.
LEMMA DueIs ==
  ASSUME NEW s \in Seq(Nat), NEW w \in Nat
  PROVE  LET whole == DescriptorOf(s)
             due   == IF w < Len(whole) THEN w ELSE Len(whole)
         IN /\ whole \in Seq(Nat) /\ Len(whole) \in Nat /\ Len(whole) >= 2
            /\ due \in Nat /\ due <= w /\ due <= Len(whole)
            /\ due = w \/ due = Len(whole)
            /\ w > 0 => due > 0
<1> DEFINE D   == Len(DescriptorOf(s))
           due == IF w < D THEN w ELSE D
<1>1. DescriptorOf(s) \in Seq(Nat) /\ D = 2 + 2 * Len(s) BY DescriptorIs
<1>2. D \in Nat /\ D >= 2
  <2> HIDE DEF D
  <2> QED BY <1>1
<1> HIDE DEF D
<1>3. due \in Nat /\ due <= w /\ due <= D /\ (due = w \/ due = D) /\ (w > 0 => due > 0)
  BY <1>2
<1> QED BY <1>1, <1>2, <1>3 DEF D

\* A packet joins what the host has.
LEMMA PacketJoins ==
  ASSUME NEW got \in Seq(Nat), NEW sent \in Seq(Nat), NEW whole \in Seq(Nat),
         \A k \in 1 .. Len(got) : got[k] = whole[k],
         \A k \in 1 .. Len(sent) : sent[k] = whole[Len(got) + k]
  PROVE  /\ got \o sent \in Seq(Nat) /\ Len(got \o sent) = Len(got) + Len(sent)
         /\ \A k \in 1 .. Len(got \o sent) : (got \o sent)[k] = whole[k]
<1> DEFINE g == Len(got)
           s == Len(sent)
           j == got \o sent
<1>1. /\ j \in Seq(Nat) /\ Len(j) = g + s
      /\ \A k \in 1 .. g : j[k] = got[k]
      /\ \A k \in 1 .. s : j[g + k] = sent[k]
  BY Joined
<1>2. g \in Nat /\ s \in Nat OBVIOUS
<1> HIDE DEF j
<1>3. ASSUME NEW k \in 1 .. g + s PROVE j[k] = whole[k]
  <2>1. CASE k \in 1 .. g BY <1>1, <2>1
  <2>2. CASE k > g
    <3>1. k - g \in 1 .. s /\ g + (k - g) = k BY <1>2, <2>2
    <3>2. j[k] = sent[k - g] BY <1>1, <3>1
    <3>3. sent[k - g] = whole[g + (k - g)] BY <3>1
    <3> QED BY <3>1, <3>2, <3>3
  <2> QED BY <1>2, <2>1, <2>2
<1> QED BY <1>1, <1>3 DEF j

LEMMA AskStep ==
  ASSUME BootInv, SerialInv, DescriptorInv, HostAsks
  PROVE  DescriptorInv'
<1>0. TopTypes BY DEF BootInv, ClientInv
<1>1. UNCHANGED Board /\ received' = received /\ state = "USB-CONNECT" /\ w_length = 0 BY DEF HostAsks
<1>2. SerialInv' /\ sel' = sel /\ serial' = serial BY <1>1, SerialHolds
<1>3. PICK n \in WLengths : GetDescriptor(n) BY DEF HostAsks
<1>4. n \in Nat \ {0} BY SerialAssumption
<1>5. w_length' = n /\ pos' = 0 /\ handler' = "CLAIM" BY <1>3 DEF GetDescriptor
<1>6. received' = <<>> /\ received' \in Seq(Nat) BY <1>1 DEF DescriptorInv
<1>7. sel' > 2
  <2>1. sel = Len(Clients) + 1 /\ Len(Clients) \in {2, 3, 4} BY <1>0, <1>1, ClientAt DEF TopTypes, Places
  <2> QED BY <1>2, <2>1
<1>8. serial' \in Seq(Nat) /\ w_length' \in Nat /\ w_length' > 0 BY <1>2, <1>4, <1>5 DEF SerialInv
<1> DEFINE D == Len(DescriptorOf(serial'))
           due == IF w_length' < D THEN w_length' ELSE D
<1>9. due \in Nat /\ due > 0 BY <1>8, DueIs
<1>10. Len(received') = 0 /\ 0 % PacketSize = 0 /\ 1 .. 0 = {}
  <2>1. PacketSize \in Nat \ {0} BY TextAssumption
  <2> QED BY <1>6, <2>1
<1> HIDE DEF D
<1> QED BY <1>5, <1>6, <1>7, <1>8, <1>9, <1>10 DEF DescriptorInv, D

\* A packet more that is full.
LEMMA FullPacket ==
  ASSUME NEW x \in Nat, NEW n \in Nat \ {0}, x % n = 0
  PROVE  (x + n) % n = 0
<1> DEFINE k == x \div n
<1>1. x = n * k + (x % n) /\ k \in Nat OBVIOUS
<1> HIDE DEF k
<1>2. n * (k + 1) = n * k + n BY <1>1
<1>3. x + n = n * (k + 1) /\ k + 1 \in Nat /\ x + n \in Nat BY <1>1, <1>2
<1>4. ASSUME NEW y \in Nat, NEW l \in Nat, y = n * l PROVE y % n = 0 BY <1>4, Z3
<1> QED BY <1>3, <1>4

LEMMA ReadStep ==
  ASSUME SerialInv, ShortEnd, DescriptorInv, HostReads
  PROVE  DescriptorInv'
<1> DEFINE whole == DescriptorOf(serial)
           D     == Len(whole)
           w     == w_length
           due   == IF w < D THEN w ELSE D
           r     == Len(received)
           q     == Len(received')
           S     == PacketSize
<1>1. UNCHANGED Board BY DEF HostReads
<1>2. serial' = serial /\ sel' = sel BY <1>1, SerialHolds
<1>3. w_length' = w BY DEF HostReads, InToken, SendOctet, StatusStage
<1>4. handler \in {"CLAIM", "STREAM"} BY DEF HostReads, InToken, SendOctet, StatusStage
<1>5. /\ w \in Nat /\ w > 0 /\ sel > 2 /\ received \in Seq(Nat)
      /\ r <= due /\ \A k \in 1 .. r : received[k] = whole[k]
      /\ handler = "CLAIM" => r = due \/ (r = pos /\ pos < due /\ r % S = 0)
      /\ handler = "STREAM" =>
           /\ packet \in Seq(Nat) /\ Len(packet) = in_packet
           /\ in_packet < S /\ r % S = 0
           /\ pos = r + in_packet /\ pos < due
           /\ \A k \in 1 .. in_packet : packet[k] = whole[r + k]
  <2>1. w \in Nat /\ (w = 0 => handler = "IDLE") BY DEF DescriptorInv
  <2>2. w > 0 BY <1>4, <2>1
  <2> QED BY <2>1, <2>2 DEF DescriptorInv
<1>6. serial = SerialOfFlash /\ serial \in Seq(Nat) BY <1>5 DEF SerialInv
<1>7. /\ whole \in Seq(Nat) /\ D \in Nat /\ D = 2 + 2 * Len(serial)
      /\ due \in Nat /\ due <= w /\ due <= D /\ (due = w \/ due = D)
  BY <1>5, <1>6, DueIs, DescriptorIs
<1>8. S \in Nat \ {0} /\ r \in Nat BY <1>5, TextAssumption
<1>9. D % S # 0 BY <1>6 DEF ShortEnd
<1>10. WantsMore <=> r < w /\ r % S = 0 BY DEF WantsMore
<1>11. transfer_last <=> pos = D - 1 \/ pos = w - 1 BY <1>7 DEF transfer_last
<1>12. ASSUME handler' \in {"IDLE", "CLAIM", "STREAM"}, received' \in Seq(Nat),
              q <= due, \A k \in 1 .. q : received'[k] = whole[k],
              handler' = "IDLE" => q = due,
              handler' = "CLAIM" => q = due \/ (q = pos' /\ pos' < due /\ q % S = 0),
              handler' = "STREAM" =>
                /\ packet' \in Seq(Nat) /\ Len(packet') = in_packet'
                /\ in_packet' < S /\ q % S = 0
                /\ pos' = q + in_packet' /\ pos' < due
                /\ \A k \in 1 .. in_packet' : packet'[k] = whole[q + k]
       PROVE  DescriptorInv'
  <2>1. w_length' \in Nat /\ ~(w_length' = 0) /\ sel' > 2 BY <1>2, <1>3, <1>5
  <2> QED BY <1>2, <1>3, <1>12, <2>1 DEF DescriptorInv
<1>13. CASE WantsMore /\ InToken /\ UNCHANGED received
  <2>1. /\ handler = "CLAIM" /\ in_packet' = 0 /\ packet' = <<>> /\ handler' = "STREAM"
        /\ pos' = pos /\ received' = received
    BY <1>13 DEF InToken
  <2>2. r < w /\ r % S = 0 BY <1>10, <1>13
  <2> HIDE DEF w, due, r, D, S
  <2>3. r # due BY <1>5, <1>7, <1>9, <2>2
  <2>4. r = pos /\ pos < due BY <1>5, <2>1, <2>3
  <2>5. /\ packet' \in Seq(Nat) /\ Len(packet') = in_packet' /\ in_packet' < S
        /\ pos' = r + in_packet' /\ 1 .. in_packet' = {}
    BY <1>8, <2>1, <2>4
  <2> USE DEF r
  <2> HIDE DEF whole
  <2> QED BY <1>5, <1>12, <2>1, <2>2, <2>4, <2>5
<1>14. CASE SendOctet /\ received' = IF handler' = "CLAIM" THEN received \o packet' ELSE received
  <2> DEFINE i == in_packet
  <2>1. /\ packet \in Seq(Nat) /\ Len(packet) = i /\ i < S /\ r % S = 0
        /\ pos = r + i /\ pos < due
        /\ \A k \in 1 .. i : packet[k] = whole[r + k]
    BY <1>5, <1>14 DEF SendOctet
  <2>2. i \in Nat BY <2>1
  <2>3. packet' = Append(packet, whole[pos + 1]) BY <1>14 DEF SendOctet
  <2> HIDE DEF i, w, due, r, D, S, whole
  <2>4. pos \in Nat /\ pos + 1 \in 1 .. D BY <1>7, <1>8, <2>1, <2>2
  <2>5. whole[pos + 1] \in Nat BY <1>7, <2>4 DEF D
  <2>6. /\ packet' \in Seq(Nat) /\ Len(packet') = i + 1 /\ packet'[i + 1] = whole[pos + 1]
        /\ \A k \in 1 .. i : packet'[k] = packet[k]
    BY <2>1, <2>2, <2>3, <2>5
  <2>7. ASSUME NEW k \in 1 .. i + 1 PROVE packet'[k] = whole[r + k]
    <3>1. k = i + 1 \/ k \in 1 .. i BY <2>2
    <3>2. r + (i + 1) = pos + 1 BY <1>8, <2>1, <2>2
    <3> QED BY <2>1, <2>6, <3>1, <3>2
  <2> DEFINE j == received \o packet'
  <2>8. /\ j \in Seq(Nat) /\ Len(j) = r + (i + 1) /\ \A k \in 1 .. Len(j) : j[k] = whole[k]
    <3>1. \A k \in 1 .. Len(packet') : packet'[k] = whole[Len(received) + k] BY <2>6, <2>7 DEF r
    <3>2. \A k \in 1 .. Len(received) : received[k] = whole[k] BY <1>5 DEF r
    <3>3. /\ j \in Seq(Nat) /\ Len(j) = Len(received) + Len(packet')
          /\ \A k \in 1 .. Len(j) : j[k] = whole[k]
      BY <1>5, <1>7, <2>6, <3>1, <3>2, PacketJoins
    <3> QED BY <2>6, <3>3 DEF r
  <2> HIDE DEF j
  <2>12. ~transfer_last => pos + 1 < due
    <3>1. pos \in Nat /\ pos < due BY <2>1, <2>4
    <3>2. w \in Nat /\ D \in Nat /\ due \in Nat /\ (due = w \/ due = D) BY <1>5, <1>7
    <3>3. ~transfer_last => pos # D - 1 /\ pos # w - 1 BY <1>11
    <3> QED BY <3>1, <3>2, <3>3
  <2>9. CASE transfer_last
    <3>1. handler' = "CLAIM" /\ received' = j BY <1>14, <2>9 DEF SendOctet, j
    <3>2. pos + 1 = due BY <1>5, <1>7, <1>11, <2>1, <2>4, <2>9
    <3>3. q = due BY <1>8, <2>1, <2>2, <2>8, <3>1, <3>2
    <3>4. due <= due BY <1>7
    <3> QED BY <1>12, <2>8, <3>1, <3>3, <3>4
  <2>10. CASE ~transfer_last /\ i = S - 1
    <3>1. handler' = "CLAIM" /\ received' = j /\ pos' = pos + 1
      BY <1>14, <2>10 DEF SendOctet, j, i, S, NextPos
    <3>2. pos + 1 < due BY <2>10, <2>12
    <3>3. q = pos + 1 /\ q = r + S BY <1>8, <2>1, <2>2, <2>8, <2>10, <3>1
    <3>4. (r + S) % S = 0 BY <1>8, <2>1, FullPacket
    <3>5. q <= due BY <1>7, <2>4, <3>2, <3>3
    <3> QED BY <1>12, <2>8, <3>1, <3>2, <3>3, <3>4, <3>5
  <2>11. CASE ~transfer_last /\ i # S - 1
    <3>1. handler' = "STREAM" /\ received' = received /\ pos' = pos + 1 /\ in_packet' = i + 1
      BY <1>14, <2>11 DEF SendOctet, i, S, NextPos
    <3>2. pos + 1 < due BY <2>11, <2>12
    <3>3. pos' = r + in_packet' /\ in_packet' < S BY <1>8, <2>1, <2>2, <2>11, <3>1
    <3> QED BY <1>5, <1>12, <2>1, <2>6, <2>7, <3>1, <3>2, <3>3 DEF r
  <2> QED BY <2>9, <2>10, <2>11
<1>15. CASE ~WantsMore /\ StatusStage /\ UNCHANGED received
  <2>1. handler = "CLAIM" /\ handler' = "IDLE" /\ received' = received BY <1>15 DEF StatusStage
  <2> HIDE DEF w, due, r, D, S, whole
  <2>2. r = due BY <1>5, <1>7, <1>8, <1>10, <1>15, <2>1
  <2> QED BY <1>5, <1>12, <2>1, <2>2 DEF r
<1> QED BY <1>13, <1>14, <1>15 DEF HostReads

\* The boot is over by the time the host asks.
LEMMA DescriptorHolds ==
  ASSUME DescriptorInv, UNCHANGED desc_vars, UNCHANGED received,
         sel > 2 => sel' > 2 /\ serial' = serial
  PROVE  DescriptorInv'
<1>1. /\ handler' = handler /\ pos' = pos /\ in_packet' = in_packet /\ w_length' = w_length
      /\ packet' = packet /\ received' = received
  BY DEF desc_vars
<1>2. CASE w_length = 0 BY <1>1, <1>2 DEF DescriptorInv
<1>3. CASE w_length # 0
  <2>1. w_length > 0 BY <1>3 DEF DescriptorInv
  <2>2. sel > 2 BY <2>1 DEF DescriptorInv
  <2>3. sel' > 2 /\ DescriptorOf(serial)' = DescriptorOf(serial) BY <2>2 DEF DescriptorOf
  <2> QED BY <1>1, <2>3 DEF DescriptorInv
<1> QED BY <1>2, <1>3

LEMMA DescriptorInit ==
  Init => DescriptorInv
<1> SUFFICES ASSUME Init PROVE DescriptorInv
  OBVIOUS
<1>1. handler = "IDLE" /\ w_length = 0 /\ received = <<>> BY DEF Init, SerialInit
<1>2. received \in Seq(Nat) /\ w_length \in Nat /\ ~(w_length > 0) BY <1>1
<1> QED BY <1>1, <1>2 DEF DescriptorInv

LEMMA MeantTyped ==
  ASSUME TopTypes, SerialInv
  PROVE  SerialOfFlash \in Seq(Nat)
<1>1. secpage \in Seq(Nat) /\ uid \in Seq(Nat) /\ board.source \in {"uid", "page"}
  BY BoardType DEF TopTypes
<1>2. CASE board.source = "page"
  <2>1. SerialOfPage \in Seq(Nat)
    <3>1. CASE KeyEnds = {} BY <3>1 DEF SerialOfPage
    <3>2. CASE KeyEnds # {}
      <4> DEFINE t == [n \in 1 .. (Closes - Opens) - 1 |-> At(secpage, Opens + n)]
      <4>1. SerialOfPage = t BY <3>2 DEF SerialOfPage, Closes, Opens, Colon, KeyEnd
      <4>2. Opens \in Nat /\ (Closes - Opens) - 1 \in Int BY <3>2, InOrder
      <4>3. t \in Seq(Nat) BY <1>1, <4>2, ValueOfPage
      <4> QED BY <4>1, <4>3
    <3> QED BY <3>1, <3>2
  <2>2. Upto(MaxLen, SerialOfPage) \in Seq(Nat) BY <2>1, UptoOf, TextAssumption
  <2> QED BY <1>2, <2>2 DEF SerialOfFlash
<1>3. CASE board.source = "uid"
  <2> DEFINE n == UidBytes
  <2>1. Len(uid) = n /\ n \in Nat BY <1>3, BootAssumption DEF SerialInv
  <2> HIDE DEF n
  <2>2. ASSUME NEW k \in 1 .. 2 * n PROVE Digit(k) \in Nat
    <3>1. CASE k % 2 = 1
      <4>1. (k + 1) \div 2 \in 1 .. n BY <2>1, <3>1
      <4>2. uid[(k + 1) \div 2] \in Nat BY <1>1, <2>1, <4>1
      <4> QED BY <3>1, <4>2 DEF Digit
    <3>2. CASE k % 2 # 1
      <4>1. k \div 2 \in 1 .. n BY <2>1, <3>2
      <4>2. uid[k \div 2] \in Nat BY <1>1, <2>1, <4>1
      <4> QED BY <3>2, <4>2 DEF Digit
    <3> QED BY <3>1, <3>2
  <2>3. SerialOfFlash = [k \in 1 .. 2 * n |-> Digit(k)] BY <1>3 DEF SerialOfFlash, Digit, n
  <2>4. 2 * n \in Nat BY <2>1
  <2> QED BY <2>2, <2>3, <2>4
<1> QED BY <1>1, <1>2, <1>3

\* What the host has is what is due, as the memory is the serial number.
LEMMA DescriptorMeant ==
  ASSUME TopTypes, SerialInv, DescriptorInv
  PROVE  DescriptorOfFlash
<1> DEFINE whole == DescriptorOf(SerialOfFlash)
           due   == Upto(w_length, whole)
<1>1. w_length \in Nat /\ received \in Seq(Nat) BY DEF DescriptorInv
<1>2. whole \in Seq(Nat) BY MeantTyped, DescriptorIs
<1>3. /\ due \in Seq(Nat) /\ Len(due) = IF w_length < Len(whole) THEN w_length ELSE Len(whole)
      /\ \A k \in 1 .. Len(due) : due[k] = whole[k]
  BY <1>1, <1>2, UptoOf
<1> DEFINE r == Len(received)
           l == Len(due)
<1>4. CASE w_length = 0
  <2>1. received = <<>> BY <1>4 DEF DescriptorInv
  <2>2. IsPrefix(received, due)
    <3> HIDE DEF due
    <3>1. r = 0 /\ l \in Nat /\ 1 .. 0 = {} BY <1>3, <2>1
    <3>2. r <= l /\ \A k \in 1 .. r : received[k] = due[k] BY <3>1
    <3> QED BY <1>1, <1>3, <3>2, Begins
  <2> QED BY <1>4, <2>2 DEF DescriptorOfFlash
<1>5. CASE w_length # 0
  <2>1. w_length > 0 BY <1>1, <1>5
  <2>2. sel > 2 BY <2>1 DEF DescriptorInv
  <2>3. serial = SerialOfFlash BY <2>2 DEF SerialInv
  <2>4. /\ r <= l /\ \A k \in 1 .. r : received[k] = whole[k]
        /\ handler = "IDLE" => r = l
    <3>1. l = IF w_length < Len(DescriptorOf(serial)) THEN w_length ELSE Len(DescriptorOf(serial))
      BY <1>3, <2>3
    <3>2. whole = DescriptorOf(serial) BY <2>3
    <3> HIDE DEF whole, l
    <3> QED BY <2>1, <3>1, <3>2 DEF DescriptorInv
  <2> HIDE DEF due, whole
  <2>5. \A k \in 1 .. r : received[k] = due[k]
    <3>1. r \in Nat /\ l \in Nat BY <1>1, <1>3
    <3>2. 1 .. r \subseteq 1 .. l BY <2>4, <3>1
    <3> QED BY <1>3, <2>4, <3>2
  <2>6. IsPrefix(received, due) BY <1>1, <1>3, <2>4, <2>5, Begins
  <2> QED BY <2>4, <2>6 DEF DescriptorOfFlash, due, whole
<1> QED BY <1>4, <1>5

(* The descriptor a host reads is the serial number in the flash, as much of it
   as the host asked for, over however many packets that takes, unless the
   descriptor fills its last packet. *)
THEOREM DescriptorRead == Spec => [](ShortEnd => DescriptorOfFlash)
<1>1. Init => SerialInv /\ DescriptorInv BY TextInit, DescriptorInit
<1>2. BootInv /\ SerialInv /\ [Next]_vars => SerialInv' /\ (ShortEnd' <=> ShortEnd)
  <2> SUFFICES ASSUME BootInv, SerialInv, [Next]_vars
               PROVE  SerialInv' /\ (ShortEnd' <=> ShortEnd)
    OBVIOUS
  <2>1. SerialInv' /\ UNCHANGED given
    <3>1. CASE Tick BY <3>1, SerialStep DEF Tick
    <3>2. CASE HostAsks BY <3>2, SerialHolds DEF HostAsks, Board
    <3>3. CASE HostReads BY <3>3, SerialHolds DEF HostReads, Board
    <3>4. CASE UNCHANGED vars BY <3>4, SerialHolds DEF vars, Board
    <3> QED BY <3>1, <3>2, <3>3, <3>4 DEF Next
  <2>2. SerialOfFlash' = SerialOfFlash BY <2>1, MeantStays
  <2> QED BY <2>1, <2>2 DEF ShortEnd, DescriptorOf
<1>3. BootInv /\ SerialInv /\ ShortEnd /\ DescriptorInv /\ [Next]_vars => DescriptorInv'
  <2> SUFFICES ASSUME BootInv, SerialInv, ShortEnd, DescriptorInv, [Next]_vars
               PROVE  DescriptorInv'
    OBVIOUS
  <2>1. CASE Tick BY <2>1, SerialStep, DescriptorHolds DEF Tick
  <2>2. CASE HostAsks BY <2>2, AskStep
  <2>3. CASE HostReads BY <2>3, ReadStep
  <2>4. CASE UNCHANGED vars
    <3>1. UNCHANGED desc_vars /\ UNCHANGED received /\ sel' = sel /\ serial' = serial
      BY <2>4 DEF vars, top_vars, text_vars
    <3> QED BY <3>1, DescriptorHolds
  <2> QED BY <2>1, <2>2, <2>3, <2>4 DEF Next
<1>4. BootInv /\ SerialInv /\ DescriptorInv => DescriptorOfFlash
  BY DescriptorMeant DEF BootInv, ClientInv
<1>5. Spec => [](ShortEnd => DescriptorInv)
  <2> QED BY <1>1, <1>2, <1>3, BootCorrect, PTL DEF Spec
<1>6. Spec => []SerialInv BY <1>1, <1>2, BootCorrect, PTL DEF Spec
<1> QED BY <1>4, <1>5, <1>6, BootCorrect, PTL

-----------------------------------------------------------------------------
(* The reload trigger: what it promises for any thresholds. *)

\* The inductive invariant holds at the first cycle.
LEMMA CountersInit == ReloadInit => CountersInv
<1> SUFFICES ASSUME ReloadInit PROVE CountersInv
  OBVIOUS
<1> USE DEF ReloadInit
<1>1. /\ arm \in BOOLEAN /\ activity \in BOOLEAN /\ reset \in BOOLEAN
      /\ pending \in BOOLEAN /\ holding \in BOOLEAN /\ ~pending /\ ~holding
  OBVIOUS
<1>2. /\ idle_cnt \in 0 .. IdleCycles /\ hold_cnt \in 0 .. PhyResetCycles
      /\ quiet_for \in 0 .. IdleCycles /\ armed_for \in 0 .. IdleCycles + 1
      /\ held_for \in 0 .. PhyResetCycles
      /\ ~(armed_for > 0) /\ idle_cnt <= quiet_for
      /\ idle_cnt = 0 /\ hold_cnt = held_for /\ hold_cnt = 0
  BY CyclesAssumption
<1> QED
  BY <1>1, <1>2 DEF CountersInv, TypeOK

\* Every cycle keeps the counters in step with what they stand for.
LEMMA CountersStep == CountersInv /\ [ReloadNext]_reload_vars => CountersInv'
<1> SUFFICES ASSUME CountersInv, [ReloadNext]_reload_vars PROVE CountersInv'
  OBVIOUS
<1> USE CyclesAssumption DEF CountersInv, TypeOK
<1>1. CASE Advance
  <2> USE <1>1 DEF Advance, Observe, NextInputs, Count
  <2>1. pending' \in BOOLEAN /\ holding' \in BOOLEAN
    BY DEF NextPending, NextHolding, Elapsed
  <2>2. /\ idle_cnt' \in 0 .. IdleCycles
        /\ quiet_for' \in 0 .. IdleCycles
        /\ idle_cnt' <= quiet_for'
    BY DEF NextIdle
  <2>3. hold_cnt' \in 0 .. PhyResetCycles /\ held_for' = hold_cnt'
    BY DEF NextHold, phy_reset
  <2>4. armed_for' \in 0 .. IdleCycles + 1 /\ (pending' <=> armed_for' > 0)
    BY DEF NextPending
  <2>5. /\ pending' => idle_cnt' < armed_for'
        /\ ~pending' => idle_cnt' = 0
    BY DEF NextPending, NextIdle
  <2>6. holding' => armed_for' > IdleCycles
    BY DEF NextHolding, Elapsed
  <2>7. ~holding' => hold_cnt' = 0
    BY DEF NextHolding, NextHold, Elapsed
  <2> QED
    BY <2>1, <2>2, <2>3, <2>4, <2>5, <2>6, <2>7
<1>2. CASE Cancel
  <2> USE <1>2 DEF Cancel, Observe, NextInputs, Count
  <2>1. /\ arm' \in BOOLEAN /\ activity' \in BOOLEAN /\ reset' \in BOOLEAN
        /\ pending' \in BOOLEAN /\ holding' \in BOOLEAN /\ ~pending' /\ ~holding'
    OBVIOUS
  <2>2. /\ idle_cnt' = 0 /\ hold_cnt' = 0 /\ armed_for' = 0 /\ held_for' = 0
        /\ quiet_for' \in 0 .. IdleCycles
    OBVIOUS
  <2> QED
    BY <2>1, <2>2
<1>3. CASE UNCHANGED reload_vars
  BY <1>3 DEF reload_vars, inputs, registers
<1> QED
  BY <1>1, <1>2, <1>3 DEF ReloadNext

\* The counters stand for what their names say, for all thresholds.
THEOREM CountersCorrect == ReloadSpec => []CountersInv
BY CountersInit, CountersStep, PTL DEF ReloadSpec

\* Variables keep their types and counters stop at their thresholds.
THEOREM TypeCorrect == ReloadSpec => []TypeOK
<1>1. CountersInv => TypeOK
  BY DEF CountersInv
<1> QED
  BY <1>1, CountersCorrect, PTL

\* The iCE40 trigger fires only after a whole idle window since the arm.
THEOREM WarmbootWaits == ReloadSpec => []FiresAfterQuiet
<1>1. CountersInv => FiresAfterQuiet
  BY CyclesAssumption DEF CountersInv, TypeOK, FiresAfterQuiet, WarmbootFire, Elapsed
<1> QED
  BY <1>1, CountersCorrect, PTL

\* PROGRAMN is pulled only after the PHY's reset time, with the arm standing.
THEOREM PullWaits == ReloadSpec => []PhyResetFirst
<1>1. CountersInv => PhyResetFirst
  BY CyclesAssumption DEF CountersInv, TypeOK, PhyResetFirst, OpenDrainFire
<1> QED
  BY <1>1, CountersCorrect, PTL

\* Only a bus reset takes a reload back once its idle window has elapsed.
THEOREM DecisionStands == ReloadSpec => DecisionLatched
<1>1. CountersInv /\ [ReloadNext]_reload_vars =>
        [/\ phy_reset /\ ~reset => phy_reset'
         /\ OpenDrainFire /\ ~reset => OpenDrainFire']_reload_vars
  BY DEF CountersInv, TypeOK, ReloadNext, Advance, Cancel, phy_reset, OpenDrainFire,
         NextHolding, NextHold
<1> QED
  BY <1>1, CountersCorrect, PTL DEF ReloadSpec, DecisionLatched

=============================================================================
