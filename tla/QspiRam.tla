------------------------------- MODULE QspiRam --------------------------------
(***************************************************************************)
(* gateware/blocks/qspi/ram.py and boot/dual_bank.py: the PSRAM writer, the *)
(* bank output it drives and the counter that limits how long it holds     *)
(* chip select. With them what is outside the FPGA: the flip-flop that     *)
(* takes the bank over on every rising edge of chip select, and the PSRAM. *)
(*                                                                         *)
(* A send state's action is the acceptance of its octet, OctetCycles long. *)
(* The states that only send are rows of a table: `Sends` an octet,        *)
(* `Pulses` chip select without one, `Releases` chip select.               *)
(***************************************************************************)
EXTENDS SpiFlash

CONSTANTS
  MaxCsCycles,   \* DualBank's threshold
  OctetCycles,   \* cycles an octet takes on the bus
  TCEM           \* the PSRAM's limit, in the same cycles

ASSUME TcemAssumption ==
  /\ MaxCsCycles \in Nat \ {0} /\ OctetCycles \in Nat \ {0} /\ TCEM \in Nat
  /\ 5 * OctetCycles <= MaxCsCycles            \* the opening of a burst
  /\ MaxCsCycles + 2 * OctetCycles + 1 <= TCEM \* one octet too many and the close

VARIABLES
  ram,                 \* FSM state
  ram_addr, ram_data,  \* addr_latch and data_latch
  cur_addr, ram_count, \* address of the last byte written; addr_count
  target_bank,         \* 1 is the PSRAM
  cnt,                 \* DualBank's cycles with chip select open
  latch,               \* the external flip-flop: where chip select goes
  psram, quad,         \* the PSRAM's array, and whether it is in QPI mode
  ram_frame,           \* the first octets of its open frame, with their mode
  ram_at,              \* where its next data octet goes
  open_for             \* history: cycles the PSRAM has been selected

ram_regs == <<ram_addr, ram_data, cur_addr, ram_count, target_bank>>
ram_chip == <<psram, quad, ram_frame, ram_at>>
ram_vars == <<ram, ram_regs, cnt, latch, ram_chip, open_for>>

EXIT_QPI  == 245
ENTER_QPI == 53
WRITE     == 2

Num(a) == (a.blk * Pages + a.pg) * PageSize + a.off
Cell(n) == [blk |-> n \div (Pages * PageSize), pg |-> (n \div PageSize) % Pages,
            off |-> n % PageSize]
RamSize == Blocks * Pages * PageSize

\* Bug: the PSRAM is left in QPI mode after the last byte.
ReleasesInQpi ==
  [SWAP_RELEASE |-> "QPI_EXIT", QPI_EXIT_RELEASE |-> "QPI_ENTER",
   QPI_RELEASE |-> "WRITE_OPEN", TCEM_CLOSE |-> "TCEM_WAIT",
   REOPEN_CLOSE |-> "WRITE_OPEN", DONE_CLOSE |-> "ARM_FLASH_ASSERT",
   RAM_EXIT_RELEASE |-> "ARM_FLASH_ASSERT", ARM_FLASH_RELEASE |-> "ARM_RAM"]

Releases ==
  [SWAP_RELEASE |-> "QPI_EXIT", QPI_EXIT_RELEASE |-> "QPI_ENTER",
   QPI_RELEASE |-> "WRITE_OPEN", TCEM_CLOSE |-> "TCEM_WAIT",
   REOPEN_CLOSE |-> "WRITE_OPEN", DONE_CLOSE |-> "RAM_EXIT_QPI",
   RAM_EXIT_RELEASE |-> "ARM_FLASH_ASSERT", ARM_FLASH_RELEASE |-> "ARM_RAM"]

Pulses == [SWAP_ASSERT |-> "SWAP_RELEASE", ARM_FLASH_ASSERT |-> "ARM_FLASH_RELEASE"]

Sends ==
  [QPI_EXIT     |-> <<"X4", EXIT_QPI, "QPI_EXIT_RELEASE">>,
   QPI_ENTER    |-> <<"X1", ENTER_QPI, "QPI_RELEASE">>,
   WRITE_OPEN   |-> <<"X4", WRITE, "WRITE_ADDR">>,
   RAM_EXIT_QPI |-> <<"X4", EXIT_QPI, "RAM_EXIT_RELEASE">>]

RamInit ==
  /\ ram = "IDLE"
  /\ ram_addr = Cell(0) /\ ram_data = 0 /\ cur_addr = Cell(0) /\ ram_count = 0
  /\ target_bank = 0 /\ cnt = 0 /\ latch = 0
  /\ psram = [a \in Addr |-> 0]
  /\ quad \in BOOLEAN      \* the PSRAM is not power-cycled with the FPGA
  /\ ram_frame = <<>> /\ ram_at = 0 /\ open_for = 0

-----------------------------------------------------------------------------
(* The PSRAM, and time. *)

\* Bursts write as they go, in QPI mode only; the address counts up by itself.
PsramShift(mode, b) ==
  LET burst == quad /\ mode = "X4" /\ Len(ram_frame) = 4 /\ ram_frame[1] = <<"X4", WRITE>>
      byte(k) == ram_frame[k][2]
  IN IF burst
       THEN /\ psram' = [psram EXCEPT ![Cell(ram_at)] = b]
            /\ ram_at' = (ram_at + 1) % RamSize
            /\ UNCHANGED <<quad, ram_frame>>
       ELSE /\ ram_frame' = IF Len(ram_frame) < 4 THEN Append(ram_frame, <<mode, b>>)
                            ELSE ram_frame
            /\ ram_at' = IF Len(ram_frame) = 3
                           THEN Num([blk |-> byte(2), pg |-> byte(3), off |-> b]) % RamSize
                           ELSE ram_at
            /\ UNCHANGED <<psram, quad>>

\* A mode change takes effect when its frame ends; to a chip in the other mode
\* the octet is no command at all.
PsramRise ==
  /\ quad' = CASE quad /\ ram_frame = <<<<"X4", EXIT_QPI>>>> -> FALSE
               [] ~quad /\ ram_frame = <<<<"X1", ENTER_QPI>>>> -> TRUE
               [] OTHER -> quad
  /\ ram_frame' = <<>>
  /\ UNCHANGED <<psram, ram_at>>

\* Chip select open for n cycles more, or closing. The flip-flop takes the bank
\* over with the rising edge.
Hold(n) ==
  /\ cnt' = IF cnt + n > MaxCsCycles THEN MaxCsCycles ELSE cnt + n
  /\ open_for' = IF latch = 1 THEN open_for + n ELSE 0
  /\ UNCHANGED latch

Rise ==
  /\ cnt' = 0 /\ open_for' = 0
  /\ latch' = target_bank

\* Bug: the budget is looked at when no byte is waiting.
TcemExpiredWhenQuiet(waiting) == cnt = MaxCsCycles /\ ~waiting

tcem_expired(waiting) == cnt = MaxCsCycles

-----------------------------------------------------------------------------
(* The FSM. i is the byte on the port, [valid, addr, data]; done the flush. *)

RamAccept(i) ==
  /\ i.valid
  /\ ram_addr' = i.addr /\ ram_data' = i.data
  /\ UNCHANGED <<ram_chip, cur_addr, ram_count>>

\* Bug: the bus is used at once, with the flip-flop still on the FLASH.
RamIdleNoSwap(i) ==
  /\ ram = "IDLE" /\ RamAccept(i)
  /\ target_bank' = 1
  /\ ram' = "QPI_EXIT"
  /\ UNCHANGED <<cnt, latch, open_for>>

RamIdle(i) ==
  /\ ram = "IDLE" /\ RamAccept(i)
  /\ target_bank' = 1
  /\ ram' = "SWAP_ASSERT"
  /\ UNCHANGED <<cnt, latch, open_for>>

RamPulse ==
  /\ ram \in DOMAIN Pulses
  /\ Hold(OctetCycles)
  /\ target_bank' = IF ram = "ARM_FLASH_ASSERT" THEN 0 ELSE target_bank
  /\ ram' = Pulses[ram]
  /\ UNCHANGED <<ram_chip, ram_addr, ram_data, cur_addr, ram_count>>

RamRelease ==
  /\ ram \in DOMAIN Releases
  /\ Rise
  /\ IF latch = 1 THEN PsramRise ELSE UNCHANGED ram_chip
  /\ ram' = Releases[ram]
  /\ UNCHANGED ram_regs

RamSend ==
  /\ ram \in DOMAIN Sends
  /\ PsramShift(Sends[ram][1], Sends[ram][2])
  /\ Hold(OctetCycles)
  /\ ram_count' = IF ram = "WRITE_OPEN" THEN 0 ELSE ram_count
  /\ ram' = Sends[ram][3]
  /\ UNCHANGED <<ram_addr, ram_data, cur_addr, target_bank>>

RamWriteAddr ==
  /\ ram = "WRITE_ADDR"
  /\ PsramShift("X4", CASE ram_count = 0 -> ram_addr.blk
                        [] ram_count = 1 -> ram_addr.pg
                        [] OTHER -> ram_addr.off)
  /\ Hold(OctetCycles)
  /\ IF ram_count = 2 THEN ram' = "WRITE_DATA" /\ UNCHANGED ram_count
                      ELSE ram_count' = ram_count + 1 /\ UNCHANGED ram
  /\ UNCHANGED <<ram_addr, ram_data, cur_addr, target_bank>>

RamWriteData ==
  /\ ram = "WRITE_DATA"
  /\ PsramShift("X4", ram_data)
  /\ Hold(OctetCycles)
  /\ cur_addr' = ram_addr
  /\ ram' = "WRITE_NEXT"
  /\ UNCHANGED <<ram_addr, ram_data, ram_count, target_bank>>

\* The budget comes before a waiting byte, the byte before the flush. A byte
\* that does not follow the last one needs a burst of its own.
RamNextByte(i) ==
  /\ ram = "WRITE_NEXT" /\ ~tcem_expired(i.valid)
  /\ RamAccept(i)
  /\ ram' = IF Num(i.addr) = Num(cur_addr) + 1 THEN "WRITE_DATA" ELSE "REOPEN_CLOSE"
  /\ Hold(1)
  /\ UNCHANGED target_bank

RamNextElse(i, done) ==
  /\ ram = "WRITE_NEXT"
  /\ \/ tcem_expired(i.valid) /\ ram' = "TCEM_CLOSE"
     \/ ~tcem_expired(i.valid) /\ ~i.valid /\ ram' = IF done THEN "DONE_CLOSE" ELSE ram
  /\ Hold(1)
  /\ UNCHANGED <<ram_chip, ram_regs>>

RamTcemByte(i) ==
  /\ ram = "TCEM_WAIT" /\ RamAccept(i)
  /\ ram' = "WRITE_OPEN"
  /\ UNCHANGED <<cnt, latch, open_for, target_bank>>

\* Bug: the flush is looked at while a burst is open only.
RamTcemDoneDeaf(i, done) == ram = "TCEM_WAIT" /\ done /\ FALSE

RamTcemDone(i, done) ==
  /\ ram = "TCEM_WAIT" /\ ~i.valid /\ done
  /\ ram' = "RAM_EXIT_QPI"
  /\ UNCHANGED <<ram_chip, ram_regs, cnt, latch, open_for>>

\* The bank is turned back to the PSRAM without an edge: the first one is the
\* configuration engine's own.
RamArmed ==
  /\ ram = "ARM_RAM" /\ target_bank = 0
  /\ target_bank' = 1
  /\ UNCHANGED <<ram, ram_addr, ram_data, cur_addr, ram_count, cnt, latch, ram_chip, open_for>>

boot_ready == ram = "ARM_RAM"

RamTakesByte(i) == RamIdle(i) \/ RamNextByte(i) \/ RamTcemByte(i)

RamWorksAlone(i, done) ==
  \/ RamPulse \/ RamRelease \/ RamSend \/ RamWriteAddr \/ RamWriteData
  \/ RamNextElse(i, done) \/ RamTcemDone(i, done) \/ RamArmed

=============================================================================
