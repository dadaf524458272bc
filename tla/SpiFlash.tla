------------------------------ MODULE SpiFlash ------------------------------
(***************************************************************************)
(* The SPI NOR flash the gateware writes to, as the simulation's device    *)
(* model (tests/sim/cocotb_tests/spi_flash_model.py) behaves at the level  *)
(* of whole octets: a chip-select frame is an opcode, three address bytes  *)
(* and then data; the command takes effect when chip select rises.         *)
(*                                                                         *)
(* The 24-bit address is the record of its three bytes: the 64 KiB block   *)
(* addr[16:24], the page within it addr[8:16] and the offset addr[0:8].    *)
(* Their ranges are constants here, 256 each in the device.                *)
(***************************************************************************)
EXTENDS Integers, Sequences

CONSTANTS
  Blocks,      \* number of erase blocks
  Pages,       \* pages per block
  PageSize,    \* bytes per page
  Byte,        \* the octets considered: opcodes, address bytes, data
  BitAnd(_, _) \* bitwise AND of two octets: programming only clears bits

Erased == 255

WRITE_ENABLE == 6
READ_STATUS  == 5
PAGE_PROGRAM == 2
BLOCK_ERASE  == 216

Addr == [blk : 0 .. Blocks - 1, pg : 0 .. Pages - 1, off : 0 .. PageSize - 1]

ASSUME GeometryAssumption ==
  /\ Blocks \in Nat \ {0}
  /\ Pages \in Nat \ {0}
  /\ PageSize \in Nat \ {0}

ASSUME ByteAssumption ==
  /\ Byte \subseteq Nat
  /\ {Erased, WRITE_ENABLE, READ_STATUS, PAGE_PROGRAM, BLOCK_ERASE} \subseteq Byte
  /\ 0 .. Blocks - 1 \subseteq Byte
  /\ 0 .. Pages - 1 \subseteq Byte
  /\ 0 .. PageSize - 1 \subseteq Byte

ASSUME AndAssumption ==
  \A x, y \in Byte : /\ BitAnd(x, y) \in Byte
                     /\ BitAnd(Erased, x) = x
                     /\ BitAnd(x, Erased) = x

VARIABLES
  mem,     \* the array
  wel,     \* write enable latch, status bit 1
  wip,     \* write in progress, status bit 0
  frame,   \* opcode and address octets of the open frame; <<>> between frames
  buf,     \* page buffer: the data octets of the frame, by column
  col      \* column the next data octet goes to

device == <<mem, wel, wip, frame, buf, col>>

EmptyBuf == [o \in 0 .. PageSize - 1 |-> Erased]

DeviceInit(contents) ==
  /\ mem \in contents
  /\ wel = FALSE
  /\ wip = FALSE
  /\ frame = <<>>
  /\ buf = EmptyBuf
  /\ col = 0

DeviceTypeOK ==
  /\ mem \in [Addr -> Byte]
  /\ wel \in BOOLEAN
  /\ wip \in BOOLEAN
  /\ frame \in Seq(Byte)
  /\ Len(frame) <= 4
  /\ buf \in [0 .. PageSize - 1 -> Byte]
  /\ col \in 0 .. PageSize - 1

\* The command of the open frame, once its opcode octet is in.
Command(op) == frame # <<>> /\ frame[1] = op

HasAddress == Len(frame) = 4

\* The device decodes as many address bits as it has: addresses wrap.
FrameBlock == frame[2] % Blocks
FramePage  == frame[3] % Pages

(* One octet shifted in with chip select low. *)
ShiftIn(b) ==
  /\ IF Len(frame) < 4
       THEN /\ frame' = Append(frame, b)
            /\ col' = IF Len(frame) = 3 THEN b % PageSize ELSE col
            /\ buf' = buf
       ELSE /\ buf' = [buf EXCEPT ![col] = BitAnd(@, b)]
            /\ col' = (col + 1) % PageSize
            /\ frame' = frame
  /\ UNCHANGED <<mem, wel, wip>>

\* Erase and program need the write enable latch, clear it and start the
\* internal write; a frame cut short of its address does nothing.
Erases   == wel /\ HasAddress /\ Command(BLOCK_ERASE)
Programs == wel /\ HasAddress /\ Command(PAGE_PROGRAM)

Programmed(a) ==
  IF a.blk = FrameBlock /\ a.pg = FramePage THEN BitAnd(mem[a], buf[a.off]) ELSE mem[a]

(* Chip select rises: the frame is executed and the buffer is forgotten. *)
ChipSelectRise ==
  /\ mem' = IF Erases THEN [a \in Addr |-> IF a.blk = FrameBlock THEN Erased ELSE mem[a]]
            ELSE IF Programs THEN [a \in Addr |-> Programmed(a)]
            ELSE mem
  /\ wel' = IF Erases \/ Programs THEN FALSE ELSE (wel \/ Command(WRITE_ENABLE))
  /\ wip' = (wip \/ Erases \/ Programs)
  /\ frame' = <<>>
  /\ buf' = EmptyBuf
  /\ col' = 0

(* The internal erase or program ends. *)
WriteEnds ==
  /\ wip
  /\ wip' = FALSE
  /\ UNCHANGED <<mem, wel, frame, buf, col>>

=============================================================================
