------------------------------ MODULE BootHeader ------------------------------
(***************************************************************************)
(* gateware/blocks/boot/boot_header.py: reads the header of the FLASH slot *)
(* back and, where it differs from the ROM's copy, erases its sector and   *)
(* programs it again. The states that send one octet, or release chip      *)
(* select, and go on are rows of two tables.                               *)
(***************************************************************************)
EXTENDS SpiFlash

CONSTANTS
  Header,       \* header_bytes
  HeaderBase,   \* base_addr, the start of a page
  SectorPages   \* pages of the sector that 0x20 erases

READ         == 3
SECTOR_ERASE == 32

ASSUME HeaderAssumption ==
  /\ Header \in Seq(Byte) /\ Len(Header) \in 1 .. PageSize
  /\ HeaderBase \in Addr /\ HeaderBase.off = 0
  /\ {READ, SECTOR_ERASE} \subseteq Byte
  /\ SectorPages \in 1 .. Pages

VARIABLES
  bh,            \* FSM state
  idx, bh_count, \* addr_count
  mismatch,
  poll_ret,      \* "PROGRAM" or "DONE"
  bh_status,     \* bit 0 of the latched status
  bh_qi          \* octets read, on their way back

bh_vars == <<bh, idx, bh_count, mismatch, poll_ret, bh_status, bh_qi>>

N == Len(Header)

BhSends ==
  [READ_CMD  |-> <<READ, "READ_ADDR">>,          WREN_E |-> <<WRITE_ENABLE, "WREN_E_REL">>,
   ERASE_CMD |-> <<SECTOR_ERASE, "ERASE_ADDR">>, WREN_P |-> <<WRITE_ENABLE, "WREN_P_REL">>,
   PP_CMD    |-> <<PAGE_PROGRAM, "PP_ADDR">>,    POLL_CMD |-> <<READ_STATUS, "POLL_GET">>]

BhAddrs == [READ_ADDR |-> "READ_GET", ERASE_ADDR |-> "ERASE_REL", PP_ADDR |-> "PP_DATA"]

BhReleases == {"READ_DONE", "WREN_E_REL", "ERASE_REL", "POLL_REL", "WREN_P_REL", "PP_REL"}

\* Bug: the program does not wait for the erase.
AfterReleaseNoPoll ==
  CASE bh = "READ_DONE"  -> IF mismatch THEN "WREN_E" ELSE "DONE"
    [] bh = "WREN_E_REL" -> "ERASE_CMD"
    [] bh = "ERASE_REL"  -> "WREN_P"
    [] bh = "PP_REL"     -> "POLL_CMD"
    [] bh = "WREN_P_REL" -> "PP_CMD"
    [] bh = "POLL_REL"   -> IF bh_status THEN "POLL_CMD" ELSE "DONE"

AfterRelease ==
  CASE bh = "READ_DONE"  -> IF mismatch THEN "WREN_E" ELSE "DONE"
    [] bh = "WREN_E_REL" -> "ERASE_CMD"
    [] bh \in {"ERASE_REL", "PP_REL"} -> "POLL_CMD"
    [] bh = "WREN_P_REL" -> "PP_CMD"
    [] bh = "POLL_REL"   -> IF bh_status THEN "POLL_CMD"
                            ELSE IF poll_ret = "PROGRAM" THEN "WREN_P" ELSE "DONE"

BhInit ==
  /\ bh = "IDLE" /\ idx = 0 /\ bh_count = 0 /\ mismatch = FALSE
  /\ poll_ret = "PROGRAM" /\ bh_status = FALSE /\ bh_qi = <<>>

-----------------------------------------------------------------------------
(* The two commands of the device that QspiFlash does not use. *)

\* A read sends the cells from the frame's address on.
ReadOut ==
  /\ bh_qi' = <<mem[[blk |-> FrameBlock, pg |-> FramePage, off |-> col]]>>
  /\ col' = (col + 1) % PageSize
  /\ UNCHANGED <<mem, wel, wip, frame, buf>>

InSector(a) == a.blk = FrameBlock /\ a.pg \div SectorPages = FramePage \div SectorPages

HeaderRise ==
  IF Command(SECTOR_ERASE) /\ wel /\ HasAddress
    THEN /\ mem' = [a \in Addr |-> IF InSector(a) THEN Erased ELSE mem[a]]
         /\ wel' = FALSE /\ wip' = TRUE
         /\ frame' = <<>> /\ buf' = EmptyBuf /\ col' = 0
    ELSE ChipSelectRise

-----------------------------------------------------------------------------
BhStart ==
  /\ bh = "IDLE"
  /\ mismatch' = FALSE /\ idx' = 0 /\ bh_count' = 0
  /\ bh' = "READ_CMD"
  /\ UNCHANGED <<device, poll_ret, bh_status, bh_qi>>

BhSend ==
  /\ bh \in DOMAIN BhSends
  /\ ShiftIn(BhSends[bh][1])
  /\ bh_count' = 0
  /\ idx' = IF bh = "PP_CMD" THEN 0 ELSE idx
  /\ bh' = BhSends[bh][2]
  /\ UNCHANGED <<mismatch, poll_ret, bh_status, bh_qi>>

BhAddr ==
  /\ bh \in DOMAIN BhAddrs
  /\ ShiftIn(CASE bh_count = 0 -> HeaderBase.blk
               [] bh_count = 1 -> HeaderBase.pg
               [] OTHER -> HeaderBase.off)
  /\ IF bh_count = 2
       THEN /\ idx' = IF bh = "READ_ADDR" THEN 0 ELSE idx
            /\ bh' = BhAddrs[bh] /\ UNCHANGED bh_count
       ELSE bh_count' = bh_count + 1 /\ UNCHANGED <<idx, bh>>
  /\ UNCHANGED <<mismatch, poll_ret, bh_status, bh_qi>>

BhGet ==
  /\ \/ bh = "READ_GET" /\ ReadOut /\ bh' = "READ_CAP"
     \/ bh = "POLL_GET" /\ bh_qi' = <<wip>> /\ bh' = "POLL_CAP" /\ UNCHANGED device
  /\ UNCHANGED <<idx, bh_count, mismatch, poll_ret, bh_status>>

\* Bug: the last octet decides.
MismatchLast == bh_qi[1] # Header[idx + 1]

Mismatch == mismatch \/ bh_qi[1] # Header[idx + 1]

BhCapture ==
  /\ bh_qi # <<>> /\ bh_qi' = <<>>
  /\ \/ /\ bh = "READ_CAP"
        /\ mismatch' = Mismatch
        /\ IF idx = N - 1 THEN bh' = "READ_DONE" /\ UNCHANGED idx
                          ELSE idx' = idx + 1 /\ bh' = "READ_GET"
        /\ UNCHANGED bh_status
     \/ /\ bh = "POLL_CAP"
        /\ bh_status' = bh_qi[1]
        /\ bh' = "POLL_REL"
        /\ UNCHANGED <<mismatch, idx>>
  /\ UNCHANGED <<device, bh_count, poll_ret>>

BhRelease ==
  /\ bh \in BhReleases
  /\ HeaderRise
  /\ bh_count' = IF bh \in {"WREN_E_REL", "WREN_P_REL"} THEN 0 ELSE bh_count
  /\ poll_ret' = CASE bh = "ERASE_REL" -> "PROGRAM" [] bh = "PP_REL" -> "DONE"
                   [] OTHER -> poll_ret
  /\ bh' = AfterRelease
  /\ UNCHANGED <<idx, mismatch, bh_status, bh_qi>>

BhData ==
  /\ bh = "PP_DATA"
  /\ ShiftIn(Header[idx + 1])
  /\ IF idx = N - 1 THEN bh' = "PP_REL" /\ UNCHANGED idx
                    ELSE idx' = idx + 1 /\ UNCHANGED bh
  /\ UNCHANGED <<bh_count, mismatch, poll_ret, bh_status, bh_qi>>

\* done is a pulse of one cycle.
BhDone ==
  /\ bh = "DONE"
  /\ bh' = "IDLE"
  /\ UNCHANGED <<device, idx, bh_count, mismatch, poll_ret, bh_status, bh_qi>>

BhStep == BhSend \/ BhAddr \/ BhGet \/ BhCapture \/ BhRelease \/ BhData

HeaderPresent ==
  \A k \in 1 .. N : mem[[HeaderBase EXCEPT !.off = k - 1]] = Header[k]

=============================================================================
