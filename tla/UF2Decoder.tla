----------------------------- MODULE UF2Decoder -----------------------------
(***************************************************************************)
(* gateware/blocks/storage/uf2.py. A UF2 block is one 512-byte sector:     *)
(* eight little-endian header words, room for the payload, an end magic.   *)
(*                                                                         *)
(* The decoder acts on a header word only when its last byte is in, and on *)
(* the end magic likewise, so a word is one token here, and a payload or   *)
(* padding byte is one token; byte_count counts tokens. The code's values  *)
(* 3, 7, ..., 31 are 0, ..., 7; 507 is LastPad; 511 is LastToken. The      *)
(* register is just wide enough for a sector, so it wraps at its length.   *)
(***************************************************************************)
EXTENDS Integers, Sequences

CONSTANTS
  Room,        \* payload bytes a block has room for: 476
  Word,        \* the tokens considered
  MAGIC_START0, MAGIC_START1, MAGIC_END,
  base_addr,   \* where the slot being written starts in the flash
  AddrSpace    \* addresses on the output wrap here: 2^24

HeaderLen == 8
LastPad   == HeaderLen + Room - 1
LastToken == HeaderLen + Room
SectorLen == HeaderLen + Room + 1

ASSUME DecoderAssumption ==
  /\ Room \in Nat \ {0}
  /\ Word \subseteq Nat /\ {MAGIC_START0, MAGIC_START1, MAGIC_END} \subseteq Word
  /\ base_addr \in Nat
  /\ AddrSpace \in Nat \ {0}

VARIABLES
  uf2_state, byte_count,
  target_addr, payload_size, data_count, flags,
  blockNo, numBlocks, familyID,
  done, error

uf2_header == <<target_addr, payload_size, flags, blockNo, numBlocks, familyID>>
uf2 == <<uf2_state, byte_count, uf2_header, data_count, done, error>>

UF2Init ==
  /\ uf2_state = "HEADER" /\ byte_count = 0
  /\ target_addr = 0 /\ payload_size = 0 /\ data_count = 0 /\ flags = 0
  /\ blockNo = 0 /\ numBlocks = 0 /\ familyID = 0
  /\ done = FALSE /\ error = FALSE

NotMainFlash(f) == f % 2 = 1

\* Payload bytes go straight through to the flash writer, which may stall them.
Emitting == uf2_state = "DATA" /\ data_count # payload_size

NextCount == (byte_count + 1) % SectorLen

\* A header field takes word n of the block.
Field(n, old, t) == IF byte_count = n THEN t ELSE old

\* Bug: the slot's base is not added.
TargetNoBase(t) == t % AddrSpace

Target(t) == (t + base_addr) % AddrSpace

\* Bug: the second magic is not looked at.
ForeignOneMagic(t) ==
  \/ byte_count = 0 /\ t # MAGIC_START0
  \/ byte_count = 7 /\ NotMainFlash(flags)

\* Word t of the header shows a sector that is not to be written.
Foreign(t) ==
  \/ byte_count = 0 /\ t # MAGIC_START0
  \/ byte_count = 1 /\ t # MAGIC_START1
  \/ byte_count = 7 /\ NotMainFlash(flags)

(* One action per FSM state, each consuming the token t. *)

Header(t) ==
  /\ uf2_state = "HEADER"
  /\ byte_count' = NextCount
  /\ done' = (done /\ byte_count # 0)
  /\ flags' = Field(2, flags, t)
  /\ target_addr' = Field(3, target_addr, Target(t))
  /\ payload_size' = Field(4, payload_size, t)
  /\ blockNo' = Field(5, blockNo, t)
  /\ numBlocks' = Field(6, numBlocks, t)
  /\ familyID' = Field(7, familyID, t)
  /\ data_count' = IF byte_count = 7 /\ ~NotMainFlash(flags) THEN 0 ELSE data_count
  /\ uf2_state' = IF Foreign(t) THEN "DISCARD" ELSE IF byte_count = 7 THEN "DATA" ELSE "HEADER"
  /\ UNCHANGED error

\* The writer accepts payload byte t at target_addr.
Data(t) ==
  /\ Emitting
  /\ target_addr' = (target_addr + 1) % AddrSpace
  /\ data_count' = data_count + 1
  /\ byte_count' = NextCount
  /\ UNCHANGED <<uf2_state, payload_size, flags, blockNo, numBlocks, familyID, done, error>>

\* A cycle of its own, no token consumed.
DataEnd ==
  /\ uf2_state = "DATA" /\ data_count = payload_size
  /\ uf2_state' = "PAD"
  /\ UNCHANGED <<byte_count, uf2_header, data_count, done, error>>

Pad(t) ==
  /\ uf2_state = "PAD"
  /\ byte_count' = NextCount
  /\ uf2_state' = IF byte_count = LastPad THEN "FINAL" ELSE "PAD"
  /\ UNCHANGED <<uf2_header, data_count, done, error>>

\* Bug: done without looking at the end magic.
FinalUnchecked(t) ==
  /\ uf2_state = "FINAL"
  /\ IF byte_count = LastToken
       THEN /\ done' = (done \/ blockNo = numBlocks - 1)
            /\ error' = (error \/ t # MAGIC_END)
            /\ byte_count' = 0
            /\ uf2_state' = "HEADER"
       ELSE byte_count' = NextCount /\ UNCHANGED <<uf2_state, done, error>>
  /\ UNCHANGED <<uf2_header, data_count>>

\* numBlocks - 1 is signed in the gateware: no block is the last of none.
Final(t) ==
  /\ uf2_state = "FINAL"
  /\ IF byte_count = LastToken
       THEN /\ error' = (error \/ t # MAGIC_END)
            /\ done' = (done \/ (t = MAGIC_END /\ blockNo = numBlocks - 1))
            /\ byte_count' = 0
            /\ uf2_state' = "HEADER"
       ELSE byte_count' = NextCount /\ UNCHANGED <<uf2_state, done, error>>
  /\ UNCHANGED <<uf2_header, data_count>>

Discard(t) ==
  /\ uf2_state = "DISCARD"
  /\ byte_count' = IF byte_count = LastToken THEN 0 ELSE NextCount
  /\ uf2_state' = IF byte_count = LastToken THEN "HEADER" ELSE "DISCARD"
  /\ UNCHANGED <<uf2_header, data_count, done, error>>

Consume(t) == Header(t) \/ Data(t) \/ Pad(t) \/ Final(t) \/ Discard(t)

\* The transfer-level reset; everything but done and error stays as it is.
Clear ==
  /\ done' = FALSE /\ error' = FALSE
  /\ UNCHANGED <<uf2_state, byte_count, uf2_header, data_count>>

=============================================================================
