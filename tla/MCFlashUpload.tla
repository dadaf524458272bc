---------------------------- MODULE MCFlashUpload -----------------------------
(* Instances of FlashUpload for TLC. *)
EXTENDS FlashUploadStore, Bitwise

MCByte == {0, 1, 2, 4, 5, 6, 8, 16, BLOCK_ERASE, Erased}
MCBitAnd(x, y) == x & y

\* Old firmware in every cell, and a payload byte of its own for every address
\* of a block. All differ in single bits, so a byte in the wrong place shows, and
\* so does one programmed over another.
MCContents   == {[a \in Addr |-> 16]}
MCPayload(a) == {2 ^ (2 * a.pg + a.off)}

=============================================================================
