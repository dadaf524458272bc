---------------------------- MODULE MCDfuUpload -----------------------------
(* Images for DfuUpload: one that ends inside a page, one that fills pages and
   runs over a block's end, over flash that held old firmware. *)
EXTENDS DfuUpload, Bitwise

MCByte == 0 .. 15 \cup {216, 255}
MCBitAnd(x, y) == x & y
MCContents == {[a \in Flash!Addr |-> 8]}

OneArea == <<4>>

TwoImages == {<<1, 2, 3>>, <<4, 5, 6, 7, 9, 10>>}

=============================================================================
