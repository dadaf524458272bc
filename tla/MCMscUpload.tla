---------------------------- MODULE MCMscUpload -----------------------------
(* UF2 files for MscUpload: two blocks, in one erase block or in two, the
   second with a good or a bad end magic, over flash that held old firmware. *)
EXTENDS MscUpload, Bitwise

MCWord == 0 .. 8 \cup {20, 21, 22}
MCByte == 0 .. 31 \cup {216, 255}
MCBitAnd(x, y) == x & y

MCContents == {[a \in Flash!Addr |-> 8]}

NoRom == [op \in {} |-> 1]

Block(a, size, no, end) ==
  [k \in 1 .. SectorLen |->
     CASE k = 1 -> 20 [] k = 2 -> 21 [] k = 3 -> 0 [] k = 4 -> a
       [] k = 5 -> size [] k = 6 -> no [] k = 7 -> 2 [] k = 8 -> 0
       [] k = SectorLen -> end
       [] OTHER -> 1 + ((k + a) % 2)]

\* Whole pages, as UF2 tools lay an image out.
AlignedFiles ==
  {<<Block(0, 2, 0, 22), Block(a, 2, 1, end)>> : a \in {2, 4}, end \in {22, 1}}

\* The last byte of the image is the first of its page.
ShortTail == {<<Block(0, 2, 0, 22), Block(2, 1, 1, 22)>>}

OneStray == {[k \in 1 .. SectorLen |-> 3]}

=============================================================================
