--------------------------- MODULE MCUF2Transfer ----------------------------
(* Sectors for UF2Transfer: blocks of a two-block file with payloads of every
   size, addresses that reach past the end of the address space, a block not
   for main flash, a bad end magic, and sectors that are not UF2. *)
EXTENDS UF2Transfer

MCWord == 0 .. 5 \cup {20, 21, 22}

Block(fl, a, size, no, num, end) ==
  [k \in 1 .. SectorLen |->
     CASE k = 1 -> 20 [] k = 2 -> 21 [] k = 3 -> fl [] k = 4 -> a
       [] k = 5 -> size [] k = 6 -> no [] k = 7 -> num [] k = 8 -> 0
       [] k = SectorLen -> end
       [] OTHER -> (k + a) % 4]

Junk(first) == [k \in 1 .. SectorLen |-> IF k = 1 THEN first ELSE 20]

MixedSectors(sizes) ==
  {Block(fl, a, size, no, 2, end) :
     fl \in {0, 1}, a \in {0, 3}, size \in sizes, no \in {0, 1}, end \in {22, 1}}
  \cup {Block(0, 1, 1, 0, 0, 22)}
  \cup {Junk(0), Junk(20)}

ShortSectors == MixedSectors(0 .. Room - 1)
GoodSectors(sizes) ==
  {Block(0, a, size, no, 2, 22) : a \in {0, 3}, size \in sizes, no \in {0, 1}}

FullSectors == GoodSectors({Room})
WholeBlocks == GoodSectors(1 .. Room - 1)

=============================================================================
