------------------------------ MODULE MCQspiBus -------------------------------
(* A flash of one page, octets of two values on the serial bridge, packets of
   two octets on the control endpoint: a write with a read, a read over two
   packets, a stray octet between commands, and an empty transaction. *)
EXTENDS QspiBus, Bitwise

MCByte == {0, 1, 2, 4, 5, 6, 7, 8, 216, 255}
MCBitAnd(x, y) == x & y
MCImage == <<4, 8>>
MCContents == {[a \in [blk : {0}, pg : {0}, off : {0, 1}] |-> 0]}

MCTransactions == {<<0>>, <<2>>, <<1, 0, 0, 0, 0>>, <<1, 2, 0, 0, 0, 7, 7>>,
                   <<1, 0, 0, 0, 1>>, <<1, 1, 0, 1, 0, 6>>}
MCExecs == {<<0, 0>>, <<2, 0>>, <<1, 3>>}

\* Several functions at once, but no frame is taken from its owner.
KeptSpec == Init /\ [][SharedNext /\ ~GivenUp /\ ~BrokenInto]_vars

\* HoldArbiter, with as many functions as the host likes.
GrantHeldInFrames == [][GrantHeld]_vars

=============================================================================
