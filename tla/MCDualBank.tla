------------------------------ MODULE MCDualBank ------------------------------
(* Two blocks of two pages of two bytes; the header takes a page at the start
   of the second block, over flash that holds it, half of it or old firmware. *)
EXTENDS DualBankWriter, Bitwise

MCByte == 0 .. 6 \cup 16 .. 23 \cup {32, 216, 255}
MCBitAnd(x, y) == x & y
MCHeader == <<5, 6>>
MCHeaderBase == [blk |-> 1, pg |-> 0, off |-> 0]
MCPayload(a) == 16 + Num(a)

Holding(b) == [a \in Addr |-> IF a = MCHeaderBase THEN b ELSE 6]
MCContents == {Holding(5), [Holding(5) EXCEPT ![[MCHeaderBase EXCEPT !.off = 1]] = 1], Holding(1)}

=============================================================================
