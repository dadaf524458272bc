----------------------------- MODULE ImageStore -----------------------------
(***************************************************************************)
(* What a flash backing promises the writer of an image, without opcodes,  *)
(* status polls or page buffers: bytes are accepted, each block is erased  *)
(* once per upload before anything is stored in it, and a page at a time   *)
(* the accepted bytes overwrite the store, each at its own address.        *)
(***************************************************************************)
CONSTANTS Addr, Byte, Erased, None

VARIABLES
  store,    \* the contents of the array
  pending,  \* accepted and not stored yet; None where there is nothing
  fresh     \* blocks erased in this upload

vars == <<store, pending, fresh>>

InPage(a, b, p) == a.blk = b /\ a.pg = p
Overwritten(a)  == IF pending[a] = None THEN store[a] ELSE pending[a]

Init ==
  /\ store \in [Addr -> Byte]
  /\ pending = [a \in Addr |-> None]
  /\ fresh = {}

Accept(a) ==
  /\ pending[a] = None
  /\ pending'[a] \in Byte
  /\ pending' = [pending EXCEPT ![a] = pending'[a]]
  /\ UNCHANGED <<store, fresh>>

EraseBlock(b) ==
  /\ b \notin fresh
  /\ fresh' = fresh \cup {b}
  /\ \E a \in Addr : a.blk = b /\ pending[a] # None
  /\ store' = [a \in Addr |-> IF a.blk = b THEN Erased ELSE store[a]]
  /\ UNCHANGED pending

StorePage(b, p) ==
  /\ b \in fresh
  /\ store' = [a \in Addr |-> IF InPage(a, b, p) THEN Overwritten(a) ELSE store[a]]
  /\ pending' = [a \in Addr |-> IF InPage(a, b, p) THEN None ELSE pending[a]]
  /\ UNCHANGED fresh

NewUpload ==
  /\ \A a \in Addr : pending[a] = None
  /\ fresh' = {}
  /\ UNCHANGED <<store, pending>>

Next ==
  \/ \E a \in Addr : Accept(a)
  \/ \E a \in Addr : EraseBlock(a.blk) \/ StorePage(a.blk, a.pg)
  \/ NewUpload

Spec == Init /\ [][Next]_vars

=============================================================================
