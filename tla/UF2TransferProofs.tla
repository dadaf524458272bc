--------------------------- MODULE UF2TransferProofs ---------------------------
(***************************************************************************)
(* Theorems about UF2Transfer, for any room, any address space and any set *)
(* of sectors whose blocks leave at least a byte of padding: what comes    *)
(* out of the decoder is the payload and the status is the sectors' own.   *)
(***************************************************************************)
EXTENDS UF2Transfer, SequenceTheorems, TLAPS

-----------------------------------------------------------------------------
(* Remainders, for the addresses that wrap. *)

LEMMA Division ==
  ASSUME NEW a \in Nat, NEW m \in Nat \ {0}
  PROVE  \E q \in Nat, r \in 0 .. m - 1 : a = m * q + r /\ a % m = r
<1>1. a = m * (a \div m) + (a % m) /\ a \div m \in Nat BY SMT
<1>2. a % m \in 0 .. m - 1 BY SMT
<1> QED BY <1>1, <1>2, Zenon

LEMMA NextMultiple ==
  ASSUME NEW m \in Nat \ {0}, NEW p \in Int, NEW q \in Int, p > q
  PROVE  m * p >= m * q + m
<1>1. PICK d \in Nat : p = q + 1 + d BY SMT
<1>2. m * p = m * q + m + m * d BY <1>1, SMT
<1>3. m * d >= 0 BY SMT
<1> QED BY <1>2, <1>3, SMT

LEMMA UniqueRemainder ==
  ASSUME NEW m \in Nat \ {0}, NEW q \in Nat, NEW r \in 0 .. m - 1, NEW a \in Nat,
         a = m * q + r
  PROVE  a % m = r
<1>1. PICK d \in Nat, e \in 0 .. m - 1 : a = m * d + e /\ a % m = e BY Division
<1>2. CASE d > q BY <1>1, <1>2, NextMultiple, SMT
<1>3. CASE q > d BY <1>1, <1>3, NextMultiple, SMT
<1>4. CASE d = q BY <1>1, <1>4, SMT
<1> QED BY <1>1, <1>2, <1>3, <1>4, SMT

\* An address that is counted up and wrapped at every step.
LEMMA WrappedSuccessor ==
  ASSUME NEW a \in Nat, NEW m \in Nat \ {0}
  PROVE  ((a % m) + 1) % m = (a + 1) % m
<1>1. PICK q \in Nat, r \in 0 .. m - 1 : a = m * q + r /\ a % m = r BY Division
<1>2. CASE r + 1 < m
  <2> DEFINE b == a + 1
             s == r + 1
  <2>1. b \in Nat /\ s \in 0 .. m - 1 /\ b = m * q + s BY <1>1, <1>2, SMT
  <2>2. s % m = s BY <2>1, SMT
  <2> HIDE DEF b, s
  <2>3. b % m = s BY <2>1, UniqueRemainder
  <2> QED BY <2>2, <2>3, <1>1 DEF b, s
<1>3. CASE r + 1 = m
  <2> DEFINE b == a + 1
             p == q + 1
  <2>1. b \in Nat /\ p \in Nat /\ 0 \in 0 .. m - 1 /\ b = m * p + 0 BY <1>1, <1>3, SMT
  <2>3. (r + 1) % m = 0 BY <1>1, <1>3, SMT
  <2> HIDE DEF b, p
  <2>2. b % m = 0 BY <2>1, UniqueRemainder
  <2> QED BY <2>2, <2>3, <1>1 DEF b
<1> QED BY <1>1, <1>2, <1>3, SMT

-----------------------------------------------------------------------------
(* SectorDelivered speaks of the output alone. The invariant says where in the
   sector each state of the decoder is, and what of the header it has read. *)

\* Sectors whose payload leaves room for padding.
ShortPayloads == \A s \in Sectors : IsBlock(s) => s[5] < Room

PayloadAt(s, k) == <<(s[4] + base_addr + k - 1) % AddrSpace, s[HeaderLen + k]>>

\* The first n payload bytes have come out, and nothing else.
Delivered(n) ==
  /\ out \in Seq(Nat \X Nat) /\ Len(out) = n
  /\ \A k \in 1 .. n : out[k] = PayloadAt(sector, k)

Registers ==
  /\ uf2_state \in {"HEADER", "DATA", "PAD", "FINAL", "DISCARD"}
  /\ pos \in 0 .. LastToken /\ byte_count = pos
  /\ data_count \in Nat
  /\ sector \in Sectors \/ (pos = 0 /\ sector = <<>>)
  /\ pos = 0 => uf2_state = "HEADER"

HeaderRead ==
  uf2_state = "HEADER" /\ pos > 0 =>
    /\ pos <= 7 /\ out = <<>>
    /\ sector[1] = MAGIC_START0
    /\ pos > 1 => sector[2] = MAGIC_START1
    /\ pos > 2 => flags = sector[3]
    /\ pos > 3 => target_addr = (sector[4] + base_addr) % AddrSpace
    /\ pos > 4 => payload_size = sector[5]
    /\ pos > 5 => blockNo = sector[6]
    /\ pos > 6 => numBlocks = sector[7]

InBlock ==
  uf2_state \in {"DATA", "PAD", "FINAL"} =>
    IsBlock(sector) /\ blockNo = sector[6] /\ numBlocks = sector[7]

InData ==
  uf2_state = "DATA" =>
    /\ payload_size = sector[5] /\ data_count <= payload_size
    /\ pos = HeaderLen + data_count
    /\ target_addr = (sector[4] + base_addr + data_count) % AddrSpace
    /\ Delivered(data_count)

AfterData ==
  /\ uf2_state \in {"PAD", "FINAL"} => Delivered(sector[5])
  /\ uf2_state = "PAD" => pos \in HeaderLen .. LastPad
  /\ uf2_state = "FINAL" => pos = LastToken

InDiscard == uf2_state = "DISCARD" => ~IsBlock(sector) /\ out = <<>>

AtEnd == pos = 0 => IF IsBlock(sector) THEN Delivered(sector[5]) ELSE out = <<>>

Owed ==
  /\ owed \in [done : BOOLEAN, error : BOOLEAN]
  /\ done = owed.done /\ error = owed.error
  /\ pos > 0 => ~done

DecoderInv ==
  Registers /\ HeaderRead /\ InBlock /\ InData /\ AfterData /\ InDiscard /\ AtEnd /\ Owed

\* A step of the decoder that takes the token at pos of s.
Takes(s) ==
  /\ s \in Sectors /\ sector' = s
  /\ pos' = (pos + 1) % SectorLen
  /\ owed' = [done  |-> IF pos = SectorLen - 1 THEN Ends(s) ELSE pos # 0 /\ owed.done,
              error |-> owed.error \/ (pos = SectorLen - 1 /\ BadEnd(s))]
  /\ pos > 0 => s = sector

LEMMA SectorTypes ==
  ASSUME NEW s \in Sectors
  PROVE  /\ \A k \in 1 .. SectorLen : s[k] \in Nat
         /\ s # <<>>
<1>1. s \in [1 .. SectorLen -> Word] BY SectorsAssumption
<1>2. SectorLen \in Nat /\ SectorLen >= 10
  BY DecoderAssumption DEF SectorLen, HeaderLen
<1>3. s # <<>>
  <2>1. 1 \in DOMAIN s BY <1>1, <1>2, SMT
  <2>2. DOMAIN <<>> = {} BY SMT
  <2> QED BY <2>1, <2>2
<1> QED BY <1>1, <1>2, <1>3, DecoderAssumption

LEMMA NextPosition ==
  ASSUME pos \in 0 .. LastToken
  PROVE  /\ pos < LastToken => (pos + 1) % SectorLen = pos + 1
         /\ pos = LastToken => (pos + 1) % SectorLen = 0
<1>1. SectorLen \in Nat \ {0} /\ LastToken = SectorLen - 1
  BY DecoderAssumption, SMT DEF SectorLen, LastToken, HeaderLen
<1> DEFINE n == pos + 1
<1>2. n \in Nat /\ n <= SectorLen BY <1>1, SMT
<1>3. CASE pos < LastToken
  <2>1. n < SectorLen BY <1>1, <1>3, SMT
  <2> HIDE DEF n
  <2>2. n % SectorLen = n BY <1>1, <1>2, <2>1, SMT
  <2> QED BY <2>2, <1>3, SMT DEF n
<1>4. CASE pos = LastToken
  <2>1. n = SectorLen BY <1>1, <1>4, SMT
  <2>2. SectorLen % SectorLen = 0 BY <1>1, SMT
  <2> QED BY <2>1, <2>2, <1>4, SMT
<1> QED BY <1>3, <1>4, SMT

LEMMA PayloadLength ==
  ASSUME NEW s \in Sectors, IsBlock(s)
  PROVE  /\ s[5] \in Nat /\ Len(Payload(s)) = s[5] /\ Len(Payload(s)) \in Nat
         /\ \A k \in 1 .. s[5] : Payload(s)[k] = PayloadAt(s, k)
<1>1. 5 \in 1 .. SectorLen BY DecoderAssumption, SMT DEF SectorLen, HeaderLen
<1>2. s[5] \in Nat BY <1>1, SectorTypes
<1> DEFINE n == s[5]
           f == [k \in 1 .. n |-> PayloadAt(s, k)]
<1>3. Payload(s) = f BY DEF Payload, PayloadAt
<1>4. Len(f) = n
  <2> DEFINE g(k) == PayloadAt(s, k)
  <2> HIDE DEF g, n
  <2>1. n \in Nat BY <1>2 DEF n
  <2>2. Len([k \in 1 .. n |-> g(k)]) = n BY <2>1, SMT
  <2> QED BY <2>2 DEF g
<1> QED BY <1>2, <1>3, <1>4

LEMMA InitHolds == Init => DecoderInv
<1> SUFFICES ASSUME Init PROVE DecoderInv OBVIOUS
<1>1. LastToken \in Nat BY DecoderAssumption DEF LastToken, HeaderLen
<1>2. Owed
  <2>1. owed.done = FALSE /\ owed.error = FALSE /\ owed \in [done : BOOLEAN, error : BOOLEAN]
    BY Zenon DEF Init
  <2>2. ~(pos > 0) BY SMT DEF Init
  <2> QED BY <2>1, <2>2, Zenon DEF Init, UF2Init, Owed
<1> QED
  BY <1>1, <1>2, SMT DEF Init, UF2Init, DecoderInv, Registers, HeaderRead, InBlock, InData,
                         AfterData, InDiscard, AtEnd, IsBlock

\* What the bookkeeping of a step amounts to, whatever the state.
LEMMA OwedMoves ==
  ASSUME DecoderInv, NEW s, Takes(s), pos < LastToken
  PROVE  /\ pos' = pos + 1 /\ s \in Sectors /\ sector' = s
         /\ owed' = [done |-> pos # 0 /\ owed.done, error |-> owed.error]
<1>1. LastToken = SectorLen - 1 /\ LastToken \in Nat
  BY DecoderAssumption, SMT DEF SectorLen, LastToken, HeaderLen
<1>2. pos' = pos + 1 BY NextPosition DEF Takes, DecoderInv, Registers
<1>3. pos # SectorLen - 1 BY <1>1, SMT DEF DecoderInv, Registers
<1>4. owed.error \in BOOLEAN BY DEF DecoderInv, Owed
<1> QED BY <1>2, <1>3, <1>4 DEF Takes

LEMMA HeaderStep ==
  ASSUME DecoderInv, NEW s, Takes(s), Header(s[pos + 1]),
         out' = IF pos = 0 THEN <<>> ELSE out
  PROVE  DecoderInv'
<1>1. LastToken \in Nat /\ LastToken >= 9 /\ LastPad >= 8 /\ LastPad \in Nat
  BY DecoderAssumption, SMT DEF LastToken, LastPad, HeaderLen
<1>2. uf2_state = "HEADER" /\ pos \in 0 .. 7 /\ byte_count = pos /\ out' = <<>>
  BY <1>1, SMT DEF DecoderInv, Registers, HeaderRead, Header
<1>3. /\ pos' = pos + 1 /\ s \in Sectors /\ sector' = s
      /\ owed' = [done |-> pos # 0 /\ owed.done, error |-> owed.error]
  BY <1>1, <1>2, OwedMoves, SMT
<1>4. \A k \in 1 .. SectorLen : s[k] \in Nat BY <1>3, SectorTypes
<1>5. byte_count' = pos + 1
  BY <1>1, <1>2, NextPosition, SMT DEF Header, NextCount
<1>6. pos > 0 => s = sector BY DEF Takes
<1>7. Owed'
  <2>1. /\ owed' \in [done : BOOLEAN, error : BOOLEAN]
        /\ owed'.done = (pos # 0 /\ owed.done) /\ owed'.error = owed.error
    BY <1>3, Zenon DEF DecoderInv, Owed
  <2>2. done' = (done /\ pos # 0) /\ error' = error BY <1>2, Zenon DEF Header
  <2>3. pos > 0 => ~done BY Zenon DEF DecoderInv, Owed
  <2>4. pos = 0 \/ pos > 0 BY <1>2, SMT
  <2>5. ~done' BY <2>2, <2>3, <2>4, Zenon
  <2> QED BY <2>1, <2>2, <2>5, Zenon DEF Owed, DecoderInv
<1>8. uf2_state' = IF \/ pos = 0 /\ s[1] # MAGIC_START0
                      \/ pos = 1 /\ s[2] # MAGIC_START1
                      \/ pos = 7 /\ NotMainFlash(flags)
                     THEN "DISCARD" ELSE IF pos = 7 THEN "DATA" ELSE "HEADER"
  BY <1>2, SMT DEF Header, Foreign
<1>9. Registers'
  <2>1. uf2_state' \in {"HEADER", "DATA", "PAD", "FINAL", "DISCARD"} BY <1>8
  <2>2. data_count' \in Nat BY DEF DecoderInv, Registers, Header
  <2> QED BY <1>1, <1>2, <1>3, <1>5, <2>1, <2>2, SMT DEF Registers
<1>10. HeaderRead'
  BY <1>1, <1>2, <1>3, <1>4, <1>6, <1>8, SMT
     DEF HeaderRead, DecoderInv, Header, Field, Target
<1>11. CASE uf2_state' = "HEADER"
  BY <1>2, <1>3, <1>7, <1>9, <1>10, <1>11, SMT DEF DecoderInv, InBlock, InData, AfterData, InDiscard, AtEnd
<1>12. CASE uf2_state' = "DISCARD"
  <2>1. ~IsBlock(s)
    BY <1>1, <1>2, <1>6, <1>8, <1>12, SMT DEF IsBlock, DecoderInv, HeaderRead
  <2> QED
    BY <2>1, <1>2, <1>3, <1>7, <1>9, <1>10, <1>12, SMT
       DEF DecoderInv, InBlock, InData, AfterData, InDiscard, AtEnd
<1>13. CASE uf2_state' = "DATA"
  <2>1. pos = 7 /\ ~NotMainFlash(flags) BY <1>8, <1>13
  <2>2. /\ s[1] = MAGIC_START0 /\ s[2] = MAGIC_START1 /\ flags = s[3]
        /\ target_addr = (s[4] + base_addr) % AddrSpace /\ payload_size = s[5]
        /\ blockNo = s[6] /\ numBlocks = s[7]
    BY <1>2, <1>6, <2>1 DEF DecoderInv, HeaderRead
  <2>3. IsBlock(s) BY <1>3, <2>1, <2>2, SectorTypes DEF IsBlock
  <2>4. /\ target_addr' = target_addr /\ payload_size' = s[5] /\ data_count' = 0
        /\ blockNo' = s[6] /\ numBlocks' = s[7]
    BY <1>2, <2>1, <2>2 DEF Header, Field
  <2>5. InBlock' BY <2>3, <2>4, <1>3 DEF InBlock, IsBlock
  <2>6. Delivered(0)'
    <3>1. out' = <<>> /\ <<>> \in Seq(Nat \X Nat) /\ Len(<<>>) = 0 BY <1>2, SMT
    <3>2. 1 .. 0 = {} BY SMT
    <3> QED BY <3>1, <3>2 DEF Delivered
  <2>7. s[4] + base_addr + 0 = s[4] + base_addr /\ s[5] \in Nat /\ pos' = 8
    BY <2>1, <1>1, <1>3, <1>4, DecoderAssumption, SMT DEF SectorLen, HeaderLen
  <2>8. InData' BY <2>2, <2>4, <2>6, <2>7, <1>3, SMT DEF InData, HeaderLen
  <2> QED
    BY <2>5, <2>8, <1>7, <1>9, <1>10, <1>13, <1>2, <1>3, SMT
       DEF DecoderInv, AfterData, InDiscard, AtEnd
<1> QED BY <1>8, <1>11, <1>12, <1>13

\* The last token is the only one that settles the status.
LEMMA OwedStays ==
  ASSUME DecoderInv, NEW s, Takes(s), pos \in 1 .. LastToken - 1, done' = done, error' = error
  PROVE  Owed'
<1>1. LastToken \in Nat BY DecoderAssumption DEF LastToken, HeaderLen
<1>2. owed' = [done |-> pos # 0 /\ owed.done, error |-> owed.error]
  BY <1>1, OwedMoves, SMT
<1>3. /\ owed' \in [done : BOOLEAN, error : BOOLEAN]
      /\ owed'.done = (pos # 0 /\ owed.done) /\ owed'.error = owed.error
  BY <1>2, Zenon DEF DecoderInv, Owed
<1>4. pos # 0 /\ pos > 0 BY <1>1, SMT
<1> QED BY <1>3, <1>4, Zenon DEF DecoderInv, Owed

LEMMA DataStep ==
  ASSUME DecoderInv, ShortPayloads, NEW s, Takes(s), Data(s[pos + 1]),
         out' = out \o << <<target_addr, s[pos + 1]>> >>
  PROVE  DecoderInv'
<1>1. LastToken \in Nat /\ LastToken = HeaderLen + Room /\ LastPad = LastToken - 1 /\ Room \in Nat
  BY DecoderAssumption, SMT DEF LastToken, LastPad, HeaderLen
<1>2. /\ uf2_state = "DATA" /\ data_count \in Nat /\ data_count < payload_size
      /\ pos = HeaderLen + data_count /\ byte_count = pos /\ payload_size = sector[5]
      /\ target_addr = (sector[4] + base_addr + data_count) % AddrSpace
      /\ Delivered(data_count) /\ IsBlock(sector)
      /\ blockNo = sector[6] /\ numBlocks = sector[7] /\ sector \in Sectors
  <2>1. uf2_state = "DATA" /\ data_count # payload_size BY DEF Data, Emitting
  <2>2. data_count <= payload_size /\ payload_size = sector[5] /\ data_count \in Nat
        /\ pos = HeaderLen + data_count
    BY <2>1 DEF DecoderInv, Registers, InData
  <2>3. pos > 0 BY <2>2, SMT DEF HeaderLen
  <2>4. sector \in Sectors BY <2>3, SMT DEF DecoderInv, Registers
  <2>5. SectorLen \in Nat /\ SectorLen >= 10 BY DecoderAssumption DEF SectorLen, HeaderLen
  <2>6. payload_size \in Nat BY <2>2, <2>4, <2>5, SectorTypes, SMT
  <2>7. data_count < payload_size BY <2>1, <2>2, <2>6, SMT
  <2> QED BY <2>1, <2>2, <2>4, <2>7 DEF DecoderInv, Registers, InData, InBlock
<1>3. payload_size < Room BY <1>2 DEF ShortPayloads
<1>4. SectorLen \in Nat /\ SectorLen >= 10 /\ SectorLen = LastToken + 1
  BY <1>1, DecoderAssumption DEF SectorLen, HeaderLen
<1>5. s = sector /\ sector' = sector BY <1>2, SMT DEF Takes, HeaderLen
<1>6. /\ \A k \in 1 .. SectorLen : sector[k] \in Nat
      /\ base_addr \in Nat /\ AddrSpace \in Nat \ {0}
  BY <1>2, SectorTypes, DecoderAssumption
<1>7. pos \in 1 .. LastToken - 1 /\ pos < LastToken
  BY <1>1, <1>2, <1>3, <1>6, <1>4, SMT DEF HeaderLen
<1>8. pos' = pos + 1 /\ byte_count' = pos + 1
  BY <1>1, <1>2, <1>7, NextPosition, SMT DEF Data, NextCount, Takes
<1>9. Owed' BY <1>7, OwedStays DEF Data
<1>16. sector[4] \in Nat /\ sector[5] \in Nat /\ sector[pos + 1] \in Nat
  <2>1. 4 \in 1 .. SectorLen /\ 5 \in 1 .. SectorLen /\ pos + 1 \in 1 .. SectorLen
    BY <1>1, <1>4, <1>7, SMT
  <2> QED BY <2>1, <1>6
<1>17. /\ data_count \in Nat /\ base_addr \in Nat /\ AddrSpace \in Nat \ {0}
       /\ pos = HeaderLen + data_count /\ data_count < sector[5]
  BY <1>2, <1>6
<1>10. target_addr' = (sector[4] + base_addr + (data_count + 1)) % AddrSpace
  <2> DEFINE a == sector[4] + base_addr + data_count
  <2>1. a \in Nat BY <1>16, <1>17, SMT
  <2>2. target_addr' = ((a % AddrSpace) + 1) % AddrSpace BY <1>2 DEF Data
  <2>3. (sector[4] + base_addr + data_count) + 1 = sector[4] + base_addr + (data_count + 1)
    <3>1. \A x, y \in Nat : (x + y) + 1 = x + (y + 1) BY SMT
    <3>2. sector[4] + base_addr \in Nat BY <1>16, <1>17, SMT
    <3> QED BY <3>1, <3>2, <1>17, Zenon
  <2> HIDE DEF a
  <2>4. ((a % AddrSpace) + 1) % AddrSpace = (a + 1) % AddrSpace
    BY <2>1, <1>6, WrappedSuccessor
  <2> QED BY <2>2, <2>3, <2>4 DEF a
<1>11. Delivered(data_count)'
  <2> DEFINE e == <<target_addr, sector[pos + 1]>>
             n == data_count + 1
  <2>1. e = PayloadAt(sector, n)
    <3>1. sector[4] + base_addr + n - 1 = sector[4] + base_addr + data_count
      BY <1>2, <1>4, <1>6, SMT
    <3>2. HeaderLen + n = pos + 1 BY <1>2, SMT DEF HeaderLen
    <3> QED BY <3>1, <3>2, <1>2 DEF PayloadAt
  <2>2. e \in Nat \X Nat
    <3>1. sector[4] + base_addr + data_count \in Nat BY <1>16, <1>17, SMT
    <3>2. target_addr \in Nat
      <4> DEFINE a == sector[4] + base_addr + data_count
      <4>1. a \in Nat /\ target_addr = a % AddrSpace BY <3>1, <1>2
      <4> HIDE DEF a
      <4> QED BY <4>1, <1>6, SMT
    <3> QED BY <3>2, <1>16
  <2>3. out \in Seq(Nat \X Nat) /\ Len(out) = data_count
        /\ \A k \in 1 .. data_count : out[k] = PayloadAt(sector, k)
    BY <1>2 DEF Delivered
  <2>4. out' = out \o <<e>> BY <1>5
  <2> HIDE DEF e
  <2>5. out' \in Seq(Nat \X Nat) /\ Len(out') = n BY <2>2, <2>3, <2>4, <1>2, SMT
  <2>6. out'[n] = e
    <3>1. out' = Append(out, e) BY <2>2, <2>3, <2>4, AppendIsConcat
    <3>2. Append(out, e)[Len(out) + 1] = e BY <2>2, <2>3, AppendProperties
    <3> QED BY <3>1, <3>2, <2>3
  <2>7. \A k \in 1 .. data_count : out'[k] = out[k] BY <2>2, <2>3, <2>4, <1>17, SMT
  <2>8. \A k \in 1 .. n : k = n \/ k \in 1 .. data_count BY <1>2, SMT
  <2>9. \A k \in 1 .. n : out'[k] = PayloadAt(sector, k) BY <2>1, <2>3, <2>6, <2>7, <2>8
  <2>10. data_count' = n BY DEF Data
  <2> QED BY <2>5, <2>9, <2>10, <1>5 DEF Delivered, PayloadAt
<1>12. InData'
  <2>1. data_count' = data_count + 1 /\ payload_size' = payload_size BY DEF Data
  <2>2. data_count + 1 <= sector[5] BY <1>16, <1>17, SMT
  <2>3. pos' = HeaderLen + (data_count + 1) BY <1>2, <1>8, SMT DEF HeaderLen
  <2> QED BY <1>2, <1>5, <1>10, <1>11, <2>1, <2>2, <2>3 DEF InData, Delivered
<1>13. Registers' /\ uf2_state' = "DATA"
  <2>1. data_count' \in Nat /\ uf2_state' = "DATA" BY <1>2, <1>17, SMT DEF Data
  <2>2. pos' \in 1 .. LastToken BY <1>1, <1>7, <1>8, SMT
  <2> QED BY <1>2, <1>5, <1>8, <2>1, <2>2 DEF Registers
<1>14. InBlock' BY <1>2, <1>5 DEF Data, InBlock, IsBlock
<1>15. pos' > 0 BY <1>7, <1>8, <1>1, SMT
<1> QED
  BY <1>9, <1>12, <1>13, <1>14, <1>15, SMT DEF DecoderInv, HeaderRead, AfterData, InDiscard, AtEnd

LEMMA DataEndStep ==
  ASSUME DecoderInv, ShortPayloads, EndOfPayload
  PROVE  DecoderInv'
<1>1. LastToken \in Nat /\ LastPad = HeaderLen + Room - 1 /\ Room \in Nat
  BY DecoderAssumption, SMT DEF LastToken, LastPad, HeaderLen
<1>2. /\ uf2_state = "DATA" /\ uf2_state' = "PAD" /\ data_count = payload_size
      /\ UNCHANGED <<byte_count, data_count, blockNo, numBlocks, done, error, sector, pos, out,
                      owed>>
  BY DEF EndOfPayload, DataEnd, uf2_header
<1>3. /\ IsBlock(sector) /\ data_count = sector[5] /\ data_count \in Nat
      /\ pos = HeaderLen + data_count /\ Delivered(data_count)
  BY <1>2 DEF DecoderInv, Registers, InBlock, InData
<1>4. sector \in Sectors
  <2>1. pos # 0 BY <1>3, SMT DEF HeaderLen
  <2> QED BY <2>1 DEF DecoderInv, Registers
<1>5. data_count < Room BY <1>3, <1>4 DEF ShortPayloads
<1>6. pos \in HeaderLen .. LastPad /\ pos > 0 /\ pos # 0 BY <1>1, <1>3, <1>5, SMT DEF HeaderLen
<1>7. AfterData'
  BY <1>2, <1>3, <1>6 DEF AfterData, Delivered, PayloadAt
<1>8. Registers' BY <1>2, <1>6 DEF DecoderInv, Registers
<1>9. InBlock' BY <1>2 DEF DecoderInv, InBlock, IsBlock
<1>10. Owed' BY <1>2 DEF DecoderInv, Owed
<1> QED
  BY <1>2, <1>6, <1>7, <1>8, <1>9, <1>10 DEF DecoderInv, HeaderRead, InData, InDiscard, AtEnd

LEMMA PadStep ==
  ASSUME DecoderInv, NEW s, Takes(s), Pad(s[pos + 1]), out' = out
  PROVE  DecoderInv'
<1>1. LastToken \in Nat /\ LastPad = LastToken - 1
  BY DecoderAssumption, SMT DEF LastToken, LastPad, HeaderLen
<1>2. /\ uf2_state = "PAD" /\ pos \in HeaderLen .. LastPad /\ byte_count = pos
      /\ IsBlock(sector) /\ Delivered(sector[5])
      /\ uf2_state' = IF pos = LastPad THEN "FINAL" ELSE "PAD"
      /\ UNCHANGED <<data_count, blockNo, numBlocks, done, error>>
  BY DEF DecoderInv, Registers, InBlock, AfterData, Pad, uf2_header
<1>3. pos \in 1 .. LastToken - 1 /\ pos < LastToken BY <1>1, <1>2, SMT DEF HeaderLen
<1>4. pos' = pos + 1 /\ byte_count' = pos + 1
  BY <1>1, <1>2, <1>3, NextPosition, SMT DEF Pad, NextCount, Takes
<1>5. s = sector /\ sector' = sector BY <1>1, <1>3, SMT DEF Takes
<1>6. Owed' BY <1>2, <1>3, OwedStays
<1>7. AfterData'
  <2>1. uf2_state' = "PAD" => pos' \in HeaderLen .. LastPad
    BY <1>1, <1>2, <1>4, SMT DEF HeaderLen
  <2>2. uf2_state' = "FINAL" => pos' = LastToken BY <1>1, <1>2, <1>4, SMT
  <2> QED BY <2>1, <2>2, <1>2, <1>5 DEF AfterData, Delivered, PayloadAt
<1>8. pos' \in 1 .. LastToken /\ pos' # 0 BY <1>1, <1>3, <1>4, SMT
<1>9. Registers'
  BY <1>2, <1>4, <1>5, <1>8, <1>1, SMT DEF DecoderInv, Registers, Takes
<1>10. InBlock' BY <1>2, <1>5 DEF DecoderInv, InBlock, IsBlock
<1> QED
  BY <1>2, <1>6, <1>7, <1>8, <1>9, <1>10 DEF DecoderInv, HeaderRead, InData, InDiscard, AtEnd

LEMMA FinalStep ==
  ASSUME DecoderInv, NEW s, Takes(s), Final(s[pos + 1]), out' = out
  PROVE  DecoderInv'
<1>1. LastToken \in Nat /\ LastToken >= 9 /\ SectorLen = LastToken + 1
  BY DecoderAssumption, SMT DEF LastToken, SectorLen, HeaderLen
<1>2. /\ uf2_state = "FINAL" /\ pos = LastToken /\ byte_count = pos
      /\ IsBlock(sector) /\ Delivered(sector[5])
      /\ blockNo = sector[6] /\ numBlocks = sector[7]
  BY DEF DecoderInv, Registers, InBlock, AfterData, Final
<1>3. s = sector /\ sector' = sector /\ s \in Sectors BY <1>1, <1>2, SMT DEF Takes
<1>4. /\ byte_count' = 0 /\ uf2_state' = "HEADER" /\ data_count' = data_count
      /\ error' = (error \/ s[SectorLen] # MAGIC_END)
      /\ done' = (done \/ (s[SectorLen] = MAGIC_END /\ sector[6] = sector[7] - 1))
  <2>1. pos + 1 = SectorLen BY <1>1, <1>2
  <2> QED BY <2>1, <1>2 DEF Final
<1>5. pos' = 0 BY <1>1, <1>2, NextPosition, SMT DEF Takes
<1>6. owed' = [done |-> Ends(s), error |-> owed.error \/ BadEnd(s)]
  <2>1. pos = SectorLen - 1 BY <1>1, <1>2, SMT
  <2> QED BY <2>1, Zenon DEF Takes
<1>7. Owed'
  <2>1. owed'.done = Ends(s) /\ owed'.error = (owed.error \/ BadEnd(s)) BY <1>6, Zenon
  <2>2. Ends(s) \in BOOLEAN /\ BadEnd(s) \in BOOLEAN /\ owed.error \in BOOLEAN
    BY Zenon DEF Ends, BadEnd, DecoderInv, Owed
  <2>3. owed' \in [done : BOOLEAN, error : BOOLEAN] BY <1>6, <2>2, Zenon
  <2>4. ~done /\ done = owed.done /\ error = owed.error
    BY <1>1, <1>2, SMT DEF DecoderInv, Owed
  <2>5. Ends(s) <=> s[SectorLen] = MAGIC_END /\ sector[6] = sector[7] - 1
    BY <1>2, <1>3 DEF Ends
  <2>6. BadEnd(s) <=> s[SectorLen] # MAGIC_END BY <1>2, <1>3 DEF BadEnd
  <2>7. done' = owed'.done BY <1>4, <2>1, <2>4, <2>5, <2>2, Zenon
  <2>8. error' = owed'.error BY <1>4, <2>1, <2>4, <2>6, <2>2, Zenon
  <2>9. ~(pos' > 0) BY <1>5, SMT
  <2> QED BY <2>3, <2>7, <2>8, <2>9, Zenon DEF Owed
<1>8. Registers' BY <1>1, <1>3, <1>4, <1>5, SMT DEF DecoderInv, Registers
<1>9. AtEnd' BY <1>2, <1>3, <1>5 DEF AtEnd, IsBlock, Delivered, PayloadAt
<1>10. ~(pos' > 0) BY <1>5, SMT
<1> QED
  BY <1>4, <1>7, <1>8, <1>9, <1>10
     DEF DecoderInv, HeaderRead, InBlock, InData, AfterData, InDiscard

LEMMA DiscardStep ==
  ASSUME DecoderInv, NEW s, Takes(s), Discard(s[pos + 1]), out' = out
  PROVE  DecoderInv'
<1>1. LastToken \in Nat /\ LastToken >= 9 /\ SectorLen = LastToken + 1
  BY DecoderAssumption, SMT DEF LastToken, SectorLen, HeaderLen
<1>2. /\ uf2_state = "DISCARD" /\ pos \in 1 .. LastToken /\ byte_count = pos
      /\ ~IsBlock(sector) /\ out = <<>>
      /\ UNCHANGED <<data_count, done, error>>
  <2>1. uf2_state = "DISCARD" /\ pos # 0 /\ pos \in 0 .. LastToken
    BY DEF DecoderInv, Registers, Discard
  <2>2. pos \in 1 .. LastToken BY <1>1, <2>1, SMT
  <2> QED BY <2>1, <2>2 DEF DecoderInv, Registers, InDiscard, Discard
<1>3. s = sector /\ sector' = sector /\ s \in Sectors BY <1>1, <1>2, SMT DEF Takes
<1>4. CASE pos = LastToken
  <2>1. byte_count' = 0 /\ uf2_state' = "HEADER" BY <1>2, <1>4 DEF Discard
  <2>2. pos' = 0 BY <1>1, <1>4, NextPosition, SMT DEF Takes
  <2>3. Owed'
    <3>1. pos = SectorLen - 1 BY <1>1, <1>4, SMT
    <3>2. owed' = [done |-> Ends(s), error |-> owed.error \/ BadEnd(s)] BY <3>1, Zenon DEF Takes
    <3>3. Ends(s) = FALSE /\ BadEnd(s) = FALSE BY <1>2, <1>3, Zenon DEF Ends, BadEnd
    <3>4. owed.error \in BOOLEAN /\ (owed.error \/ FALSE) = owed.error
      BY Zenon DEF DecoderInv, Owed
    <3>5. /\ owed' \in [done : BOOLEAN, error : BOOLEAN]
          /\ ~owed'.done /\ owed'.error = owed.error
      BY <3>2, <3>3, <3>4, Zenon
    <3>6. ~done /\ error = owed.error /\ done \in BOOLEAN /\ owed'.done \in BOOLEAN
      BY <1>1, <1>2, <3>5, SMT DEF DecoderInv, Owed
    <3>7. ~(pos' > 0) BY <2>2, SMT
    <3> QED BY <1>2, <3>5, <3>6, <3>7, Zenon DEF Owed
  <2>4. Registers' BY <1>1, <1>2, <1>3, <2>1, <2>2, SMT DEF DecoderInv, Registers
  <2>5. AtEnd' BY <1>2, <1>3 DEF AtEnd, IsBlock
  <2>6. ~(pos' > 0) BY <2>2, SMT
  <2> QED
    BY <2>1, <2>3, <2>4, <2>5, <2>6
       DEF DecoderInv, HeaderRead, InBlock, InData, AfterData, InDiscard
<1>5. CASE pos # LastToken
  <2>1. pos < LastToken /\ pos \in 1 .. LastToken - 1 BY <1>1, <1>2, <1>5, SMT
  <2>2. uf2_state' = "DISCARD" BY <1>2, <1>5 DEF Discard
  <2>3. pos' = pos + 1 /\ byte_count' = pos + 1
    BY <1>1, <1>2, <1>5, <2>1, NextPosition, SMT DEF Discard, NextCount, Takes
  <2>4. Owed' BY <1>2, <2>1, OwedStays
  <2>5. pos' \in 1 .. LastToken /\ pos' # 0 BY <1>1, <2>1, <2>3, SMT
  <2>6. Registers' BY <1>1, <1>2, <1>3, <2>2, <2>3, <2>5, SMT DEF DecoderInv, Registers
  <2>7. InDiscard' BY <1>2, <1>3 DEF InDiscard, IsBlock
  <2> QED
    BY <2>2, <2>4, <2>5, <2>6, <2>7 DEF DecoderInv, HeaderRead, InBlock, InData, AfterData, AtEnd
<1> QED BY <1>4, <1>5

LEMMA ClearStep == ASSUME DecoderInv, ClearTransfer PROVE DecoderInv'
<1>1. /\ pos = 0 /\ pos' = pos /\ done' = FALSE /\ error' = FALSE
      /\ owed' = [done |-> FALSE, error |-> FALSE]
      /\ UNCHANGED <<uf2_state, byte_count, uf2_header, data_count, sector, out>>
  BY DEF ClearTransfer, Clear
<1>2. Owed'
  <2>1. owed'.done = FALSE /\ owed'.error = FALSE /\ owed' \in [done : BOOLEAN, error : BOOLEAN]
    BY <1>1, Zenon
  <2> QED BY <1>1, <2>1, Zenon DEF Owed
<1>3. uf2_state = "HEADER" BY <1>1 DEF DecoderInv, Registers
<1>4. Registers' BY <1>1 DEF DecoderInv, Registers
<1>5. AtEnd' BY <1>1 DEF DecoderInv, AtEnd, Delivered, PayloadAt, IsBlock
<1>6. ~(pos' > 0) BY <1>1, SMT
<1> QED
  BY <1>1, <1>2, <1>3, <1>4, <1>5, <1>6
     DEF DecoderInv, HeaderRead, InBlock, InData, AfterData, InDiscard

LEMMA TransferStep == ASSUME DecoderInv, ShortPayloads, [Next]_vars PROVE DecoderInv'
<1>1. SectorLen \in Nat /\ SectorLen >= 10 /\ LastToken = SectorLen - 1
  BY DecoderAssumption, SMT DEF SectorLen, LastToken, HeaderLen
<1>2. ASSUME NEW s, Takes(s), Consume(s[pos + 1]),
             out' = (IF pos = 0 THEN <<>> ELSE out) \o Emitted(s[pos + 1])
      PROVE  DecoderInv'
  <2>1. pos = 0 => uf2_state = "HEADER" BY DEF DecoderInv, Registers
  <2>2. \/ Emitting /\ Data(s[pos + 1]) /\ pos # 0
        \/ ~Emitting /\ Header(s[pos + 1])
        \/ ~Emitting /\ Pad(s[pos + 1]) /\ pos # 0
        \/ ~Emitting /\ Final(s[pos + 1]) /\ pos # 0
        \/ ~Emitting /\ Discard(s[pos + 1]) /\ pos # 0
    BY <1>2, <2>1 DEF Consume, Header, Data, Pad, Final, Discard, Emitting
  <2>3. CASE Emitting /\ Data(s[pos + 1]) /\ pos # 0
    BY <1>2, <2>3, DataStep DEF Emitted
  <2>4. ASSUME ~Emitting PROVE out' = IF pos = 0 THEN <<>> ELSE out
    <3>1. out' = (IF pos = 0 THEN <<>> ELSE out) \o <<>> BY <1>2, <2>4 DEF Emitted
    <3>2. pos = 0 \/ \E T : out \in Seq(T)
      <4>1. \A T : <<>> \in Seq(T) BY SMT
      <4>2. pos # 0 => out = <<>> \/ out \in Seq(Nat \X Nat)
        <5>1. pos # 0 => pos > 0 BY <1>1, SMT DEF DecoderInv, Registers
        <5> QED
          BY <5>1 DEF DecoderInv, Registers, HeaderRead, InData, AfterData, InDiscard, Delivered
      <4> QED BY <4>1, <4>2
    <3>3. \A T : \A q \in Seq(T) : q \o <<>> = q BY ConcatEmptySeq
    <3>4. \A T : <<>> \in Seq(T) BY SMT
    <3> QED BY <3>1, <3>2, <3>3, <3>4
  <2>5. CASE ~Emitting /\ Header(s[pos + 1]) BY <1>2, <2>4, <2>5, HeaderStep
  <2>6. CASE ~Emitting /\ Pad(s[pos + 1]) /\ pos # 0 BY <1>2, <2>4, <2>6, PadStep
  <2>7. CASE ~Emitting /\ Final(s[pos + 1]) /\ pos # 0 BY <1>2, <2>4, <2>7, FinalStep
  <2>8. CASE ~Emitting /\ Discard(s[pos + 1]) /\ pos # 0 BY <1>2, <2>4, <2>8, DiscardStep
  <2> QED BY <2>2, <2>3, <2>5, <2>6, <2>7, <2>8
<1>3. CASE StartSector
  <2>1. PICK s \in Sectors :
          /\ sector' = s /\ Consume(s[1]) /\ pos' = 1 /\ pos = 0 /\ out' = Emitted(s[1])
          /\ owed' = [owed EXCEPT !.done = FALSE]
    BY <1>3 DEF StartSector
  <2>2. pos + 1 = 1 /\ pos' = (pos + 1) % SectorLen /\ pos # SectorLen - 1 /\ ~(pos > 0)
    BY <1>1, <2>1, SMT
  <2>3. owed' = [done |-> FALSE, error |-> owed.error]
    <3>1. owed = [done |-> owed.done, error |-> owed.error] BY SMT DEF DecoderInv, Owed
    <3> QED BY <2>1, <3>1, Zenon
  <2>4. Takes(s)
    <3>1. owed.error \in BOOLEAN BY DEF DecoderInv, Owed
    <3> QED BY <2>1, <2>2, <2>3, <3>1 DEF Takes
  <2>5. out' = <<>> \o Emitted(s[pos + 1])
    <3>1. Emitted(s[1]) = <<>> BY <2>1 DEF Emitted, Emitting, DecoderInv, Registers
    <3>2. <<>> \o <<>> = <<>> BY SMT
    <3> QED BY <2>1, <2>2, <3>1, <3>2
  <2> QED BY <1>2, <2>1, <2>2, <2>4, <2>5
<1>4. CASE NextToken
  <2>1. pos > 0 /\ pos # 0 BY <1>4, SMT DEF NextToken
  <2>2. sector \in Sectors BY <2>1 DEF DecoderInv, Registers
  <2>3. Takes(sector) BY <1>4, <2>2, Zenon DEF Takes, NextToken, Advance
  <2> QED BY <1>2, <1>4, <2>1, <2>3 DEF NextToken, Advance
<1>5. CASE EndOfPayload BY <1>5, DataEndStep
<1>6. CASE ClearTransfer BY <1>6, ClearStep
<1>7. CASE UNCHANGED vars
  BY <1>7, SMTT(60) DEF vars, uf2, uf2_header, DecoderInv, Registers, HeaderRead, InBlock, InData, AfterData,
              InDiscard, AtEnd, Owed, IsBlock, Delivered, PayloadAt
<1> QED BY <1>3, <1>4, <1>5, <1>6, <1>7 DEF Next

-----------------------------------------------------------------------------

\* What each sector owes the writer, for any room and any mixture of sectors
\* whose blocks leave padding: exactly its payload, in order, at its addresses.
THEOREM SectorsDelivered == ASSUME ShortPayloads PROVE Spec => []SectorDelivered
<1>1. Init => DecoderInv BY InitHolds
<1>2. DecoderInv /\ [Next]_vars => DecoderInv' BY TransferStep
<1>3. DecoderInv => SectorDelivered
  <2> SUFFICES ASSUME DecoderInv PROVE SectorDelivered OBVIOUS
  <2>1. SectorLen \in Nat /\ SectorLen >= 10 BY DecoderAssumption DEF SectorLen, HeaderLen
  <2>2. ASSUME out = <<>>, pos = 0 => ~IsBlock(sector) PROVE SectorDelivered
    <3>1. Len(out) = 0 /\ 1 .. 0 = {} BY <2>2, SMT
    <3>2. CASE ~IsBlock(sector)
      <4>1. Payload(sector) = <<>> /\ Len(<<>>) = 0 BY <3>2, SMT DEF Payload
      <4> QED BY <3>1, <4>1, SMT DEF SectorDelivered
    <3>3. CASE IsBlock(sector)
      <4>1. pos # 0 BY <2>2, <3>3
      <4>2. sector \in Sectors BY <4>1 DEF DecoderInv, Registers
      <4>3. Len(Payload(sector)) \in Nat BY <3>3, <4>2, PayloadLength
      <4> QED BY <3>1, <4>1, <4>3, SMT DEF SectorDelivered
    <3> QED BY <3>2, <3>3
  <2>3. ASSUME IsBlock(sector), sector \in Sectors, NEW n \in Nat, n <= sector[5], Delivered(n),
               pos = 0 => n = sector[5]
        PROVE  SectorDelivered
    <3>1. /\ sector[5] \in Nat /\ Len(Payload(sector)) = sector[5]
          /\ \A k \in 1 .. sector[5] : Payload(sector)[k] = PayloadAt(sector, k)
      BY <2>3, PayloadLength
    <3>2. \A k \in 1 .. n : k \in 1 .. sector[5] BY <2>3, <3>1, SMT
    <3> QED BY <2>3, <3>1, <3>2 DEF SectorDelivered, Delivered
  <2>4. ASSUME sector \in Sectors, IsBlock(sector) PROVE sector[5] \in Nat /\ sector[5] <= sector[5]
    BY <2>4, PayloadLength, SMT
  <2>5. CASE pos = 0
    <3>1. CASE IsBlock(sector)
      <4>1. sector \in Sectors BY <3>1 DEF IsBlock, DecoderInv, Registers
      <4> QED BY <2>3, <2>4, <2>5, <3>1, <4>1 DEF DecoderInv, AtEnd
    <3>2. CASE ~IsBlock(sector) BY <2>2, <2>5, <3>2 DEF DecoderInv, AtEnd
    <3> QED BY <3>1, <3>2
  <2>6. CASE pos # 0
    <3>1. sector \in Sectors /\ pos > 0
      BY <2>6, DecoderAssumption, SMT DEF DecoderInv, Registers, LastToken, HeaderLen
    <3>2. CASE uf2_state \in {"HEADER", "DISCARD"}
      BY <2>2, <2>6, <3>1, <3>2 DEF DecoderInv, HeaderRead, InDiscard
    <3>3. CASE uf2_state = "DATA"
      BY <2>3, <2>6, <3>1, <3>3 DEF DecoderInv, Registers, InBlock, InData
    <3>4. CASE uf2_state \in {"PAD", "FINAL"}
      BY <2>3, <2>4, <2>6, <3>1, <3>4 DEF DecoderInv, InBlock, AfterData
    <3> QED BY <3>2, <3>3, <3>4 DEF DecoderInv, Registers
  <2> QED BY <2>5, <2>6
<1> QED BY <1>1, <1>2, <1>3, PTL DEF Spec

\* And the host: done and error as the sectors since the last clear call for.
THEOREM StatusesReported == ASSUME ShortPayloads PROVE Spec => []StatusReported
<1>1. Init => DecoderInv BY InitHolds
<1>2. DecoderInv /\ [Next]_vars => DecoderInv' BY TransferStep
<1>3. DecoderInv => StatusReported BY DEF DecoderInv, Owed, StatusReported
<1> QED BY <1>1, <1>2, <1>3, PTL DEF Spec

=============================================================================
