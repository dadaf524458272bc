---------------------------- MODULE UF2Transfer -----------------------------
(***************************************************************************)
(* UF2Decoder fed whole sectors, with the transfer-level clear between     *)
(* them where SCSIHandler's DISPATCH may put it, against what the UF2      *)
(* format says each sector means. AbortSpec adds the bus reset that        *)
(* backends/uf2_msc.py turns into a clear: the SCSI handler starts over    *)
(* with a new sector, the decoder keeps its place in the old one.          *)
(***************************************************************************)
EXTENDS UF2Decoder

CONSTANT Sectors   \* the sectors a host may write

ASSUME SectorsAssumption == Sectors \subseteq [1 .. SectorLen -> Word]

VARIABLES
  sector,   \* the sector being written or the last one written; <<>> if none
  pos,      \* tokens of it that went in
  out,      \* history: (address, byte) pairs it put on the output
  owed      \* history: the done and error the sectors since the clear call for

vars == <<uf2, sector, pos, out, owed>>

Init ==
  /\ UF2Init
  /\ sector = <<>> /\ pos = 0 /\ out = <<>>
  /\ owed = [done |-> FALSE, error |-> FALSE]

-----------------------------------------------------------------------------
(* What the format says of a sector. *)

IsBlock(s) ==
  /\ s # <<>>
  /\ s[1] = MAGIC_START0 /\ s[2] = MAGIC_START1 /\ ~NotMainFlash(s[3])

Payload(s) ==
  IF IsBlock(s)
    THEN [k \in 1 .. s[5] |-> <<(s[4] + base_addr + k - 1) % AddrSpace, s[HeaderLen + k]>>]
    ELSE <<>>

BadEnd(s)  == IsBlock(s) /\ s[SectorLen] # MAGIC_END
Ends(s)    == IsBlock(s) /\ s[SectorLen] = MAGIC_END /\ s[6] = s[7] - 1

-----------------------------------------------------------------------------
Emitted(t) == IF Emitting THEN << <<target_addr, t>> >> ELSE <<>>

\* The next token goes in; the last one settles what the sector called for.
Advance(s) ==
  /\ Consume(s[pos + 1])
  /\ pos' = (pos + 1) % SectorLen
  /\ owed' = [done  |-> IF pos = SectorLen - 1 THEN Ends(s) ELSE pos # 0 /\ owed.done,
              error |-> owed.error \/ (pos = SectorLen - 1 /\ BadEnd(s))]

StartSector ==
  /\ pos = 0
  /\ \E s \in Sectors :
       /\ sector' = s
       /\ Consume(s[1])
       /\ pos' = 1
       /\ out' = Emitted(s[1])
       /\ owed' = [owed EXCEPT !.done = FALSE]

NextToken ==
  /\ pos > 0
  /\ Advance(sector)
  /\ out' = out \o Emitted(sector[pos + 1])
  /\ UNCHANGED sector

EndOfPayload == DataEnd /\ UNCHANGED <<sector, pos, out, owed>>

ClearTransfer ==
  /\ pos = 0
  /\ Clear
  /\ owed' = [done |-> FALSE, error |-> FALSE]
  /\ UNCHANGED <<sector, pos, out>>

Next == StartSector \/ NextToken \/ EndOfPayload \/ ClearTransfer

Spec == Init /\ [][Next]_vars

\* Packets go in whole, and the first of a sector holds all of its header.
Abort ==
  /\ pos >= HeaderLen
  /\ Clear
  /\ owed' = [done |-> FALSE, error |-> FALSE]
  /\ sector' = <<>> /\ pos' = 0 /\ out' = <<>>

AbortSpec == Init /\ [][Next \/ Abort]_vars

-----------------------------------------------------------------------------

\* Exactly the payload of each block for main flash comes out, every byte at
\* its own address and in order, and nothing of any other sector: no header,
\* padding or magic is taken for payload, and no payload byte is lost.
SectorDelivered ==
  /\ Len(out) <= Len(Payload(sector))
  /\ \A k \in 1 .. Len(out) : out[k] = Payload(sector)[k]
  /\ pos = 0 => Len(out) = Len(Payload(sector))

\* After each sector the status says what the sectors since the last clear
\* amount to: an error stays until the clear, done is for the block that was
\* numbered last and only until another sector starts.
StatusReported == pos = 0 => done = owed.done /\ error = owed.error

=============================================================================
