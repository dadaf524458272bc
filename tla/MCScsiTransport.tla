-------------------------- MODULE MCScsiTransport ---------------------------
(* Commands for ScsiTransport. INQUIRY's ROM answer is three bytes: asked for
   in part, in whole, and with whole packets of zeros after it. *)
EXTENDS ScsiTransport

OP_INQUIRY == 83
OP_UNKNOWN == 89

MCRomOps == {OP_INQUIRY}
MCRomLength == [op \in MCRomOps |-> 3]

Cmd(op, length, lba) == [op |-> op, length |-> length, lba |-> lba]

MCCommands ==
  {Cmd(OP_TEST_UNIT_READY, 0, 0), Cmd(OP_UNKNOWN, 0, 0)}
  \cup {Cmd(OP_INQUIRY, n, 0) : n \in {1, 2, 3, 6}}
  \cup {Cmd(OP_READ_10, n, a) : n \in {4, 8}, a \in {0, 1, 2}}
  \cup {Cmd(OP_WRITE_10, n, a) : n \in {4, 8}, a \in {0, 2}}

Padded == {Cmd(OP_INQUIRY, 5, 0)}

=============================================================================
