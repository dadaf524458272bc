SPECIFICATION AbortSpec
CONSTANTS
  Room = 4
  Word <- MCWord
  MAGIC_START0 = 20
  MAGIC_START1 = 21
  MAGIC_END = 22
  base_addr = 2
  AddrSpace = 8
  Sectors <- WholeBlocks
INVARIANTS
  SectorDelivered
