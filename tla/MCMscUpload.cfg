SPECIFICATION Spec
CONSTANTS
  RomOps = {}
  RomLength <- NoRom
  BlockCount = 2
  SectorSize = 16
  MaxPacket = 8
  Room = 7
  Word <- MCWord
  MAGIC_START0 = 20
  MAGIC_START1 = 21
  MAGIC_END = 22
  base_addr = 4
  AddrSpace = 12
  Blocks = 3
  Pages = 2
  PageSize = 2
  Byte <- MCByte
  BitAnd <- MCBitAnd
  Contents <- MCContents
  Files <- AlignedFiles
  Strays <- OneStray
  MaxExtra = 1
  MaxResets = 1
INVARIANTS
  FlashedAtBoot
  BootsAfterUpload
PROPERTIES
  LoaderUntouched
  Reboots
CHECK_DEADLOCK FALSE
