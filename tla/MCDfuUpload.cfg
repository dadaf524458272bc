SPECIFICATION Spec
CONSTANTS
  Octet = {1, 2, 3, 4, 5, 6, 7, 9, 10}
  Areas <- OneArea
  AddrSpace = 12
  Depth = 4
  StatusSpace = 2
  Blocks = 3
  Pages = 2
  PageSize = 2
  Byte <- MCByte
  BitAnd <- MCBitAnd
  Contents <- MCContents
  Images <- TwoImages
  TransferSize = 2
  MaxPacket0 = 1
  MaxDownloads = 2
  MaxResets = 0
INVARIANTS
  DownloadPlaced
  FlashedAtBoot
PROPERTIES
  Answered
  Reboots
CHECK_DEADLOCK FALSE
