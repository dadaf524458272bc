SPECIFICATION Spec
CONSTANTS
  Blocks = 2
  Pages = 2
  PageSize = 2
  Byte <- MCByte
  BitAnd <- MCBitAnd
  Header <- MCHeader
  HeaderBase <- MCHeaderBase
  SectorPages = 1
  MaxCsCycles = 6
  OctetCycles = 1
  TCEM = 9
  Payload <- MCPayload
  Contents <- MCContents
  MaxBytes = 3
  MaxUploads = 2
  MaxResets = 1
INVARIANTS
  HeaderEnsured
CHECK_DEADLOCK FALSE
