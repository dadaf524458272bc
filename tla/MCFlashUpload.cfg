SPECIFICATION Spec
CONSTANTS
  Blocks = 2
  None = None
  Pages = 2
  PageSize = 2
  Byte <- MCByte
  BitAnd <- MCBitAnd
  Contents <- MCContents
  Payload <- MCPayload
  MaxBytes = 3
  MaxSessions = 2
  MaxResets = 0
INVARIANTS
  TypeOK
  CommandReady
  FlushedImage
  ProgramsErasedCells
PROPERTIES
  OnlyUploadedBlocks
  FlushCompletes
  ImplementsStore
CHECK_DEADLOCK FALSE
