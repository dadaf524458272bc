SPECIFICATION ResetSpec
CONSTANTS
  Blocks = 2
  None = None
  Pages = 2
  PageSize = 2
  Byte <- MCByte
  BitAnd <- MCBitAnd
  Contents <- MCContents
  Payload <- MCPayload
  MaxBytes = 2
  MaxSessions = 1
  MaxResets = 1
INVARIANTS
  ProgramsErasedCells
CHECK_DEADLOCK FALSE
