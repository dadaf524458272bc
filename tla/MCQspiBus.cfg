SPECIFICATION Spec
CONSTANTS
  Blocks = 1
  Pages = 1
  PageSize = 2
  Byte <- MCByte
  BitAnd <- MCBitAnd
  Contents <- MCContents
  Image <- MCImage
  IdleHold = 2
  Radix = 2
  Transactions <- MCTransactions
  MPS = 2
  RBUF = 4
  Execs <- MCExecs
  MaxOps = 4
INVARIANTS
  OneOwner
  AnswersOwn
  UploadWhole
PROPERTIES
  OpsComplete
CHECK_DEADLOCK FALSE
