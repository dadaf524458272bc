SPECIFICATION Spec
CONSTANTS
  Divisor = 4
  Latency = 4
  Bits = 2
  SettleCycles = 30
  UidBytes = 2
  DummyBytes = 1
  PageLen = 10
  ProbeLen = 4
  SyncWord <- MCSync
  PoisonWord <- MCPoison
  Key <- MCKey
  MaxLen = 4
  PacketSize = 4
  Boards <- MCBoards
  Uids <- MCUids
  SecPages <- MCSecPages
  Slots <- MCSlots
  RES1 = 30
  WLengths = {2, 5, 8, 255}
INVARIANTS
  FramesMeant
  RepliesOwn
  DecisionRight
  DescriptorOfFlash
PROPERTIES
  Boots
