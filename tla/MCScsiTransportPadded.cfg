SPECIFICATION Spec
CONSTANTS
  RomOps <- MCRomOps
  RomLength <- MCRomLength
  BlockCount = 2
  SectorSize = 4
  MaxPacket = 2
  Commands <- Padded
  Tags = {1, 2}
  WriteData = {0, 1}
  Corrupt = {1}
INVARIANT
  DataAnswersCommand
