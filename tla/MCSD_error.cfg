CONSTANTS
  Addresses <- MCAddresses
  Blocks <- MCBlocks
  LoSize = 4
  DataBytes = 2
  OldCells <- MCOldCells
  Noise = Noise
  ProblemValues = 3
  Callers <- MCCallers
  TagBlock <- MCTagBlock
  SD_RETRY = 2
  SD_HEADS = 1
  SD_CYLS = 6
  SD_TRACK_SECTORS = 5
  ByteValues = 4
  MaxChanges = 1
  A = A
  B = B
  Old = Old
SPECIFICATION Spec
INVARIANT ErrorsNotIgnored
