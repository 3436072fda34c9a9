CONSTANTS
  NBanks = 2
  NRows = 2
  LastCol = 1
  u = u
  l = l
  Lanes <- MCLanes
  Byte <- MCByte
  InitMem <- MCInitMem
  PowerUpMode = 0
  Inputs <- SingleInputs
  Unset = Unset
  Closed = Closed
  NoData = NoData
SPECIFICATION SDRAMSpec
INVARIANTS
  TypeOK
  CommandsLegal
  RightRowOpen
  WriteDrivesBus
  NoOverwrite
  AnswersAreWords
PROPERTIES
  ServesInOrder
  ReadyAgain
