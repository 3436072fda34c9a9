CONSTANTS
  NBanks = 1
  NRows = 2
  LastCol = 7
  u = u
  l = l
  Lanes <- MCLanes
  Byte <- MCByte
  InitMem <- MCInitMem
  PowerUpMode = Unset
  Inputs <- NoInputs
  Unset = Unset
  Closed = Closed
  NoData = NoData
  FETCHW = 2
  margin_x = 0
  refresh_max = 1
  refresh_warm_max = 10
  refresh_cool_max = 10
  BLITTER_COPY_SIZE = 2
  CaptureBase = 8
  CapturePitch = 4
  CaptureWidth = 1
  CaptureHeight = 2
  CaptureWords <- MCCaptureWords
  HostOps <- FillWriteOps
  dataout_time = 2
  ResetCapture = FALSE
  ResetAllowed = FALSE
  Pause = 0
  LineGap = 2
  Lines = 2
  SafeArea <- Always
  Programs <- FillPrograms
SPECIFICATION CardSpec
PROPERTIES
  HostSeesMemory
