CONSTANTS
  NBanks = 1
  NRows = 1
  LastCol = 7
  u = u
  l = l
  Lanes <- MCLanes
  Byte <- MCByte
  InitMem <- MCInitMem
  PowerUpMode = Unset
  Inputs <- NoInputs
  Unset = Unset
  Closed = Closed
  NoData = NoData
  FETCHW = 2
  margin_x = 0
  refresh_max = 0
  refresh_warm_max = 2
  refresh_cool_max = 10
  BLITTER_COPY_SIZE = 2
  CaptureBase = 4
  CapturePitch = 4
  CaptureWidth = 1
  CaptureHeight = 2
  CaptureWords <- MCCaptureWords
  HostOps <- ReadOps
  dataout_time = 0
  ResetCapture = FALSE
  ResetAllowed = TRUE
  Pause = 0
  LineGap = 2
  Lines = 1
  SafeArea <- Always
  Programs <- NoProgram
SPECIFICATION CardSpec
PROPERTIES
  Recovers
