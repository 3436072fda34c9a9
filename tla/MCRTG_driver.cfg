CONSTANTS
  NULL = NULL
  Capture = Capture
  ConfigDevs <- MCConfigDevs
  Entries <- MCEntries
  MemBytes <- MCMemBytes
  BLITTER_COPY_SIZE = 2
  MaxUsers = 2
  Scripts <- MCScripts
  MNTVA_COLOR_15BIT = 4
SPECIFICATION FairSpec
INVARIANTS
  DriverTypeOK
  DrawnRight
  NoBlitInCapture
  
  
  
  PanExact
  PaletteRight
  
  LibraryLives
PROPERTY
  CallsEnd
CHECK_DEADLOCK FALSE
