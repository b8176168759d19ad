SPECIFICATION FairSpec
CONSTANTS
  Kinds = {"small", "big", "read", "readfull", "notify", "smb1"}
  MaxFrames = 2
  MaxRecv = 2
  MaxBreaks = 1
  MaxNotifs = 2
  RxCap = 2
  TX_FLUSH = 3
  ZC_SEND_MIN = 2
  HDR = 2
  ZLEN = 2
  PIPE_CAP = 2
  SendZcOk = TRUE
  Faults = {"eintr", "drop", "io"}
  None = None
PROPERTIES
  ClosingEnds
  FramesProcessed
  DeferredSent
CHECK_DEADLOCK FALSE
