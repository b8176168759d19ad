SPECIFICATION FairSpec
CONSTANTS
  Kinds = {"notify", "cancel"}
  MaxFrames = 2
  MaxRecv = 2
  MaxBreaks = 0
  MaxNotifs = 2
  RxCap = 2
  TX_FLUSH = 3
  ZC_SEND_MIN = 2
  HDR = 2
  ZLEN = 2
  PIPE_CAP = 2
  SendZcOk = TRUE
  Faults = {}
  None = None
PROPERTIES
  DeferredSent
CHECK_DEADLOCK FALSE
