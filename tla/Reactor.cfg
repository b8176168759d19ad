SPECIFICATION Spec
CONSTANTS
  Kinds = {"small", "big", "read", "readfull", "notify", "cancel", "closedir", "smb1", "violation", "unsync"}
  MaxFrames = 3
  MaxRecv = 2
  MaxBreaks = 1
  MaxNotifs = 1
  RxCap = 2
  TX_FLUSH = 3
  ZC_SEND_MIN = 2
  HDR = 2
  ZLEN = 2
  PIPE_CAP = 2
  SendZcOk = TRUE
  Faults = {"eintr", "enobufs", "drop", "io", "nopipe", "nowatch"}
  None = None
INVARIANTS
  InflightExact
  TxPinned
  StreamWellFormed
  InOrder
  PipeClean
  DupsOwned
  NeverDeaf
CHECK_DEADLOCK FALSE
