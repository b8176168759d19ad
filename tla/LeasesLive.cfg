SPECIFICATION FairSpec
CONSTANTS
  Workers = {w1, w2}
  Slots = {s1}
  Clients = {a, b}
  Files = {f}
  Conns = {c1, c2}
  None = None
  Workloads <- Writing
  MaxOpens = 1
  MaxChannels = 1
  Reconnects = FALSE
  MaxChanges = 1
  MaxWire = 1
  GEN_MAX = 3
  MetaCached = FALSE
PROPERTIES
  EventuallyCoherent
CHECK_DEADLOCK FALSE
