SPECIFICATION Spec
CONSTANTS
  Workers = {w1, w2}
  Slots = {s1}
  Clients = {a, b}
  Files = {f}
  Conns = {c1, c2}
  None = None
  Workloads <- Writing
  MaxOpens = 2
  MaxChannels = 1
  Reconnects = FALSE
  MaxChanges = 1
  MaxWire = 1
  GEN_MAX = 3
  MetaCached = FALSE
SYMMETRY Symmetry
INVARIANTS
  Coherent
CHECK_DEADLOCK FALSE
