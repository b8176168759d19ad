SPECIFICATION Spec
CONSTANTS
  Workers = {w1, w2}
  Slots = {s1}
  Clients = {a, b}
  Files = {f, g}
  Conns = {c1, c2}
  None = None
  Workloads <- Changing
  MaxOpens = 1
  MaxChannels = 1
  Reconnects = FALSE
  MaxChanges = 1
  MaxWire = 1
  GEN_MAX = 3
  MetaCached = FALSE
SYMMETRY Symmetry
INVARIANTS
  LeaseTracked
  Coherent
  NoLostWake
  NothingStuck
CHECK_DEADLOCK FALSE
