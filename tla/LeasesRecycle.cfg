SPECIFICATION Spec
CONSTANTS
  Workers = {w1}
  Slots = {s1, s2}
  Clients = {a, b}
  Files = {f}
  Conns = {c1, c2, c3}
  None = None
  Workloads <- Overwriting
  MaxOpens = 1
  MaxChannels = 1
  Reconnects = TRUE
  MaxChanges = 1
  MaxWire = 1
  GEN_MAX = 3
  MetaCached = FALSE
SYMMETRY Symmetry
INVARIANTS
  NoDeadGrant
  BreakRouted
CHECK_DEADLOCK FALSE
