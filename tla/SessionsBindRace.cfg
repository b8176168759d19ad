SPECIFICATION Spec
CONSTANTS
  Conns = {c1, c2}
  Third = None
  Sids = {s1, s2}
  Users = {u1, u2}
  Principal = krb
  Guest = guest
  MaxTrees = 1
  MaxOpens = 1
  MAX_PENDING_SETUPS = 1
  None = None
SYMMETRY Symmetry
INVARIANT TornDownWithLastChannel
