SPECIFICATION Spec
CONSTANTS
  Conns = {c1, c2, c3}
  Third = c3
  Sids = {s1, s2}
  Users = {u1, u2}
  Principal = krb
  Guest = guest
  MaxTrees = 1
  MaxOpens = 1
  MAX_PENDING_SETUPS = 1
  None = None
CONSTRAINT Few
SYMMETRY Symmetry
INVARIANTS
  ChannelCount
  RegistryOwned
  NoOrphanOpens
  BindingProven
  SealedAlways
  SingleChannelAlive
