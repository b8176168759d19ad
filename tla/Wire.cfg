SPECIFICATION WireSpec
CONSTANTS
  None = None
  Unset = Unset
  U64_MAX = 6
  MSG_WINDOW = 5
  MSG_SEEN_MAX = 2
  CREDIT_WINDOW = 3
  MAX_COMPOUND = 2
  Charges = {0, 1, 2, 3}
  CreditReqs = {0, 4}
  Reorder = 3
  CancelReqs = {0, 1}
  MaxCancels = 1
  MaxSids = 2
  MaxMembers = 2
  MaxFrames = 2
  MaxPushes = 1
  Offers <- NegotiateOffers
  Setups = {s1, s2}
  MaxLegs = 2
  MaxTries = 2
  MaxAlters = 1
INVARIANTS
  NoReplay
  GapsGivenUpOnlyWhenFull
  SeenBounded
  SettleIsTheLoop
  CreditConservation
  ConformingNeverRefused
  ServedAuthentic
  ResultsProtected
  HandshakeAgrees
PROPERTY
  NonceFresh
CHECK_DEADLOCK FALSE
