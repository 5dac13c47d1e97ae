CONSTANTS
  c1 = c1
  c2 = c2
  Calls = {c1, c2}
  NoCall = NoCall
  MaxConnections = 2
  Failures = {"IO"}
  WakeMayFail = TRUE
SPECIFICATION Spec
SYMMETRY CallSymmetry
INVARIANTS
  RefsExact
  PairOwned
  Agreement
  NothingStranded
  ServerOutlivesConnectors
CHECK_DEADLOCK FALSE
