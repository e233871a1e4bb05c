SPECIFICATION Spec
CONSTANTS
  Commands = {c1, c2, c3, c4}
  Kinds = {"start", "stop", "run"}
  PidErrors = TRUE
  MaxCrashes = 1
  None = None
SYMMETRY Symmetry
INVARIANTS
  OrderlyOneDaemon
  OrderlyReachable
  OrderlyStarts
CHECK_DEADLOCK FALSE
