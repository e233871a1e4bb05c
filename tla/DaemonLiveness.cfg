SPECIFICATION FairSpec
CONSTANTS
  Requests = {r1, r2, r3}
  Kinds <- LiveKinds
  SaveErrors = FALSE
  Signals = FALSE
  None = None
PROPERTIES
  Answered
  EventuallyLocked
CHECK_DEADLOCK FALSE
