SPECIFICATION Spec
CONSTANTS
  Requests = {r1, r2, r3, r4}
  Kinds <- AllKinds
  SaveErrors = TRUE
  Signals = TRUE
  None = None
SYMMETRY Symmetry
INVARIANTS
  UnlockedIsGuarded
  CheckedStaysUnlocked
  MutexComesBack
  ServerInv
