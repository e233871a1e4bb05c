SPECIFICATION CallSpec
CONSTANTS
  Paths = {p1, p2}
  Values = {v1, v2}
  Passwords = {pw1, pw2}
  Nil = Nil
  Absent = Absent
  Torn = Torn
  TornWrites = TRUE
  MaxSalts = 4
  MaxFaults = 3
SYMMETRY Symmetry
INVARIANTS
  ReadsAreRight
  PasswordRight
  NothingLost
  CleanMeansSaved
  IndInv
PROPERTY CallsAsPromised
