SPECIFICATION Spec
CONSTANTS
  c1 = c1
  c2 = c2
  good = good
  better = better
  short = short
  key = key
  query = query
  v1 = v1
  v2 = v2
  Commands = {c1, c2}
  Ops = {"init", "unlock", "passwd", "get", "set", "delete", "lock", "status", "list", "search"}
  Passwords = {good, better, short}
  LongEnough = {good, better}
  Names = {key, query}
  Named <- MCNamed
  Values = {v1, v2}
  None = None
SYMMETRY Symmetry
INVARIANTS
  TypeOK
  DefiniteFailures
PROPERTIES
  SuccessIsTrue
  FailureIsTrue
  PasswordIsHandedOn
