SPECIFICATION Spec
CONSTANTS
  c1 = c1
  c2 = c2
  reader = reader
  k1 = k1
  k2 = k2
  Providers <- MCProviders
  KeyOf <- MCKeyOf
  ReadOnly = {reader}
  Migrating = {c1}
  Paths <- MCPaths
  Prefixes <- MCPrefixes
  Lower <- MCLower
  Values = {v1}
  Nil = Nil
  MaxFaults = 1
INVARIANTS
  TypeOK
  ReadsAreRight
  NothingLost
  ListIsComplete
