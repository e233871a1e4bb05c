CONSTANTS
  Clients = {c1, c2}
  Lax = {c2}
  a = a
  ab = ab
  Paths = {a, ab}
  Inside <- MCInside
  Root = Root
  s1 = s1
  s2 = s2
  Secrets = {s1, s2}
  Inodes = {i1, i2, i3, i4}
  None = None
  MaxFaults = 1
SYMMETRY MCSymmetry
SPECIFICATION Spec
INVARIANTS TypeOK SettledOnDisk SettledReads
PROPERTIES ListIsComplete
