CONSTANTS
  Paths = {p1, p2}
  Values = {v1, v2}
  Refs = {r1, r2, r3, r4, r5}
  Holders = {h1, h2}
  Nil = Nil
SYMMETRY MCSymmetry
SPECIFICATION Spec
INVARIANTS Separate
PROPERTIES IsAMap
