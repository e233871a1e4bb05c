CONSTANTS
  Requests = {r1, r2}
  Paths = {p1, p2}
  Secrets = {s1, s2}
  None = None
  Torn = Torn
  MaxEntries = 3
  MaxFaults = 1
SYMMETRY MCSymmetry
SPECIFICATION Spec
INVARIANTS TypeOK ExportIsSnapshot MergeKeeps
  ImportedIsSaved
