SPECIFICATION Spec
CONSTANTS
  n1 = n1
  n2 = n2
  db1 = db1
  snap1 = snap1
  Node = {n1, n2}
  Name = {db1, snap1}
  NoName = NoName
  Block = {"DEFAULT", "array2"}
  File = {"DEFAULT_FILE"}
  Replicated = {"array2"}
  Request <- MCRequest
  Limit <- MCLimit
  Creates = 2
  Removes = 2
  Lookups = 1
  Faults = 1
SYMMETRY MCSymmetry
INVARIANTS
  TypeOK
  NoOrphan
  SnapshotWithSource
CHECK_DEADLOCK FALSE
