SPECIFICATION Spec
CONSTANTS
  db1 = db1
  snap1 = snap1
  copy1 = copy1
  volume = volume
  snapshot = snapshot
  c1 = c1
  c2 = c2
  c3 = c3
  Call = {volume, snapshot, c1, c2, c3}
  Name = {db1, snap1, copy1}
  Request <- MCRequest
  Past = {volume, snapshot}
  PastRequest <- MCPastRequest
  PastParent <- MCPastParent
  None = None
  Free = Free
  Limit <- MCLimit
  Failures = 2
  Expiries = 1
SYMMETRY MCSymmetry
INVARIANTS
  TypeOK
  UniqueUnlessCloned
  NothingLost
PROPERTY
  BackReferenceKept
CHECK_DEADLOCK FALSE
