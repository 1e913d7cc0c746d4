SPECIFICATION Spec
CONSTANTS
  v1 = v1
  v2 = v2
  v3 = v3
  r1 = r1
  Volume = {v1, v2, v3}
  Ref = {r1}
  None = None
  Free = Free
  Limit <- MCLimit
  Failures = 1
  UndoFailures = 1
  Timeouts = 1
  Removals = 2
SYMMETRY MCSymmetry
INVARIANTS
  TypeOK
  FailedLeavesNothing
  ReplicatedIsInGroup
  GroupReplicates
  OneRecordPerRef
CHECK_DEADLOCK FALSE
