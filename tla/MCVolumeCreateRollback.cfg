SPECIFICATION Spec
CONSTANTS
  v1 = v1
  v2 = v2
  v3 = v3
  r1 = r1
  Volume = {v1, v2, v3}
  Ref = {r1}
  None = None
  Free = Free
  Limit <- MCLimit
  Failures = 1
  UndoFailures = 0
  Timeouts = 0
  Removals = 0
INVARIANT
  FailureIsRolledBack
CHECK_DEADLOCK FALSE
