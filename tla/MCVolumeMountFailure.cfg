SPECIFICATION Spec
CONSTANTS
  n1 = n1
  n2 = n2
  c1 = c1
  c2 = c2
  c3 = c3
  Node = {n1, n2}
  MountId = {c1, c2, c3}
  NodeOf <- MCNodeOf
  NoNode = NoNode
  Absent = Absent
  Free = Free
  Dead = Dead
  Delay = 1
  Multipath = TRUE
  Limit <- MCLimit
  Requests = 5
  Timeouts = 0
  Expiries = 0
  Failures = 2
SYMMETRY MCSymmetry
INVARIANT
  FencedUse
PROPERTY
  NotWipedInUse
CHECK_DEADLOCK FALSE
