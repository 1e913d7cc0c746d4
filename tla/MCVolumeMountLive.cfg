SPECIFICATION FairSpec
CONSTANTS
  n1 = n1
  n2 = n2
  c1 = c1
  c2 = c2
  c3 = c3
  Node = {n1, n2}
  MountId = {c1, c2, c3}
  NodeOf <- MCNodeOf
  NoNode = NoNode
  Absent = Absent
  Free = Free
  Dead = Dead
  Delay = 1
  Multipath = TRUE
  Limit <- MCLimit
  Requests = 2
  Timeouts = 1
  Expiries = 1
  Failures = 1
PROPERTY
  RequestReturns
CHECK_DEADLOCK FALSE
