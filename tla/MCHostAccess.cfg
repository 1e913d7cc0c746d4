SPECIFICATION Spec
CONSTANTS
  v1 = v1
  v2 = v2
  p1 = p1
  p2 = p2
  Volume = {v1, v2}
  Port = {p1, p2}
  Lun = {0, 1}
  Protocols = {"fc", "iscsi", "multipath"}
  Own = Own
  Other = Other
  None = None
  Limit <- MCLimit
  Failures = 2
  Requests = 6
SYMMETRY MCSymmetry
INVARIANTS
  TypeOK
  AttachedIsReachable
  DetachedIsGone
  LunsAgree
  NoIdleHost
CHECK_DEADLOCK FALSE
