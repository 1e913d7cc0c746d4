SPECIFICATION Spec
CONSTANTS
  n1 = n1
  n2 = n2
  c1 = c1
  c2 = c2
  c3 = c3
  admin = admin
  Container = {c1, c2, c3}
  Admin = {admin}
  Node = {n1, n2}
  At <- MCAt
  Owned = TRUE
  NoShare = NoShare
  MaxRequests = 5
  MaxFailures = 2
SYMMETRY MCSymmetry
INVARIANTS
  TypeOK
  IntactUnlessDisturbed
  PermissionsBeforeUse
CHECK_DEADLOCK FALSE
