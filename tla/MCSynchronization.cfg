SPECIFICATION FairSpec
CONSTANTS
  v = v
  s = s
  first = first
  second = second
  third = third
  Name = {v, s}
  Call = {first, second, third}
  Plan <- MCInverted
  Free = Free
  Dead = Dead
  Ttl = 3
  Patience = 3
  BodyTicks = 1
  Failures = 1
INVARIANTS
  TypeOK
  OverlapNeedsExpiry
  HeldFromInside
  
PROPERTIES
  NoForeignRelease
  EveryCallReturns
CHECK_DEADLOCK FALSE
