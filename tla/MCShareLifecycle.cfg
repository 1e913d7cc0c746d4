SPECIFICATION Spec
CONSTANTS
  logs = logs
  data = data
  media = media
  cache = cache
  cpg1 = cpg1
  cpg2 = cpg2
  DockerFpg_1 = DockerFpg_1
  DockerFpg_2 = DockerFpg_2
  DockerFpg_3 = DockerFpg_3
  legacy = legacy
  ip1 = ip1
  ip2 = ip2
  ip9 = ip9
  old1 = old1
  old2 = old2
  c1 = c1
  c2 = c2
  c3 = c3
  Call = {old1, old2, c1, c2, c3}
  Share = {logs, data, media, cache}
  Cpg = {cpg1, cpg2}
  Fpg = {DockerFpg_1, DockerFpg_2, DockerFpg_3, legacy}
  DefaultName = {DockerFpg_1, DockerFpg_2, DockerFpg_3}
  Ip = {ip1, ip2, ip9}
  Pool = {ip1, ip2}
  Request <- MCRequest
  Stock <- MCStock
  Past = {old1, old2}
  PastRequest <- MCPastRequest
  PastFpg <- MCPastFpg
  None = None
  NoVfs = NoVfs
  Free = Free
  Failures = 1
SYMMETRY MCSymmetry
INVARIANTS
  TypeOK
  UniqueIps
  LockedIpsAccounted
  ForeignKept
  FailedIsClean
  Settled
CHECK_DEADLOCK FALSE
