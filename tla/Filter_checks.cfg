SPECIFICATION Spec
CONSTANTS
  i1 = i1 x1 = x1 x2 = x2 c1 = c1 c2 = c2
  Ips = {i1}
  Uids = {x1}
  NoUid = NoUid
  MaxNow = 2
  Window = 1
  Limited = {"ip"}
  MaxConn <- OnePerIp
  MaxLogin <- NoLogins
  BanTicks = 1
  LearnWindow = 1
  Threshold = 2
  StopsMidWrite = TRUE
  AdminKeys <- AdminPair
  LogUsers = {}
  Conns = {c1}
  MaxRejects = 2
INVARIANTS AdmittedWasAllowed RefusedWasBanned
PROPERTIES LimitedWasFull
CHECK_DEADLOCK FALSE
