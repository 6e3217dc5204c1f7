SPECIFICATION AnySpec
CONSTANTS
  i1 = i1 x1 = x1 x2 = x2
  MaxPackets = 3
  Room = 2
  Nacks = {2}
  BackendReads = TRUE
  Ips = {i1}
  Uids = {x1, x2}
  NoUid = NoUid
  MaxNow = 4
  Window = 1
  Limited = {"ip", "uid", "pair"}
  MaxConn <- TightLimits
  MaxLogin <- LoginLimits
INVARIANTS Lossless OnlyPrefixes NoLeak WindowsHold
PROPERTIES HandlerEnds AllArrives
CHECK_DEADLOCK FALSE
