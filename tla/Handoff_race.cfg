SPECIFICATION Spec
CONSTANTS
  d1 = d1  d2 = d2  a1 = a1  a2 = a2
  dc1 = dc1 dc2 = dc2 dc3 = dc3
  c1 = c1 c2 = c2 c3 = c3
  s1 = s1 s2 = s2 s3 = s3 s4 = s4
  u1 = u1 u2 = u2
  Users = {u1}
  NoUser = NoUser
  Dists = {d1}
  Agents = {a1}
  DConns = {dc1, dc2}
  AConns = {c1, c2}
  DistOf <- OneDist
  AgentOf <- OneAgentHome
  MaxKey = 2
  MaxPending = 1
  CrcMayFail = FALSE
  Slots = {s1, s2}
  NoSlot = NoSlot
  NoConn = NoConn
  LossyHandoff = FALSE
SYMMETRY Symmetry
INVARIANTS TablesAgree NoOrphanRow
CHECK_DEADLOCK FALSE
