SPECIFICATION HealthSpec
CONSTANTS
  c1 = c1 c2 = c2
  N = 2
  Strategy = "round_robin"
  Conns = {c1, c2}
  DownAfter = 1
  MinLogins = 2
  MinBeats = 1
  MaxIdle = 2
  MaxTraffic = 5
  MaxOutages = 1
INVARIANTS DeadWasDown
PROPERTIES Recovers
CHECK_DEADLOCK FALSE
