SPECIFICATION Spec
CONSTANTS
  a1 = a1 a2 = a2 u1 = u1 u2 = u2 room = room home = home
  Users = {u1}
  Agents = {a1, a2}
  Places = {room, home}
  Rooms = {room}
  NoPlace = NoPlace NoCheck = NoCheck
  Others = 0
  MaxTry = 2
  MaxRead = 1
  MaxLogins = 2
  MaxAsks = 2
  MaxFaults = 1
SYMMETRY Symmetry
INVARIANTS SearchesEnd ChargesAgree
PROPERTIES GoneIsGone
CHECK_DEADLOCK FALSE
