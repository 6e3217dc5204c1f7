SPECIFICATION RelaySpec
CONSTANTS
  p1 = p1 p2 = p2 p3 = p3 t1 = t1 a1 = a1 a2 = a2
  Players = {p1, p2}
  NoPlayer = NoPlayer Absent = Absent NoRoom = NoRoom
  MaxRooms = 3
  MaxGuests = 3
  Caps = {1, 2}
  Types = {t1}
  PerPage = 3
  Delayed = FALSE
  Agents = {a1, a2}
  NoAgent = NoAgent
  Roams = FALSE
  MaxRequests = 4
SYMMETRY Symmetry
INVARIANTS NoticesOnce  ClientsKnow
CHECK_DEADLOCK FALSE
