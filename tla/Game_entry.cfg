SPECIFICATION Spec
CONSTANTS
  c1 = c1 c2 = c2 u1 = u1 u2 = u2 x1 = x1 x2 = x2 m1 = m1 m2 = m2
  Conns = {c1, c2}
  Users = {u1, u2}
  Chars = {x1, x2}
  Owner <- Owners
  Born = {x1}
  Maps = {m1, m2}
  NoMap = NoMap NoConn = NoConn NoSess = NoSess NoChar = NoChar
  Ways = {"gate", "return", "npc", "house", "dungeon"}
  MaxLogins = 3
  MaxMoves = 2
  MaxCrashes = 1
SYMMETRY Symmetry
INVARIANTS SessionsAgree PlacesAgree RowsAgree NobodyWaits
PROPERTIES MessagesFit
CHECK_DEADLOCK FALSE
