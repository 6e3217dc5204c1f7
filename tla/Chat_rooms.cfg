SPECIFICATION Spec
CONSTANTS
  p1 = p1 p2 = p2 p3 = p3 t1 = t1 t2 = t2
  Players = {p1, p2, p3}
  NoPlayer = NoPlayer Absent = Absent NoRoom = NoRoom
  MaxRooms = 4
  MaxGuests = 3
  Caps = {2, 3}
  Types = {t1, t2}
  PerPage = 2
  Delayed = FALSE
SYMMETRY Symmetry
INVARIANTS RoomsWhole SearchesAgree PagesCover
PROPERTIES ElderFollows
