SPECIFICATION ListSpec
CONSTANTS
  i1 = i1 i2 = i2 x1 = x1 x2 = x2
  Ips = {i1}
  Uids = {x1}
  NoUid = NoUid
  MaxNow = 2
  BanTicks = 1
  LearnWindow = 1
  Threshold = 2
  StopsMidWrite = FALSE
  AdminKeys <- FilterKeys
  LogUsers = {x1}
  MaxRejects = 2
INVARIANTS BansOnFile
PROPERTIES BanStands AutoBansAreEarned
CHECK_DEADLOCK FALSE
