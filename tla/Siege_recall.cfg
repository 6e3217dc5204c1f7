SPECIFICATION Spec
CONSTANTS
  a1 = a1 a2 = a2
  Scripts <- AllScripts
  Agents = {a1, a2}
  Maps = {52, 81}
  Linked <- AllLinked
  MaxEvents = 2
  MaxRows = 2
INVARIANTS ScriptKept MessagesFollow
PROPERTIES LoadAnswered
CHECK_DEADLOCK FALSE
