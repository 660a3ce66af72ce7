CONSTANTS
  p1 = p1
  p2 = p2
  Procs = {p1, p2}
  Names = {"a", "b"}
  NINODES = 3
  Calls <- MCCalls
  None = None
SPECIFICATION Spec
INVARIANTS NamesCounted RefsExact  NoCircularWait
CHECK_DEADLOCK FALSE
