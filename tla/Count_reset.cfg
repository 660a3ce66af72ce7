CONSTANTS
  Slots = {init, s1}
  initproc = init
  NoProc = NoProc
  MAXCALLS = 4
SPECIFICATION Spec
INVARIANT CountsOwnCalls
CHECK_DEADLOCK FALSE
