CONSTANTS
  Procs = {p1, p2}
  Vals = {v0, v1}
  Zero = v0
  NoBuf = NoBuf
  MAXOPBLOCKS = 2
  OPWRITES = 2
  LOGSIZE = 4
  NLOG = 4
  NHOME = 2
  WVals = {v0}
  WOPWRITES = 1
  WNHOME = 4
SPECIFICATION MCSpec
INVARIANTS NoPanic QuiescentDurable 
PROPERTIES CrashAtomic SleepersWakeWide
