CONSTANTS
  Procs = {p1, p2, p3}
  Vals = {v0}
  Zero = v0
  NoBuf = NoBuf
  MAXOPBLOCKS = 1
  OPWRITES = 1
  LOGSIZE = 3
  NLOG = 3
  NHOME = 3
SPECIFICATION Spec
INVARIANT NoPanic
