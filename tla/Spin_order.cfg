CONSTANTS
  CPUs = {c0, c1}
  cpu0 = c0
  Paths = {"scheduler_one", "scheduler_lottery", "consoleread", "consolewrite"}
  Handlers = {"consoleintr"}
  None = None
SPECIFICATION Spec
SYMMETRY Sym
INVARIANT NoCircularWait
