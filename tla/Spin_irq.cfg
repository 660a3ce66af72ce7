CONSTANTS
  CPUs = {c0, c1}
  cpu0 = c0
  Paths = {"scheduler_one", "consoleread", "consolewrite", "pipewrite", "iderw", "sys_sleep"}
  Handlers = {"timer_cpu0", "timer", "consoleintr", "ideintr"}
  None = None
SPECIFICATION Spec
SYMMETRY Sym
INVARIANTS NoPanic InterruptsNest NoCircularWait
