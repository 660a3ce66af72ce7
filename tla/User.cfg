CONSTANTS
  init = init
  sh = sh
  Procs = {init, sh, p1, p2, p3}
  NFILE = 3
  NOFILE = 5
  NPIPES = 1
  PIPESIZE = 1
  Cmds <- TypedCmds
  MAXLINE = 5
  MAXARGS = 3
  HEAP = 2
  LIMIT = 14
  MINUNITS = 4
  None = None
SPECIFICATION MCSpec
INVARIANTS FilesCounted ParsesGrammar HeapInOrder
PROPERTY ShellPrompts
CHECK_DEADLOCK FALSE
