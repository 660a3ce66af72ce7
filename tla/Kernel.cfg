CONSTANTS
  None = None
  Nobody = Nobody
  Users = {bp1, bp2}
  Bufs = {buf1, buf2, buf3}
  Blocknos = {k1, k2, k3, k4}
  MaxPinned = 1
  CReaders = {cp1, cp2}
  CSizes = {1, 3}
  INPUT_BUF = 2
  CWRAP = 4
  COLS = 2
  ROWS = 3
  VProcs = {vinit, vp2}
  initproc = vinit
  NPAGES = 12
  PGSIZE = 2
  NPTENTRIES = 2
  KTABLES = 1
  UPAGES = 4
  Writer = fp1
  Files = {root, file1}
  ROOT = root
  NBLOCKS = 6
  BSIZE = 2
  NDIRECT = 1
  NINDIRECT = 2
  LOGSIZE = 6
  Writers = {w1}
  Readers = {r1, r2}
  Bytes = {b0, b1}
  Sizes = {3}
  PIPESIZE = 2
  WRAP = 4
  NPROC = 4
  LOW = 1
  HIGH = 5
SPECIFICATION MCSpec
SYMMETRY Sym
INVARIANTS
  CacheIsCoherent  SleeperHasWaker
  ConsoleInOrder
  EveryPageOnce 
  FilesAreKept 
  PipeIsKept
  DrawIsFair
PROPERTIES LinesAreKept EOFIsOneEmptyRead PipeIsStream NoFalseEOF
CHECK_DEADLOCK FALSE
