CONSTANTS
  NPROC = 3
  CPUs = {c1, c2}
  Chans = {}
  KillPids = {2}
  MaxPid = 4
  None = None
SPECIFICATION Spec
SYMMETRY Sym
INVARIANTS  TableInOrder WaitIsWoken
