CONSTANTS
  NPROC = 3
  CPUs = {c1}
  Chans = {ch}
  KillPids = {0, 1, 2, 3}
  MaxPid = 3
  None = None
SPECIFICATION FairSpec
PROPERTY RunnableRuns
