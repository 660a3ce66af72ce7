CONSTANTS
  NPROC = 4
  CPUs = {c1}
  Chans = {ch}
  KillPids = {}
  MaxPid = 4
  None = None
SPECIFICATION Spec
PROPERTY ZombieUntilWait
