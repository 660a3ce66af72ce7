CONSTANTS
  Consumers = {c1, c2, c3}
  Producers = {p1, p2}
  Late = {p2}
  MaxValue = 3
  Writers = {w1, w2}
  Readers = {r1}
  Bytes = {b0}
  Sizes = {3}
  PIPESIZE = 2
  WRAP = 4
  Sleepers = {s1, s2}
  Args <- SleepArgs
  None = None
  Nobody = Nobody
SPECIFICATION MCSpec
INVARIANTS NoMissedWakeup NobodyOversleeps
PROPERTIES SleepersWake PipeSleepersWake NeverReturnsEarly KilledSleeperReturns
CHECK_DEADLOCK FALSE
