SPECIFICATION FairSpec
CONSTANTS
  Task = {t1}
  Job = {j1, j2}
  Worker = {w1}
  Key = {k1, k2}
  MaxAttempts = 3
  MaxCrashes = 0
  MaxRollbacks = 0
  Replays = FALSE
  Overtake = FALSE
  NoJob = NoJob
  NoTask = NoTask
PROPERTY EveryTaskCloses
CHECK_DEADLOCK FALSE
