SPECIFICATION FairSpec
CONSTANTS
  Task = {t1}
  Job = {j1, j2}
  Worker = {w1}
  Key = {k1}
  MaxAttempts = 2
  MaxCrashes = 1
  MaxRollbacks = 0
  Replays = FALSE
  Overtake = FALSE
  NoJob = NoJob
  NoTask = NoTask
PROPERTY InterruptedDispatchSettles
CHECK_DEADLOCK FALSE
