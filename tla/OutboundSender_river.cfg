SPECIFICATION Spec
CONSTANTS
  Task = {t1, t2}
  Job = {j1, j2, j3}
  Worker = {w1, w2}
  Key = {k1, k2}
  MaxAttempts = 3
  MaxCrashes = 1
  MaxRollbacks = 1
  Replays = FALSE
  Overtake = FALSE
  NoJob = NoJob
  NoTask = NoTask
INVARIANT TypeOK
INVARIANT ResultEvents
INVARIANT CurrentIsLatest
INVARIANT CancelledJobSilent
SYMMETRY Symmetry
CHECK_DEADLOCK FALSE
