SPECIFICATION Spec
CONSTANTS
  Task = {t1}
  Job = {j1, j2}
  Worker = {w1, w2}
  Key = {k1, k2}
  MaxAttempts = 2
  MaxCrashes = 1
  MaxRollbacks = 1
  Replays = TRUE
  Overtake = TRUE
  NoJob = NoJob
  NoTask = NoTask
INVARIANT TaskShowsAttempt
INVARIANT OneOpenDispatch
INVARIANT NoDoubleDelivery
PROPERTY SettledRowsFinal
PROPERTY ImplementsPromise
CHECK_DEADLOCK FALSE
