SPECIFICATION FairSpec
CONSTANTS
  Effect = {e1}
  Worker = {w1, w2}
  Key = {k1}
  MaxGeneration = 2
  MaxFence = 1
  MaxAbandons = 1
  Owner = "campaign"
  NoEffect = NoEffect
PROPERTY RecordedAttemptSettles
CHECK_DEADLOCK FALSE
