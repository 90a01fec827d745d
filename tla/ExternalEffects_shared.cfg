SPECIFICATION FairSpec
CONSTANTS
  Effect = {e1, e2}
  Worker = {w1}
  Key = {k1}
  MaxGeneration = 2
  MaxFence = 1
  MaxAbandons = 0
  Owner = "profile"
  NoEffect = NoEffect
PROPERTY UnknownIsHeld
CHECK_DEADLOCK FALSE
