SPECIFICATION ProfileSpec
CONSTANTS
  Effect = {e1}
  Worker = {w1, w2}
  Key = {k1}
  MaxGeneration = 2
  MaxFence = 2
  MaxAbandons = 0
  Owner = "profile"
  NoEffect = NoEffect
INVARIANT ControlsUpdateFact
CHECK_DEADLOCK FALSE
