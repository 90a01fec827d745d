SPECIFICATION ProfileSpec
CONSTANTS
  Effect = {e1, e2}
  Worker = {w1, w2}
  Key = {k1}
  MaxGeneration = 2
  MaxFence = 2
  MaxAbandons = 1
  Owner = "profile"
  NoEffect = NoEffect
INVARIANT ProfileTypeOK
INVARIANT CompletionFits
INVARIANT BindingAgrees
INVARIANT TerminalOutcomeReadable
PROPERTY BindingFollows
CHECK_DEADLOCK FALSE
