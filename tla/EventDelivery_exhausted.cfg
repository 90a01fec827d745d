SPECIFICATION Spec
CONSTANTS
  Event = {e1}
  Consumer = {c1}
  Unbound = {}
  Routed = {}
  Worker = {w1}
  Dispatcher = {x1}
  BatchSize = 1
  MaxAttempts = 2
  MaxFaults = 1
INVARIANT ExhaustedIsSettled
CHECK_DEADLOCK FALSE
