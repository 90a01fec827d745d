SPECIFICATION FairSpec
CONSTANTS
  Event = {e1}
  Consumer = {c1, c2}
  Unbound = {u1}
  Routed = {}
  Worker = {w1}
  Dispatcher = {x1, x2}
  BatchSize = 2
  MaxAttempts = 2
  MaxFaults = 2
INVARIANT TypeOK
INVARIANT OneJobPerDelivery
INVARIANT UnboundHandedOnce
INVARIANT AppliedIffCompleted
PROPERTY SettledDeliveriesFinal
 
PROPERTY EveryUnboundEnds
CHECK_DEADLOCK FALSE
