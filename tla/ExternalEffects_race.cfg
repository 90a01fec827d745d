SPECIFICATION FairSpec
CONSTANTS
  Effect = {e1}
  Worker = {w1, w2, w3}
  Key = {k1, k2}
  MaxGeneration = 4
  MaxFence = 2
  MaxAbandons = 2
  Owner = "campaign"
  NoEffect = NoEffect
INVARIANT TypeOK
INVARIANT ExecutedOnce
INVARIANT OpenAttemptIsCurrent
INVARIANT GenerationsReceipted
PROPERTY TransitionsAllowed
PROPERTY CompletedAttemptsFinal
PROPERTY ImplementsPromise
PROPERTY AttemptSettles
CHECK_DEADLOCK FALSE
