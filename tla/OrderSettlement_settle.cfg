SPECIFICATION FairSpec
CONSTANTS
  Order = {o1}
  Refund = {r1, r2}
  ServicePeriod = {o1}
  Price = 2
  MaxVersion = 2
  MaxFaults = 2
  NoOrder = NoOrder
INVARIANT TypeOK
INVARIANT NeverOverRefunded
INVARIANT LedgerAgrees
INVARIANT BenefitsFollowMoney
INVARIANT HandoffBacksPayment
INVARIANT CalledOnce
PROPERTY ImplementsLedger
PROPERTY ImplementsEffects
 
PROPERTY RefundIsBooked
CHECK_DEADLOCK FALSE
