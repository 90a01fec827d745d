------------------------ MODULE OrderSettlement_proofs ------------------------
(***************************************************************************)
(* The safety of payments, refunds and benefits for any orders, refunds,   *)
(* price and number of faults, from two inductive invariants, and that it  *)
(* implements its ledger and uses effects as EffectPromise has them.       *)
(***************************************************************************)
EXTENDS OrderSettlement, OrderSums, TLAPS

-----------------------------------------------------------------------------
(* The inductive invariant, by parts.                                      *)

\* A run of the effect job is under way.
Worked(c) == job[c].pc \in {"calling", "answered", "staged", "returned"}

\* Where the job, the effect and WeChat Pay stand to each other: the effect is
\* attempted before WeChat Pay is called and the call is made once, while the
\* command waits for its result.
Phase(c) ==
  /\ job[c].pc = "none" <=> StateOf(c) = "absent"
  /\ Worked(c) => StateOf(c) \in {"accepted", "queued"}
  /\ job[c].pc = "none" => effect[c].state = "none"
  /\ effect[c].state = "none" =>
       /\ ~Worked(c) /\ calls[c] = 0 /\ remote[c] = "nothing"
       /\ StateOf(c) \in {"absent", "accepted", "queued"}
  /\ job[c].pc \in {"calling", "answered", "staged"} => effect[c].state = "attempted"
  /\ job[c].pc = "calling" => calls[c] = 0 /\ remote[c] = "nothing"
  /\ job[c].pc \in {"staged", "returned"} => job[c].state # "none"
  /\ calls[c] <= 1

\* WeChat Pay holds nothing of a command it refused, wherever the refusal is
\* recorded.
Refusal(c) ==
  /\ effect[c].state = "final_failed" => remote[c] = "nothing"
  /\ job[c].pc \in {"staged", "returned"} /\ job[c].state = "final_failed"
       => remote[c] = "nothing"
  /\ StateOf(c) = "final_failed" => remote[c] = "nothing"

\* The reconcile job goes on only when the money has moved.
Evidence(c) == recon[c] \in {"evidenced", "marked"} => remote[c] = "moved"

JobsInv == \A c \in Command : Phase(c) /\ Refusal(c) /\ Evidence(c)

\* A refund is of an order and an amount from its request on.
RefundsAsked ==
  \A r \in Refund :
    IF refund[r].state = "absent"
    THEN refund[r].order = NoOrder /\ refund[r].amount = 0
    ELSE refund[r].order \in Order /\ refund[r].amount \in 1..Price

Asked == {r \in Refund : refund[r].state # "absent"}

\* What the row of an order says of itself and of its payment.
RowAgrees(o) ==
  /\ order[o].status = "absent" <=> payment[o].state = "absent"
  /\ order[o].settled = IF Settled(o) THEN Price ELSE 0
  /\ order[o].status \notin {"partially_refunded", "refunded"} => order[o].refunded = 0
  /\ order[o].status = "partially_refunded" => order[o].refunded \in 1..(Price - 1)
  /\ order[o].status = "refunded" => order[o].refunded = Price

MoneyInv ==
  /\ RefundsAsked
  /\ IsFiniteSet(Asked)
  /\ \A o \in Order :
       /\ RowAgrees(o)
       /\ Reserved(o) <= order[o].settled
       /\ order[o].refunded = ReservedSucceeded(o)

SettlementInv ==
  /\ TypeOK
  /\ JobsInv
  /\ MoneyInv
  /\ BenefitsFollowMoney
  /\ HandoffBacksPayment

-----------------------------------------------------------------------------
(* Sums of refunds.                                                        *)

\* The refunds of an order that table f reserves for, and those it counts.
Claims(f, o) == {r \in Refund : f[r].order = o /\ f[r].state # "final_failed"}

Returns(f, o) == {r \in Refund : f[r].order = o /\ f[r].state = "succeeded"}

\* The sums of the specification are those the lemmas are about.
LEMMA SumsAreAmounts ==
  ASSUME NEW o
  PROVE  /\ Reserved(o) = Amounts(refund, Claims(refund, o))
         /\ Reserved(o)' = Amounts(refund', Claims(refund', o))
         /\ ReservedSucceeded(o) = Amounts(refund, Returns(refund, o))
         /\ ReservedSucceeded(o)' = Amounts(refund', Returns(refund', o))
<1>1. /\ {r \in RefundsOf(o) : refund[r].state # "final_failed"} = Claims(refund, o)
      /\ {r \in RefundsOf(o) : refund[r].state = "succeeded"} = Returns(refund, o)
      /\ {r \in RefundsOf(o)' : refund'[r].state # "final_failed"} = Claims(refund', o)
      /\ {r \in RefundsOf(o)' : refund'[r].state = "succeeded"} = Returns(refund', o)
  BY DEF RefundsOf, Claims, Returns
<1>2. /\ Reserved(o) = Amounts(refund, {r \in RefundsOf(o) : refund[r].state # "final_failed"})
      /\ ReservedSucceeded(o)
           = Amounts(refund, {r \in RefundsOf(o) : refund[r].state = "succeeded"})
  BY DEF Reserved, ReservedSucceeded, SumOfRefunds, Amounts
<1>3. Reserved(o)'
        = Amounts(refund', {r \in RefundsOf(o)' : refund'[r].state # "final_failed"})
  BY DEF Reserved, SumOfRefunds, Amounts, MapThenSumSet, MapThenFoldSet
<1>4. ReservedSucceeded(o)'
        = Amounts(refund', {r \in RefundsOf(o)' : refund'[r].state = "succeeded"})
  BY DEF ReservedSucceeded, SumOfRefunds, Amounts, MapThenSumSet, MapThenFoldSet
<1>5. QED
  BY <1>1, <1>2, <1>3, <1>4

\* No step of the tables of refunds, no change of the sums.
LEMMA SumsKept ==
  ASSUME refund' = refund, NEW o
  PROVE  Reserved(o)' = Reserved(o) /\ ReservedSucceeded(o)' = ReservedSucceeded(o)
BY SumsAreAmounts

\* The refunds asked of an order are finitely many, of positive amounts.
LEMMA RefundsOfOrder ==
  ASSUME MoneyInv, NEW o \in Order, NEW R \in SUBSET RefundsOf(o)
  PROVE  /\ IsFiniteSet(R)
         /\ \A r \in R : r \in Refund /\ refund[r].amount \in 1..Price
                                      /\ refund[r].state # "absent"
<1>1. \A r \in R : r \in Refund /\ refund[r].order = o
  BY DEF RefundsOf
<1>2. \A r \in R : refund[r].state # "absent" /\ refund[r].amount \in 1..Price
  BY <1>1, OrderConstants DEF MoneyInv, RefundsAsked
<1>3. R \subseteq Asked
  BY <1>1, <1>2 DEF Asked
<1>4. IsFiniteSet(R)
  BY <1>3, FS_Subset DEF MoneyInv
<1>5. QED
  BY <1>1, <1>2, <1>4

-----------------------------------------------------------------------------
(* Initial states.                                                         *)

\* Nothing is sold, asked or held at first.
LEMMA InitInv == Init => SettlementInv
<1> SUFFICES ASSUME Init
             PROVE  SettlementInv
  OBVIOUS
<1> USE OrderConstants
<1>1. TypeOK
  BY DEF Init, TypeOK, OrderRow, OrderStatus, PaymentRow, PaymentState, RefundRow, RefundState,
         EffectRow, Digest, Outcome, JobRow, NoJob, ReconState, RemoteState
<1>2. JobsInv
  BY DEF Init, JobsInv, Phase, Refusal, Evidence, Worked, StateOf, NoJob, Command
<1>3. MoneyInv
  <2>1. RefundsAsked
    BY DEF Init, RefundsAsked
  <2>2. Asked = {}
    BY DEF Init, Asked
  <2>3. ASSUME NEW o \in Order
        PROVE  RowAgrees(o) /\ Reserved(o) <= order[o].settled
                            /\ order[o].refunded = ReservedSucceeded(o)
    <3>1. RefundsOf(o) = {}
      BY DEF Init, RefundsOf
    <3>2. Reserved(o) = 0 /\ ReservedSucceeded(o) = 0
      <4>1. Claims(refund, o) = {} /\ Returns(refund, o) = {}
        BY <3>1 DEF RefundsOf, Claims, Returns
      <4>2. QED
        BY <4>1, SumsAreAmounts, AmountsEmpty
    <3>3. RowAgrees(o)
      BY DEF Init, RowAgrees, Settled
    <3>4. QED
      BY <3>2, <3>3 DEF Init
  <2>4. QED
    BY <2>1, <2>2, <2>3, FS_EmptySet DEF MoneyInv
<1>4. BenefitsFollowMoney
  BY DEF Init, BenefitsFollowMoney, Settled
<1>5. HandoffBacksPayment
  BY DEF Init, HandoffBacksPayment
<1>6. QED
  BY <1>1, <1>2, <1>3, <1>4, <1>5 DEF SettlementInv

-----------------------------------------------------------------------------
(* Types.                                                                  *)

\* The rows of a command and of a refund.
LEMMA RowTypes ==
  ASSUME TypeOK
  PROVE  /\ \A c \in Command : /\ job[c] \in JobRow
                               /\ effect[c] \in EffectRow
                               /\ recon[c] \in ReconState
                               /\ remote[c] \in RemoteState
                               /\ calls[c] \in Nat
         /\ \A r \in Refund : refund[r] \in RefundRow
         /\ \A o \in Order : payment[o] \in PaymentRow /\ order[o] \in OrderRow
  BY DEF TypeOK

\* The values a step of a job or of WeChat Pay gives the rows of its command.
JobTables ==
  /\ effect \in [Command -> EffectRow]
  /\ job \in [Command -> JobRow]
  /\ recon \in [Command -> ReconState]
  /\ remote \in [Command -> RemoteState]
  /\ calls \in [Command -> Nat]
  /\ faults \in 0..MaxFaults

\* The steps of the jobs that leave orders, commands and benefits alone.
Runtime(c) ==
  \/ EffectJob(c)
  \/ MoveMoney(c)
  \/ ReconcileJob(c)
  \/ JobFault(c)
  \/ ReconcileFault(c)
  \/ c \in Order /\ ReconcileStagedHandoff(c)

\* Those steps keep the tables of the jobs in their types.
LEMMA RuntimeTyped ==
  ASSUME SettlementInv, NEW c \in Command, Runtime(c)
  PROVE  TypeOK'
<1> USE OrderConstants
<1>1. /\ JobTables /\ job[c] \in JobRow /\ effect[c] \in EffectRow
      /\ remote[c] \in RemoteState /\ calls[c] \in Nat
      /\ job[c].pc \in {"staged", "returned"} => job[c].state # "none"
  BY DEF SettlementInv, JobsInv, Phase, TypeOK, JobTables
<1> USE DEF JobRow, EffectRow, Outcome, Digest, ReconState, RemoteState, NoJob, ReadyJob,
            JobTables
<1>2. CASE StartAttempt(c)
  <2>1. JobTables'
    BY <1>1, <1>2 DEF StartAttempt
  <2>2. QED
    BY <1>2, <2>1 DEF StartAttempt, SettlementInv, TypeOK
<1>3. CASE ReadOutcome(c)
  <2>1. JobTables'
    BY <1>1, <1>3 DEF ReadOutcome
  <2>2. QED
    BY <1>3, <2>1 DEF ReadOutcome, SettlementInv, TypeOK
<1>4. CASE CallProvider(c)
  <2>1. JobTables'
    <3>1. PICK answer \in Outcome : \E there \in RemoteAfter(c, answer) :
            /\ remote' = [remote EXCEPT ![c] = there]
            /\ job' = [job EXCEPT ![c] =
                 [pc |-> IF c \in Order /\ answer = "executed" THEN "answered" ELSE "staged",
                  state |-> answer, digest |-> "other"]]
      BY <1>4 DEF CallProvider
    <3>2. RemoteAfter(c, answer) \subseteq RemoteState
      BY <1>1 DEF RemoteAfter
    <3>3. QED
      BY <1>1, <1>4, <3>1, <3>2 DEF CallProvider
  <2>2. QED
    BY <1>4, <2>1 DEF CallProvider, SettlementInv, TypeOK
<1>5. CASE CompleteAttempt(c)
  <2>1. JobTables'
    BY <1>1, <1>5 DEF CompleteAttempt
  <2>2. QED
    BY <1>5, <2>1 DEF CompleteAttempt, SettlementInv, TypeOK
<1>6. CASE MoveMoney(c)
  <2>1. JobTables'
    BY <1>1, <1>6 DEF MoveMoney
  <2>2. QED
    BY <1>6, <2>1 DEF MoveMoney, SettlementInv, TypeOK
<1>7. CASE ReconcileJob(c)
  <2>1. CASE QueryConfirms(c)
    <3>1. JobTables'
      BY <1>1, <2>1 DEF QueryConfirms, Reconciles
    <3>2. QED
      BY <2>1, <3>1 DEF QueryConfirms, SettlementInv, TypeOK
  <2>2. CASE ReconcileNothing(c) \/ SettlementRefused(c)
    <3>1. JobTables'
      BY <1>1, <2>2 DEF ReconcileNothing, SettlementRefused
    <3>2. QED
      BY <2>2, <3>1 DEF ReconcileNothing, SettlementRefused, SettlementInv, TypeOK
  <2>3. QED
    BY <1>7, <2>1, <2>2 DEF ReconcileJob
<1>8. CASE JobFault(c) \/ ReconcileFault(c)
  <2>1. JobTables'
    BY <1>1, <1>8 DEF JobFault, ReconcileFault
  <2>2. QED
    BY <1>8, <2>1 DEF JobFault, ReconcileFault, SettlementInv, TypeOK
<1>9. CASE c \in Order /\ ReconcileStagedHandoff(c)
  <2>1. JobTables'
    BY <1>1, <1>9 DEF ReconcileStagedHandoff, Reconciles
  <2>2. QED
    BY <1>9, <2>1 DEF ReconcileStagedHandoff, SettlementInv, TypeOK
<1>10. QED
  BY <1>2, <1>3, <1>4, <1>5, <1>6, <1>7, <1>8, <1>9 DEF Runtime, EffectJob

\* A step that leaves the other commands alone keeps what holds of them.
LEMMA OtherCommands ==
  ASSUME JobsInv, NEW c \in Command,
         \A d \in Command \ {c} : /\ job'[d] = job[d]
                                  /\ effect'[d] = effect[d]
                                  /\ recon'[d] = recon[d]
                                  /\ remote'[d] = remote[d]
                                  /\ calls'[d] = calls[d]
                                  /\ StateOf(d)' = StateOf(d),
         (Phase(c) /\ Refusal(c) /\ Evidence(c))'
  PROVE  JobsInv'
<1>1. ASSUME NEW d \in Command, d # c
      PROVE  (Phase(d) /\ Refusal(d) /\ Evidence(d))'
  BY <1>1 DEF JobsInv, Phase, Refusal, Evidence, Worked
<1>2. QED
  BY <1>1 DEF JobsInv

\* Those steps keep the protocol of the jobs.
LEMMA RuntimeKeepsJobs ==
  ASSUME SettlementInv, NEW c \in Command, Runtime(c)
  PROVE  JobsInv'
<1> DEFINE Now == /\ JobsInv /\ JobTables /\ Phase(c) /\ Refusal(c) /\ Evidence(c)
                  /\ job[c] \in JobRow /\ effect[c] \in EffectRow /\ calls[c] \in Nat
<1>1. Now
  BY DEF SettlementInv, JobsInv, TypeOK, JobTables
<1> HIDE DEF Now
<1>2. SUFFICES ASSUME \A d \in Command : StateOf(d)' = StateOf(d)
               PROVE  JobsInv'
  BY DEF Runtime, StateOf, EffectJob, StartAttempt, ReadOutcome, CallProvider, CompleteAttempt,
         MoveMoney, ReconcileJob, ReconcileNothing, QueryConfirms, SettlementRefused, JobFault,
         ReconcileFault, ReconcileStagedHandoff
<1>3. ASSUME NEW d \in Command, d # c
      PROVE  /\ job'[d] = job[d] /\ effect'[d] = effect[d] /\ recon'[d] = recon[d]
             /\ remote'[d] = remote[d] /\ calls'[d] = calls[d]
  BY <1>1, <1>3
  DEF Now, JobTables, Runtime, EffectJob, StartAttempt, ReadOutcome, CallProvider,
      CompleteAttempt, MoveMoney, ReconcileJob, ReconcileNothing, QueryConfirms,
      SettlementRefused, JobFault, ReconcileFault, ReconcileStagedHandoff, Reconciles
<1>4. SUFFICES (Phase(c) /\ Refusal(c) /\ Evidence(c))'
  BY <1>1, <1>2, <1>3, OtherCommands DEF Now
<1> USE DEF Now, JobTables, Phase, Refusal, Evidence, Worked, JobRow, EffectRow
<1>5. CASE StartAttempt(c)
  BY <1>1, <1>2, <1>5 DEF StartAttempt, MayAttempt, Terminal, StateOf
<1>6. CASE ReadOutcome(c)
  <2>1. StateOf(c) \in PaymentState \union RefundState /\ StateOf(c) # "absent"
    BY <1>1, <1>6 DEF ReadOutcome, SettlementInv, TypeOK, PaymentRow, RefundRow, Command, StateOf
  <2>2. StateOf(c) \in {"accepted", "queued"}
    BY <1>6, <2>1 DEF ReadOutcome, Terminal, PaymentState, RefundState
  <2>3. job'[c] = [pc |-> "returned", state |-> effect[c].state, digest |-> effect[c].digest]
    BY <1>1, <1>6 DEF ReadOutcome
  <2>4. QED
    BY <1>1, <1>2, <1>6, <2>2, <2>3 DEF ReadOutcome, Outcome
<1>7. CASE CallProvider(c)
  BY <1>1, <1>2, <1>7 DEF CallProvider, RemoteAfter, Outcome
<1>8. CASE CompleteAttempt(c)
  BY <1>1, <1>2, <1>8 DEF CompleteAttempt
<1>9. CASE MoveMoney(c)
  BY <1>1, <1>2, <1>9 DEF MoveMoney
<1>10. CASE ReconcileJob(c)
  BY <1>1, <1>2, <1>10
  DEF ReconcileJob, ReconcileNothing, QueryConfirms, SettlementRefused, Reconciles, MayReconcile
<1>11. CASE JobFault(c) \/ ReconcileFault(c)
  BY <1>1, <1>2, <1>11 DEF JobFault, ReconcileFault, ReadyJob, NoJob
<1>12. CASE c \in Order /\ ReconcileStagedHandoff(c)
  BY <1>1, <1>2, <1>12
  DEF ReconcileStagedHandoff, HasStagedHandoff, Reconciles, MayReconcile
<1>13. QED
  BY <1>5, <1>6, <1>7, <1>8, <1>9, <1>10, <1>11, <1>12 DEF Runtime, EffectJob

\* What is asked and counted depends on orders, refunds and their payments only.
LEMMA MoneyKept ==
  ASSUME MoneyInv, UNCHANGED <<order, refund>>,
         \A o \in Order : payment'[o].state = "absent" <=> payment[o].state = "absent"
  PROVE  MoneyInv'
<1>1. RefundsAsked' /\ Asked' = Asked
  BY DEF MoneyInv, RefundsAsked, Asked
<1>2. ASSUME NEW o \in Order
      PROVE  /\ RowAgrees(o)' /\ Reserved(o)' = Reserved(o)
             /\ ReservedSucceeded(o)' = ReservedSucceeded(o)
  <2>1. RowAgrees(o)'
    BY DEF MoneyInv, RowAgrees, Settled
  <2>2. Reserved(o)' = Reserved(o) /\ ReservedSucceeded(o)' = ReservedSucceeded(o)
    BY SumsKept
  <2>3. QED
    BY <2>1, <2>2
<1>3. QED
  BY <1>1, <1>2 DEF MoneyInv

\* The benefits depend on the orders only.
LEMMA BenefitsKept ==
  ASSUME BenefitsFollowMoney, UNCHANGED <<order, benefit>>
  PROVE  BenefitsFollowMoney'
  BY DEF BenefitsFollowMoney, Settled

\* What a step does to one order and its payment is all that their handoff needs.
LEMMA HandoffKept ==
  ASSUME HandoffBacksPayment, NEW o \in Order, UNCHANGED remote,
         \A p \in Order : p # o => order'[p] = order[p] /\ payment'[p] = payment[p],
         order'[o].status = "awaiting_payment" /\ remote[o] # "moved"
           => payment'[o].state = "prepay_ready" /\ payment'[o].handoff,
         payment'[o].state = "prepay_ready" => order'[o].status # "awaiting_prepay"
  PROVE  HandoffBacksPayment'
<1> SUFFICES ASSUME NEW p \in Order
             PROVE  /\ order'[p].status = "awaiting_payment" /\ remote[p] # "moved"
                         => payment'[p].state = "prepay_ready" /\ payment'[p].handoff
                    /\ payment'[p].state = "prepay_ready" => order'[p].status # "awaiting_prepay"
  BY DEF HandoffBacksPayment
<1>1. CASE p = o
  BY <1>1
<1>2. CASE p # o
  <2>1. order'[p] = order[p] /\ payment'[p] = payment[p]
    BY <1>2
  <2>2. QED
    BY <2>1 DEF HandoffBacksPayment
<1>3. QED
  BY <1>1, <1>2

\* Those steps keep the invariant.
LEMMA RuntimeKeeps ==
  ASSUME SettlementInv, NEW c \in Command, Runtime(c)
  PROVE  SettlementInv'
<1>1. UNCHANGED <<order, payment, refund, benefit>>
  BY DEF Runtime, EffectJob, StartAttempt, ReadOutcome, CallProvider, CompleteAttempt,
         MoveMoney, ReconcileJob, ReconcileNothing, QueryConfirms, SettlementRefused, JobFault,
         ReconcileFault, ReconcileStagedHandoff
<1>2. TypeOK' /\ JobsInv'
  BY RuntimeTyped, RuntimeKeepsJobs
<1>3. MoneyInv' /\ BenefitsFollowMoney'
  BY <1>1, MoneyKept, BenefitsKept DEF SettlementInv
<1>4. \A d \in Command : remote[d] = "moved" => remote'[d] = "moved"
  <2>1. CASE MoveMoney(c)
    BY <2>1 DEF MoveMoney, SettlementInv, TypeOK
  <2>2. CASE CallProvider(c)
    <3>1. remote[c] = "nothing" /\ remote \in [Command -> RemoteState]
      BY <2>2 DEF CallProvider, SettlementInv, JobsInv, Phase, TypeOK
    <3>2. QED
      BY <2>2, <3>1 DEF CallProvider
  <2>3. CASE UNCHANGED remote
    BY <2>3
  <2>4. QED
    BY <2>1, <2>2, <2>3
    DEF Runtime, EffectJob, StartAttempt, ReadOutcome, CompleteAttempt, ReconcileJob,
        ReconcileNothing, QueryConfirms, SettlementRefused, JobFault, ReconcileFault,
        ReconcileStagedHandoff
<1>5. HandoffBacksPayment'
  BY <1>1, <1>4 DEF SettlementInv, HandoffBacksPayment, Command
<1>6. QED
  BY <1>2, <1>3, <1>5 DEF SettlementInv

-----------------------------------------------------------------------------
(* Checkout, and the other commands of the payer and of operators.         *)

\* A checkout keeps the invariant.
LEMMA CheckoutKeeps ==
  ASSUME SettlementInv, NEW o \in Order, Checkout(o)
  PROVE  SettlementInv'
<1> USE OrderConstants
<1>1. /\ order \in [Order -> OrderRow] /\ payment \in [Order -> PaymentRow]
      /\ job \in [Command -> JobRow] /\ o \in Command
      /\ order[o] \in OrderRow /\ payment[o] \in PaymentRow
  BY DEF SettlementInv, TypeOK, Command
<1>2. /\ payment[o].state = "absent" /\ order[o].settled = 0 /\ order[o].refunded = 0
  BY DEF SettlementInv, MoneyInv, RowAgrees, Settled, Checkout
<1>3. TypeOK'
  <2>1. order' \in [Order -> OrderRow]
    <3>1. product \in 0..MaxVersion
      BY DEF SettlementInv, TypeOK
    <3>2. QED
      BY <1>1, <3>1 DEF Checkout, OrderRow, OrderStatus
  <2>2. payment' \in [Order -> PaymentRow] /\ job' \in [Command -> JobRow]
    BY <1>1 DEF Checkout, PaymentRow, PaymentState, JobRow, ReadyJob, NoJob, Digest
  <2>3. QED
    BY <2>1, <2>2 DEF Checkout, SettlementInv, TypeOK
<1>4. JobsInv'
  <2>1. \A d \in Command \ {o} : /\ job'[d] = job[d] /\ StateOf(d)' = StateOf(d)
    BY <1>1 DEF Checkout, StateOf
  <2>2. job'[o] = ReadyJob /\ StateOf(o)' = "accepted" /\ StateOf(o) = "absent"
    BY <1>1, <1>2 DEF Checkout, StateOf, PaymentRow
  <2>3. (Phase(o) /\ Refusal(o) /\ Evidence(o))'
    BY <1>1, <2>2
    DEF SettlementInv, JobsInv, Phase, Refusal, Evidence, Worked, Checkout, ReadyJob, NoJob
  <2>4. QED
    BY <1>1, <2>1, <2>3, OtherCommands DEF SettlementInv, Checkout
<1>5. MoneyInv'
  <2>1. refund' = refund
    BY DEF Checkout
  <2>2. RefundsAsked' /\ Asked' = Asked
    BY <2>1 DEF SettlementInv, MoneyInv, RefundsAsked, Asked
  <2>3. ASSUME NEW p \in Order
        PROVE  /\ RowAgrees(p)' /\ order'[p].settled = order[p].settled
               /\ order'[p].refunded = order[p].refunded
               /\ Reserved(p)' = Reserved(p) /\ ReservedSucceeded(p)' = ReservedSucceeded(p)
    <3>1. RowAgrees(p) /\ order[p] \in OrderRow
      BY <1>1 DEF SettlementInv, MoneyInv
    <3>2. p # o => order'[p] = order[p] /\ payment'[p] = payment[p]
      BY <1>1 DEF Checkout
    <3>3. /\ order'[o].status = "awaiting_prepay" /\ payment'[o].state = "accepted"
          /\ order'[o].settled = order[o].settled /\ order'[o].refunded = order[o].refunded
      BY <1>1 DEF Checkout, OrderRow, PaymentRow
    <3>4. RowAgrees(p)'
      BY <1>2, <3>1, <3>2, <3>3 DEF RowAgrees, Settled
    <3>5. Reserved(p)' = Reserved(p) /\ ReservedSucceeded(p)' = ReservedSucceeded(p)
      BY <2>1, SumsKept
    <3>6. QED
      BY <3>2, <3>3, <3>4, <3>5
  <2>4. QED
    BY <2>2, <2>3 DEF SettlementInv, MoneyInv
<1>6. BenefitsFollowMoney'
  BY <1>1 DEF SettlementInv, BenefitsFollowMoney, Settled, Checkout, OrderRow
<1>7. HandoffBacksPayment'
  BY <1>1 DEF SettlementInv, HandoffBacksPayment, Checkout, OrderRow, PaymentRow
<1>8. QED
  BY <1>3, <1>4, <1>5, <1>6, <1>7 DEF SettlementInv

\* An edit of the product keeps the invariant.
LEMMA EditProductKeeps ==
  ASSUME SettlementInv, EditProduct
  PROVE  SettlementInv'
<1>1. TypeOK'
  BY OrderConstants DEF SettlementInv, TypeOK, EditProduct
<1>2. JobsInv'
  BY DEF SettlementInv, JobsInv, Phase, Refusal, Evidence, Worked, StateOf, EditProduct
<1>3. MoneyInv' /\ BenefitsFollowMoney'
  BY MoneyKept, BenefitsKept DEF SettlementInv, EditProduct
<1>4. HandoffBacksPayment'
  BY DEF SettlementInv, HandoffBacksPayment, EditProduct
<1>5. QED
  BY <1>1, <1>2, <1>3, <1>4 DEF SettlementInv

\* The end of a membership keeps the invariant.
LEMMA TransitionMemberKeeps ==
  ASSUME SettlementInv, NEW o \in Order, NEW state \in {"expired", "removed"},
         TransitionMember(o, state)
  PROVE  SettlementInv'
<1>1. TypeOK'
  BY DEF SettlementInv, TypeOK, TransitionMember
<1>2. JobsInv'
  BY DEF SettlementInv, JobsInv, Phase, Refusal, Evidence, Worked, StateOf, TransitionMember
<1>3. MoneyInv'
  BY MoneyKept DEF SettlementInv, TransitionMember
<1>4. BenefitsFollowMoney'
  BY DEF SettlementInv, TypeOK, BenefitsFollowMoney, Settled, TransitionMember
<1>5. HandoffBacksPayment'
  BY DEF SettlementInv, HandoffBacksPayment, TransitionMember
<1>6. QED
  BY <1>1, <1>2, <1>3, <1>4, <1>5 DEF SettlementInv

-----------------------------------------------------------------------------
(* Refunds: their requests, jobs and settlements.                          *)

\* The sums over an order's refunds are natural numbers.
LEMMA SumTypes ==
  ASSUME MoneyInv, NEW o \in Order
  PROVE  Reserved(o) \in Nat /\ ReservedSucceeded(o) \in Nat
<1>1. Claims(refund, o) \in SUBSET RefundsOf(o) /\ Returns(refund, o) \in SUBSET RefundsOf(o)
  BY DEF Claims, Returns, RefundsOf
<1>2. ASSUME NEW R \in SUBSET RefundsOf(o)
      PROVE  Amounts(refund, R) \in Nat
  <2>1. IsFiniteSet(R) /\ \A r \in R : refund[r].amount \in 1..Price
    BY RefundsOfOrder
  <2>2. \A r \in R : refund[r].amount \in Nat
    BY <2>1, OrderConstants
  <2>3. QED
    BY <2>1, <2>2, AmountsType
<1>3. QED
  BY <1>1, <1>2, SumsAreAmounts

\* A refund that moves on keeps its order and amount. What is reserved does not
\* grow, and what is counted grows by a refund that succeeds.
LEMMA RefundMoves ==
  ASSUME MoneyInv, refund \in [Refund -> RefundRow],
         NEW r \in Refund, refund[r].state \notin {"absent", "final_failed", "succeeded"},
         NEW row, refund' = [refund EXCEPT ![r] = row],
         row.order = refund[r].order, row.amount = refund[r].amount, row.state # "absent"
  PROVE  /\ RefundsAsked' /\ Asked' = Asked
         /\ \A o \in Order :
              /\ Reserved(o)' \in Nat /\ Reserved(o)' <= Reserved(o)
              /\ ReservedSucceeded(o)' =
                   IF row.state = "succeeded" /\ refund[r].order = o
                   THEN refund[r].amount + ReservedSucceeded(o) ELSE ReservedSucceeded(o)
<1>1. /\ refund'[r] = row
      /\ \A q \in Refund : q # r => refund'[q] = refund[q]
      /\ \A q \in Refund : /\ refund'[q].order = refund[q].order
                           /\ refund'[q].amount = refund[q].amount
                           /\ refund'[q].state = "absent" <=> refund[q].state = "absent"
  OBVIOUS
<1>2. RefundsAsked' /\ Asked' = Asked
  BY <1>1 DEF MoneyInv, RefundsAsked, Asked
<1>3. ASSUME NEW o \in Order
      PROVE  /\ Reserved(o)' \in Nat /\ Reserved(o)' <= Reserved(o)
             /\ ReservedSucceeded(o)' =
                  IF row.state = "succeeded" /\ refund[r].order = o
                  THEN refund[r].amount + ReservedSucceeded(o) ELSE ReservedSucceeded(o)
  <2> DEFINE C == Claims(refund, o)
             D == Claims(refund', o)
             R == Returns(refund, o)
             T == Returns(refund', o)
  <2>1. /\ C \in SUBSET RefundsOf(o) /\ D \in SUBSET C
        /\ R \in SUBSET RefundsOf(o) /\ T \in SUBSET RefundsOf(o)
        /\ r \notin R
        /\ T = IF row.state = "succeeded" /\ refund[r].order = o THEN R \union {r} ELSE R
    BY <1>1 DEF Claims, Returns, RefundsOf
  <2>2. /\ Reserved(o) = Amounts(refund, C) /\ Reserved(o)' = Amounts(refund', D)
        /\ ReservedSucceeded(o) = Amounts(refund, R)
        /\ ReservedSucceeded(o)' = Amounts(refund', T)
    BY SumsAreAmounts
  <2> HIDE DEF C, D, R, T
  <2>3. ASSUME NEW S \in SUBSET RefundsOf(o)
        PROVE  /\ IsFiniteSet(S) /\ \A q \in S : refund[q].amount \in Nat
               /\ Amounts(refund', S) = Amounts(refund, S)
               /\ Amounts(refund, S) \in Nat
    <3>1. IsFiniteSet(S) /\ \A q \in S : q \in Refund /\ refund[q].amount \in 1..Price
      BY RefundsOfOrder
    <3>2. \A q \in S : refund[q].amount \in Nat /\ refund'[q].amount = refund[q].amount
      BY <1>1, <3>1, OrderConstants
    <3>3. Amounts(refund', S) = Amounts(refund, S)
      BY ONLY <3>1, <3>2, AmountsSame
    <3>4. Amounts(refund, S) \in Nat
      BY <3>1, <3>2, AmountsType
    <3>5. QED
      BY <3>1, <3>2, <3>3, <3>4
  <2>4. Reserved(o)' \in Nat /\ Reserved(o)' <= Reserved(o)
    <3>1. D \in SUBSET RefundsOf(o)
      BY <2>1
    <3>2. Amounts(refund, D) <= Amounts(refund, C)
      BY <2>1, <2>3, AmountsMonotone
    <3>3. Amounts(refund', D) = Amounts(refund, D) /\ Amounts(refund, D) \in Nat
      BY <2>3, <3>1
    <3>4. QED
      BY <2>2, <3>2, <3>3
  <2>5. Amounts(refund', T) = Amounts(refund, T)
    BY <2>1, <2>3
  <2>6. CASE row.state = "succeeded" /\ refund[r].order = o
    <3>1. T = R \union {r} /\ IsFiniteSet(R) /\ \A q \in R \union {r} : refund[q].amount \in Nat
      BY <2>1, <2>3, <2>6
    <3>2. Amounts(refund, R \union {r}) = refund[r].amount + Amounts(refund, R)
      BY <2>1, <3>1, AmountsAdd
    <3>3. QED
      BY <2>2, <2>4, <2>5, <2>6, <3>1, <3>2
  <2>7. CASE ~(row.state = "succeeded" /\ refund[r].order = o)
    BY <2>1, <2>2, <2>4, <2>5, <2>7
  <2>8. QED
    BY <2>6, <2>7
<1>4. QED
  BY <1>2, <1>3

\* A refund that moves on but does not settle, no order changing.
LEMMA RefundMovesMoney ==
  ASSUME SettlementInv,
         NEW r \in Refund, refund[r].state \notin {"absent", "final_failed", "succeeded"},
         NEW row, refund' = [refund EXCEPT ![r] = row],
         row.order = refund[r].order, row.amount = refund[r].amount,
         row.state \notin {"absent", "succeeded"},
         UNCHANGED <<order, payment>>
  PROVE  MoneyInv'
<1>1. MoneyInv /\ refund \in [Refund -> RefundRow] /\ order \in [Order -> OrderRow]
  BY DEF SettlementInv, TypeOK
<1>2. /\ RefundsAsked' /\ Asked' = Asked
      /\ \A o \in Order : /\ Reserved(o)' \in Nat /\ Reserved(o)' <= Reserved(o)
                          /\ ReservedSucceeded(o)' = ReservedSucceeded(o)
  BY <1>1, RefundMoves
<1>3. \A o \in Order : RowAgrees(o)'
  BY <1>1 DEF MoneyInv, RowAgrees, Settled
<1>4. \A o \in Order : Reserved(o)' <= order'[o].settled
  <2>1. ASSUME NEW o \in Order
        PROVE  Reserved(o)' <= order'[o].settled
    <3>1. /\ Reserved(o) \in Nat /\ Reserved(o) <= order[o].settled
          /\ order[o].settled \in Nat /\ order' = order
      BY <1>1, SumTypes, OrderConstants DEF MoneyInv, OrderRow
    <3>2. QED
      BY <1>2, <3>1
  <2>2. QED
    BY <2>1
<1>5. \A o \in Order : order'[o].refunded = ReservedSucceeded(o)'
  BY <1>1, <1>2 DEF MoneyInv
<1>6. IsFiniteSet(Asked)'
  BY <1>1, <1>2 DEF MoneyInv
<1>7. QED
  BY <1>2, <1>3, <1>4, <1>5, <1>6 DEF MoneyInv

\* The request of a refund keeps what is reserved within what was paid.
LEMMA RequestRefundMoney ==
  ASSUME SettlementInv, NEW r \in Refund, NEW o \in Order, NEW amount \in 1..Price,
         RequestRefundV2(r, o, amount)
  PROVE  MoneyInv'
<1>1. /\ MoneyInv /\ refund \in [Refund -> RefundRow] /\ order \in [Order -> OrderRow]
      /\ UNCHANGED <<order, payment>> /\ refund[r].state = "absent"
      /\ refund[r].order = NoOrder
      /\ Reserved(o) + amount <= order[o].settled
  BY DEF SettlementInv, TypeOK, RequestRefundV2, MoneyInv, RefundsAsked
<1>2. /\ refund'[r] = [order |-> o, amount |-> amount, state |-> "accepted", bound |-> FALSE]
      /\ \A q \in Refund : q # r => refund'[q] = refund[q]
  BY <1>1 DEF RequestRefundV2
<1>3. RefundsAsked'
  BY <1>1, <1>2 DEF MoneyInv, RefundsAsked
<1>4. IsFiniteSet(Asked)'
  <2>1. Asked' = Asked \union {r}
    BY <1>2 DEF Asked
  <2>2. QED
    BY <1>1, <2>1, FS_AddElement DEF MoneyInv
<1>5. \A p \in Order : RowAgrees(p)'
  BY <1>1 DEF MoneyInv, RowAgrees, Settled
<1>6. ASSUME NEW p \in Order
      PROVE  /\ Reserved(p)' <= order'[p].settled
             /\ order'[p].refunded = ReservedSucceeded(p)'
  <2> DEFINE C == Claims(refund, p)
             D == Claims(refund', p)
             R == Returns(refund, p)
             T == Returns(refund', p)
  <2>1. /\ C \in SUBSET RefundsOf(p) /\ R \in SUBSET RefundsOf(p) /\ r \notin C
        /\ D = (IF p = o THEN C \union {r} ELSE C) /\ T = R
    BY <1>1, <1>2, OrderConstants DEF Claims, Returns, RefundsOf
  <2>2. /\ Reserved(p) = Amounts(refund, C) /\ Reserved(p)' = Amounts(refund', D)
        /\ ReservedSucceeded(p) = Amounts(refund, R)
        /\ ReservedSucceeded(p)' = Amounts(refund', T)
    BY SumsAreAmounts
  <2> HIDE DEF C, D, R, T
  <2>3. ASSUME NEW S \in SUBSET RefundsOf(p)
        PROVE  /\ IsFiniteSet(S) /\ \A q \in S : refund'[q].amount \in Nat
               /\ Amounts(refund', S) = Amounts(refund, S)
    <3>1. IsFiniteSet(S) /\ \A q \in S : /\ q \in Refund /\ refund[q].amount \in 1..Price
                                         /\ refund[q].state # "absent"
      BY <1>1, RefundsOfOrder
    <3>2. \A q \in S : refund[q].amount \in Nat /\ refund'[q].amount = refund[q].amount
      BY <1>1, <1>2, <3>1, OrderConstants
    <3>3. QED
      BY <3>1, <3>2, AmountsSame
  <2>4. /\ Amounts(refund', C) = Reserved(p) /\ Amounts(refund', R) = ReservedSucceeded(p)
        /\ Reserved(p) \in Nat
    BY <1>1, <2>1, <2>2, <2>3, SumTypes
  <2>5. Reserved(p)' = IF p = o THEN amount + Reserved(p) ELSE Reserved(p)
    <3>1. CASE p = o
      <4>1. D = C \union {r} /\ IsFiniteSet(C) /\ r \notin C
        BY <2>1, <2>3, <3>1
      <4>2. \A q \in C \union {r} : refund'[q].amount \in Nat
        BY <1>2, <2>1, <2>3, OrderConstants
      <4>3. Amounts(refund', C \union {r}) = refund'[r].amount + Amounts(refund', C)
        BY <4>1, <4>2, AmountsAdd
      <4>4. QED
        BY <1>2, <2>2, <2>4, <3>1, <4>1, <4>3
    <3>2. CASE p # o
      BY <2>1, <2>2, <2>4, <3>2
    <3>3. QED
      BY <3>1, <3>2
  <2>6. Reserved(p) <= order[p].settled /\ order[p].refunded = ReservedSucceeded(p)
    BY <1>1 DEF MoneyInv
  <2>7. Reserved(p)' <= order'[p].settled
    <3>1. amount + Reserved(p) = Reserved(p) + amount
      BY <2>4, OrderConstants
    <3>2. QED
      BY <1>1, <2>5, <2>6, <3>1
  <2>8. QED
    BY <1>1, <2>1, <2>2, <2>4, <2>6, <2>7
<1>7. QED
  BY <1>3, <1>4, <1>5, <1>6 DEF MoneyInv

\* What the invariant says of a refund as a command.
LEMMA RefundCommand ==
  ASSUME SettlementInv, NEW r \in Refund
  PROVE  /\ r \in Command /\ r \notin Order
         /\ StateOf(r) = refund[r].state /\ StateOf(r)' = refund'[r].state
         /\ Phase(r) /\ Refusal(r) /\ Evidence(r)
         /\ refund[r] \in RefundRow /\ refund \in [Refund -> RefundRow]
         /\ job \in [Command -> JobRow] /\ recon \in [Command -> ReconState]
BY OrderConstants DEF Command, StateOf, SettlementInv, JobsInv, TypeOK

\* The request of a refund keeps the invariant.
LEMMA RequestRefundKeeps ==
  ASSUME SettlementInv, NEW r \in Refund, NEW o \in Order, NEW amount \in 1..Price,
         RequestRefundV2(r, o, amount)
  PROVE  SettlementInv'
<1>1. /\ r \in Command /\ r \notin Order
      /\ StateOf(r) = refund[r].state /\ StateOf(r)' = refund'[r].state
      /\ Phase(r) /\ Refusal(r) /\ Evidence(r)
      /\ refund \in [Refund -> RefundRow] /\ job \in [Command -> JobRow]
  BY RefundCommand
<1>2. /\ refund'[r] = [order |-> o, amount |-> amount, state |-> "accepted", bound |-> FALSE]
      /\ \A q \in Refund : q # r => refund'[q] = refund[q]
      /\ job'[r] = ReadyJob /\ \A d \in Command : d # r => job'[d] = job[d]
      /\ refund[r].state = "absent"
  BY <1>1 DEF RequestRefundV2
<1>3. TypeOK'
  <2>1. refund' \in [Refund -> RefundRow]
    BY <1>1, OrderConstants DEF RequestRefundV2, RefundRow, RefundState
  <2>2. job' \in [Command -> JobRow]
    BY <1>1 DEF RequestRefundV2, JobRow, ReadyJob, NoJob, Digest
  <2>3. QED
    BY <2>1, <2>2 DEF RequestRefundV2, SettlementInv, TypeOK
<1>4. JobsInv'
  <2>1. \A d \in Command \ {r} : job'[d] = job[d] /\ StateOf(d)' = StateOf(d)
    BY <1>2 DEF RequestRefundV2, StateOf, Command
  <2>2. (Phase(r) /\ Refusal(r) /\ Evidence(r))'
    BY <1>1, <1>2
    DEF Phase, Refusal, Evidence, Worked, RequestRefundV2, ReadyJob, NoJob
  <2>3. QED
    BY <1>1, <2>1, <2>2, OtherCommands DEF SettlementInv, RequestRefundV2
<1>5. MoneyInv'
  BY RequestRefundMoney
<1>6. BenefitsFollowMoney'
  BY BenefitsKept DEF SettlementInv, RequestRefundV2
<1>7. HandoffBacksPayment'
  BY DEF SettlementInv, HandoffBacksPayment, RequestRefundV2
<1>8. QED
  BY <1>3, <1>4, <1>5, <1>6, <1>7 DEF SettlementInv

\* The last transaction of a refund's job keeps the invariant.
LEMMA FinishRefundKeeps ==
  ASSUME SettlementInv, NEW r \in Refund, FinishRefund(r)
  PROVE  SettlementInv'
<1> DEFINE row == [refund[r] EXCEPT !.state = job[r].state, !.bound = TRUE]
<1>1. /\ r \in Command /\ r \notin Order
      /\ StateOf(r) = refund[r].state /\ StateOf(r)' = refund'[r].state
      /\ Phase(r) /\ Refusal(r) /\ Evidence(r)
      /\ refund[r] \in RefundRow /\ refund \in [Refund -> RefundRow]
      /\ job \in [Command -> JobRow] /\ recon \in [Command -> ReconState]
  BY RefundCommand
<1>2. /\ job[r].pc = "returned" /\ refund[r].state \in {"accepted", "queued"}
      /\ job[r] \in JobRow /\ job[r].state # "none"
  BY <1>1 DEF FinishRefund, Phase, Worked
<1>3. /\ refund' = [refund EXCEPT ![r] = row]
      /\ recon' = [recon EXCEPT ![r] = IF job[r].state = "outcome_unknown" THEN "ready" ELSE @]
      /\ job' = [job EXCEPT ![r] = ReadyJob]
      /\ UNCHANGED <<product, order, payment, benefit, receipts, effect, remote, calls, faults>>
  <2>1. refund[r].state \notin Terminal
    BY <1>2 DEF Terminal
  <2>2. QED
    BY <2>1 DEF FinishRefund
<1>4. /\ row \in RefundRow /\ row.state = job[r].state
      /\ row.order = refund[r].order /\ row.amount = refund[r].amount
      /\ row.state \in Outcome \union {"reconciled"}
  BY <1>1, <1>2 DEF RefundRow, RefundState, JobRow, Outcome
<1> HIDE DEF row
<1>5. TypeOK'
  <2>1. /\ refund' \in [Refund -> RefundRow] /\ recon' \in [Command -> ReconState]
        /\ job' \in [Command -> JobRow]
    BY <1>1, <1>3, <1>4 DEF ReconState, JobRow, ReadyJob, NoJob, Digest
  <2>2. QED
    BY <1>3, <2>1 DEF SettlementInv, TypeOK
<1>6. JobsInv'
  <2>1. \A d \in Command \ {r} : /\ job'[d] = job[d] /\ recon'[d] = recon[d]
                                 /\ StateOf(d)' = StateOf(d)
    BY <1>1, <1>3 DEF StateOf, Command
  <2>2. /\ job'[r] = ReadyJob /\ refund'[r] = row
        /\ recon'[r] \in {recon[r], "ready"}
    BY <1>1, <1>3
  <2>3. (Phase(r) /\ Refusal(r) /\ Evidence(r))'
    BY <1>1, <1>2, <1>3, <1>4, <2>2
    DEF Phase, Refusal, Evidence, Worked, ReadyJob, NoJob, Outcome
  <2>4. QED
    BY <1>1, <1>3, <2>1, <2>3, OtherCommands DEF SettlementInv
<1>7. MoneyInv'
  <2>1. row.state \notin {"absent", "succeeded"}
    BY <1>4 DEF Outcome
  <2>2. refund[r].state \notin {"absent", "final_failed", "succeeded"}
    BY <1>2
  <2>3. QED
    BY <1>3, <1>4, <2>1, <2>2, RefundMovesMoney
<1>8. BenefitsFollowMoney'
  BY <1>3, BenefitsKept DEF SettlementInv
<1>9. HandoffBacksPayment'
  BY <1>3 DEF SettlementInv, HandoffBacksPayment
<1>10. QED
  BY <1>5, <1>6, <1>7, <1>8, <1>9 DEF SettlementInv

\* The mark of a refund that a query confirmed keeps the invariant.
LEMMA MarkRefundKeeps ==
  ASSUME SettlementInv, NEW r \in Refund, MarkRefundReconciled(r)
  PROVE  SettlementInv'
<1> DEFINE row == [refund[r] EXCEPT !.state = "reconciled"]
<1>1. /\ r \in Command /\ r \notin Order
      /\ StateOf(r) = refund[r].state /\ StateOf(r)' = refund'[r].state
      /\ Phase(r) /\ Refusal(r) /\ Evidence(r)
      /\ refund[r] \in RefundRow /\ refund \in [Refund -> RefundRow]
      /\ recon \in [Command -> ReconState]
  BY RefundCommand
<1>2. /\ recon[r] = "evidenced" /\ recon' = [recon EXCEPT ![r] = "marked"]
      /\ refund' = IF refund[r].state = "outcome_unknown"
                   THEN [refund EXCEPT ![r] = row] ELSE refund
      /\ UNCHANGED <<product, order, payment, benefit, receipts, effect, job, remote, calls,
                     faults>>
  BY DEF MarkRefundReconciled
<1>3. /\ row \in RefundRow /\ row.state = "reconciled"
      /\ row.order = refund[r].order /\ row.amount = refund[r].amount
  BY <1>1 DEF RefundRow, RefundState
<1> HIDE DEF row
<1>4. TypeOK'
  <2>1. /\ refund' \in [Refund -> RefundRow] /\ recon' \in [Command -> ReconState]
    BY <1>1, <1>2, <1>3 DEF ReconState
  <2>2. QED
    BY <1>2, <2>1 DEF SettlementInv, TypeOK
<1>5. JobsInv'
  <2>1. \A d \in Command \ {r} : recon'[d] = recon[d] /\ StateOf(d)' = StateOf(d)
    BY <1>1, <1>2 DEF StateOf, Command
  <2>2. /\ recon'[r] = "marked"
        /\ refund'[r].state = IF refund[r].state = "outcome_unknown" THEN "reconciled"
                              ELSE refund[r].state
    BY <1>1, <1>2, <1>3
  <2>3. (Phase(r) /\ Refusal(r) /\ Evidence(r))'
    BY <1>1, <1>2, <2>2 DEF Phase, Refusal, Evidence, Worked
  <2>4. QED
    BY <1>1, <1>2, <2>1, <2>3, OtherCommands DEF SettlementInv
<1>6. MoneyInv'
  <2>1. CASE refund[r].state = "outcome_unknown"
    <3>1. /\ refund' = [refund EXCEPT ![r] = row] /\ row.state \notin {"absent", "succeeded"}
          /\ refund[r].state \notin {"absent", "final_failed", "succeeded"}
      BY <1>2, <1>3, <2>1
    <3>2. QED
      BY <1>2, <1>3, <3>1, RefundMovesMoney
  <2>2. CASE refund[r].state # "outcome_unknown"
    BY <1>2, <2>2, MoneyKept DEF SettlementInv
  <2>3. QED
    BY <2>1, <2>2
<1>7. BenefitsFollowMoney'
  BY <1>2, BenefitsKept DEF SettlementInv
<1>8. HandoffBacksPayment'
  BY <1>2 DEF SettlementInv, HandoffBacksPayment
<1>9. QED
  BY <1>4, <1>5, <1>6, <1>7, <1>8 DEF SettlementInv

\* What a settlement finds of the refund's order, and how it leaves it.
LEMMA RefundSettles ==
  ASSUME SettlementInv, NEW r \in Refund, NEW source \in {"notice", "query"},
         ApplyRefund(r, source)
  PROVE  \E o \in Order :
           /\ o = refund[r].order /\ refund[r].amount \in 1..Price
           /\ refund[r].state \in Settleable
           /\ Settled(o) /\ order[o].status # "refunded" /\ order[o].settled = Price
           /\ order[o].refunded \in Nat /\ RefundedWith(r) = order[o].refunded + refund[r].amount
           /\ RefundedWith(r) \in 1..Price
           /\ Closes(r) <=> RefundedWith(r) = Price
           /\ refund'[r] = [refund[r] EXCEPT !.state = "succeeded"]
           /\ refund' = [refund EXCEPT ![r] = [refund[r] EXCEPT !.state = "succeeded"]]
           /\ order' = [order EXCEPT ![o] = [@ EXCEPT
                          !.refunded = RefundedWith(r),
                          !.status = IF Closes(r) THEN "refunded" ELSE "partially_refunded"]]
           /\ benefit' = IF Closes(r) THEN [benefit EXCEPT ![o] = Compensated(o)] ELSE benefit
<1> DEFINE o == refund[r].order
<1>1. /\ refund[r].state \in Settleable /\ order[o].status \in {"paid", "partially_refunded"}
      /\ RefundedWith(r) <= order[o].settled
  BY DEF ApplyRefund, RefundApplicable
<1>2. o \in Order /\ refund[r].amount \in 1..Price
  BY <1>1 DEF SettlementInv, MoneyInv, RefundsAsked, Settleable
<1>3. order[o] \in OrderRow /\ order[o].settled = Price
  BY <1>1, <1>2 DEF SettlementInv, MoneyInv, RowAgrees, Settled, TypeOK
<1>4. /\ order[o].refunded \in Nat /\ RefundedWith(r) = order[o].refunded + refund[r].amount
      /\ RefundedWith(r) \in 1..Price
      /\ Closes(r) <=> RefundedWith(r) = Price
  BY <1>1, <1>2, <1>3, OrderConstants DEF RefundedWith, Closes, OrderRow
<1>5. /\ refund' = [refund EXCEPT ![r] = [refund[r] EXCEPT !.state = "succeeded"]]
      /\ order' = [order EXCEPT ![o] = [@ EXCEPT
                     !.refunded = RefundedWith(r),
                     !.status = IF Closes(r) THEN "refunded" ELSE "partially_refunded"]]
      /\ benefit' = IF Closes(r) THEN [benefit EXCEPT ![o] = Compensated(o)] ELSE benefit
  BY DEF ApplyRefund
<1>6. refund'[r] = [refund[r] EXCEPT !.state = "succeeded"]
  BY <1>5 DEF SettlementInv, TypeOK
<1>7. Settled(o) /\ order[o].status # "refunded"
  BY <1>1 DEF Settled
<1>8. QED
  BY <1>1, <1>2, <1>3, <1>4, <1>5, <1>6, <1>7

\* A settlement books what it says, once, and closes the order just when nothing
\* is left to refund.
LEMMA RefundSettlesMoney ==
  ASSUME SettlementInv, NEW r \in Refund, NEW source \in {"notice", "query"},
         ApplyRefund(r, source), payment' = payment
  PROVE  MoneyInv'
<1> DEFINE row == [refund[r] EXCEPT !.state = "succeeded"]
           status == IF RefundedWith(r) = Price THEN "refunded" ELSE "partially_refunded"
<1>1. PICK o \in Order :
           /\ o = refund[r].order /\ refund[r].amount \in 1..Price
           /\ refund[r].state \in Settleable
           /\ Settled(o) /\ order[o].status # "refunded" /\ order[o].settled = Price
           /\ order[o].refunded \in Nat /\ RefundedWith(r) = order[o].refunded + refund[r].amount
           /\ RefundedWith(r) \in 1..Price
           /\ Closes(r) <=> RefundedWith(r) = Price
           /\ refund' = [refund EXCEPT ![r] = row]
           /\ order' = [order EXCEPT ![o] = [@ EXCEPT
                          !.refunded = RefundedWith(r),
                          !.status = IF Closes(r) THEN "refunded" ELSE "partially_refunded"]]
  BY RefundSettles
<1>2. /\ MoneyInv /\ refund \in [Refund -> RefundRow] /\ refund[r] \in RefundRow
      /\ order \in [Order -> OrderRow] /\ order[o] \in OrderRow
  BY DEF SettlementInv, TypeOK
<1>3. row.order = refund[r].order /\ row.amount = refund[r].amount /\ row.state = "succeeded"
  BY <1>2 DEF RefundRow
<1>4. /\ order'[o].status = status /\ order'[o].refunded = RefundedWith(r)
      /\ order'[o].settled = order[o].settled
      /\ \A p \in Order : p # o => order'[p] = order[p]
  BY <1>1, <1>2 DEF OrderRow
<1>5. refund[r].state \notin {"absent", "final_failed", "succeeded"}
  BY <1>1 DEF Settleable
<1> HIDE DEF row
<1>6. /\ RefundsAsked' /\ Asked' = Asked
      /\ \A p \in Order :
           /\ Reserved(p)' \in Nat /\ Reserved(p)' <= Reserved(p)
           /\ ReservedSucceeded(p)' = IF refund[r].order = p
                                      THEN refund[r].amount + ReservedSucceeded(p)
                                      ELSE ReservedSucceeded(p)
  BY <1>1, <1>2, <1>3, <1>5, RefundMoves
<1>7. ASSUME NEW p \in Order
      PROVE  RowAgrees(p)'
  <2>1. RowAgrees(p)
    BY <1>2 DEF MoneyInv
  <2>2. CASE p = o
    <3>1. order'[p].refunded \in 1..Price
      BY <1>1, <1>4, <2>2
    <3>2. order'[p].status # "refunded" => order'[p].refunded # Price
      BY <1>4, <2>2
    <3>3. order'[p].status = "refunded" => order'[p].refunded = Price
      BY <1>4, <2>2
    <3>4. order[p].status # "absent" /\ payment[p].state # "absent"
      BY <1>1, <2>1, <2>2 DEF RowAgrees, Settled
    <3>5. order'[p].status \in {"refunded", "partially_refunded"} /\ order'[p].settled = Price
      BY <1>1, <1>4, <2>2
    <3>6. order'[p].refunded # Price => order'[p].refunded \in 1..(Price - 1)
      BY <3>1, OrderConstants
    <3>7. QED
      BY <3>2, <3>3, <3>4, <3>5, <3>6 DEF RowAgrees, Settled
  <2>3. CASE p # o
    BY <1>4, <2>1, <2>3 DEF RowAgrees, Settled
  <2>4. QED
    BY <2>2, <2>3
<1>8. ASSUME NEW p \in Order
      PROVE  /\ Reserved(p)' <= order'[p].settled
             /\ order'[p].refunded = ReservedSucceeded(p)'
  <2>1. /\ Reserved(p) \in Nat /\ ReservedSucceeded(p) \in Nat
        /\ Reserved(p) <= order[p].settled /\ order[p].refunded = ReservedSucceeded(p)
        /\ order[p].settled \in Nat
    BY <1>2, SumTypes, OrderConstants DEF MoneyInv, OrderRow
  <2>2. order'[p].settled = order[p].settled
    BY <1>4
  <2>3. Reserved(p)' <= order'[p].settled
    BY <1>6, <2>1, <2>2
  <2>4. CASE p = o
    <3>1. order'[p].refunded = order[p].refunded + refund[r].amount
      BY <1>1, <1>4, <2>4
    <3>2. ReservedSucceeded(p)' = refund[r].amount + ReservedSucceeded(p)
      BY <1>1, <1>6, <2>4
    <3>3. refund[r].amount \in Nat
      BY <1>2, OrderConstants DEF RefundRow
    <3>4. QED
      BY <2>1, <2>3, <3>1, <3>2, <3>3
  <2>5. CASE p # o
    BY <1>1, <1>4, <1>6, <2>1, <2>3, <2>5
  <2>6. QED
    BY <2>4, <2>5
<1>9. QED
  BY <1>2, <1>6, <1>7, <1>8 DEF MoneyInv

\* The settlement of a refund, by a notice or a query, keeps the invariant.
LEMMA RefundSettlementKeeps ==
  ASSUME SettlementInv, NEW r \in Refund,
         RefundNotice(r) \/ SettleReconciledRefund(r)
  PROVE  SettlementInv'
<1> DEFINE row == [refund[r] EXCEPT !.state = "succeeded"]
<1>1. PICK source \in {"notice", "query"} : ApplyRefund(r, source)
  BY DEF RefundNotice, SettleReconciledRefund
<1>2. /\ UNCHANGED <<product, payment, effect, job, remote, calls, faults>>
      /\ recon' = recon \/ recon' = [recon EXCEPT ![r] = "done"]
      /\ receipts' = receipts \union {<<r, source>>}
  BY <1>1 DEF RefundNotice, SettleReconciledRefund, ApplyRefund
<1>3. PICK o \in Order :
           /\ refund[r].state \in Settleable
           /\ Settled(o) /\ order[o].status # "refunded"
           /\ RefundedWith(r) \in 1..Price
           /\ refund' = [refund EXCEPT ![r] = row]
           /\ order' = [order EXCEPT ![o] = [@ EXCEPT
                          !.refunded = RefundedWith(r),
                          !.status = IF Closes(r) THEN "refunded" ELSE "partially_refunded"]]
           /\ benefit' = IF Closes(r) THEN [benefit EXCEPT ![o] = Compensated(o)] ELSE benefit
  BY <1>1, RefundSettles
<1>4. /\ r \in Command /\ r \notin Order
      /\ StateOf(r) = refund[r].state /\ StateOf(r)' = refund'[r].state
      /\ Phase(r) /\ Refusal(r) /\ Evidence(r)
      /\ refund[r] \in RefundRow /\ refund \in [Refund -> RefundRow]
      /\ recon \in [Command -> ReconState]
  BY RefundCommand
<1>5. /\ row \in RefundRow /\ row.state = "succeeded"
      /\ order \in [Order -> OrderRow] /\ order[o] \in OrderRow
  BY <1>4 DEF RefundRow, RefundState, SettlementInv, TypeOK
<1> HIDE DEF row
<1>6. TypeOK'
  <2>1. refund' \in [Refund -> RefundRow] /\ recon' \in [Command -> ReconState]
    BY <1>2, <1>3, <1>4, <1>5 DEF ReconState
  <2>2. order' \in [Order -> OrderRow]
    <3> DEFINE w == RefundedWith(r)
               left == [order[o] EXCEPT
                          !.refunded = w,
                          !.status = IF Closes(r) THEN "refunded" ELSE "partially_refunded"]
    <3>1. order' = [order EXCEPT ![o] = left] /\ w \in 0..Price
      BY <1>3, OrderConstants
    <3> HIDE DEF w
    <3>2. left \in OrderRow
      BY <1>5, <3>1 DEF OrderRow, OrderStatus
    <3> HIDE DEF left
    <3>3. QED
      BY <1>5, <3>1, <3>2
  <2>3. benefit' \in [Order -> [entitlement : {"none", "active", "revoked"},
                                member : {"none", "active", "expired", "removed"}]]
    BY <1>3 DEF SettlementInv, TypeOK, Compensated
  <2>4. receipts' \subseteq Command \X {"notice", "query"}
    BY <1>2, <1>4 DEF SettlementInv, TypeOK
  <2>5. QED
    BY <1>2, <2>1, <2>2, <2>3, <2>4 DEF SettlementInv, TypeOK
<1>7. JobsInv'
  <2>1. \A d \in Command \ {r} : recon'[d] = recon[d] /\ StateOf(d)' = StateOf(d)
    BY <1>2, <1>3, <1>4 DEF StateOf, Command
  <2>2. /\ recon'[r] \in {recon[r], "done"} /\ refund'[r].state = "succeeded"
    BY <1>2, <1>3, <1>4, <1>5
  <2>3. (Phase(r) /\ Refusal(r) /\ Evidence(r))'
    BY <1>2, <1>3, <1>4, <2>2 DEF Phase, Refusal, Evidence, Worked, Settleable
  <2>4. QED
    BY <1>2, <1>4, <2>1, <2>3, OtherCommands DEF SettlementInv
<1>8. MoneyInv'
  BY <1>1, <1>2, RefundSettlesMoney
<1>9. ASSUME NEW p \in Order
      PROVE  /\ p # o => order'[p] = order[p] /\ benefit'[p] = benefit[p]
             /\ order'[o].status = IF Closes(r) THEN "refunded" ELSE "partially_refunded"
             /\ benefit'[o] = IF Closes(r) THEN Compensated(o) ELSE benefit[o]
  BY <1>3, <1>5 DEF SettlementInv, TypeOK, OrderRow
<1>10. BenefitsFollowMoney'
  BY <1>3, <1>9 DEF SettlementInv, BenefitsFollowMoney, Settled, Compensated
<1>11. HandoffBacksPayment'
  BY <1>2, <1>9 DEF SettlementInv, HandoffBacksPayment
<1>12. QED
  BY <1>6, <1>7, <1>8, <1>10, <1>11 DEF SettlementInv

-----------------------------------------------------------------------------
(* Payments: their jobs and settlements.                                   *)

\* What the invariant says of an order as a command.
LEMMA PaymentCommand ==
  ASSUME SettlementInv, NEW o \in Order
  PROVE  /\ o \in Command
         /\ StateOf(o) = payment[o].state /\ StateOf(o)' = payment'[o].state
         /\ Phase(o) /\ Refusal(o) /\ Evidence(o) /\ RowAgrees(o)
         /\ payment[o] \in PaymentRow /\ payment \in [Order -> PaymentRow]
         /\ order[o] \in OrderRow /\ order \in [Order -> OrderRow]
         /\ job[o] \in JobRow /\ job \in [Command -> JobRow]
         /\ recon \in [Command -> ReconState]
BY DEF Command, StateOf, SettlementInv, JobsInv, MoneyInv, TypeOK

\* A step of a payment's row and its order's status keeps the sums and the rows.
LEMMA PaymentMovesMoney ==
  ASSUME SettlementInv, NEW o \in Order, refund' = refund,
         \A p \in Order : p # o => order'[p] = order[p] /\ payment'[p] = payment[p],
         order'[o].settled = order[o].settled, order'[o].refunded = order[o].refunded,
         RowAgrees(o)'
  PROVE  MoneyInv'
<1>1. RefundsAsked' /\ Asked' = Asked
  BY DEF SettlementInv, MoneyInv, RefundsAsked, Asked
<1>2. ASSUME NEW p \in Order
      PROVE  /\ RowAgrees(p)' /\ Reserved(p)' <= order'[p].settled
             /\ order'[p].refunded = ReservedSucceeded(p)'
  <2>1. Reserved(p)' = Reserved(p) /\ ReservedSucceeded(p)' = ReservedSucceeded(p)
    BY SumsKept
  <2>2. /\ RowAgrees(p) /\ Reserved(p) <= order[p].settled
        /\ order[p].refunded = ReservedSucceeded(p)
    BY DEF SettlementInv, MoneyInv
  <2>3. RowAgrees(p)'
    BY <2>2 DEF RowAgrees, Settled
  <2>4. QED
    BY <2>1, <2>2, <2>3
<1>3. QED
  BY <1>1, <1>2 DEF SettlementInv, MoneyInv

\* Staging the handoff keeps the invariant.
LEMMA StageHandoffKeeps ==
  ASSUME SettlementInv, NEW o \in Order, StageHandoff(o)
  PROVE  SettlementInv'
<1>1. /\ o \in Command
      /\ StateOf(o) = payment[o].state /\ StateOf(o)' = payment'[o].state
      /\ Phase(o) /\ Refusal(o) /\ Evidence(o) /\ RowAgrees(o)
      /\ payment[o] \in PaymentRow /\ payment \in [Order -> PaymentRow]
      /\ job \in [Command -> JobRow]
  BY PaymentCommand
<1>2. PICK stored \in BOOLEAN, state \in {"executed", "outcome_unknown"},
           digest \in {"prepay", "other"} :
        /\ payment' = [payment EXCEPT ![o] = [@ EXCEPT !.handoff = stored]]
        /\ job' = [job EXCEPT ![o] = [pc |-> "staged", state |-> state, digest |-> digest]]
        /\ faults' \in 0..MaxFaults
  <2>1. faults \in 0..MaxFaults /\ MaxFaults \in Nat
    BY OrderConstants DEF SettlementInv, TypeOK
  <2>2. CASE /\ payment' = [payment EXCEPT ![o].handoff = TRUE]
             /\ job' = [job EXCEPT ![o] =
                         [pc |-> "staged", state |-> "executed", digest |-> "prepay"]]
             /\ UNCHANGED faults
    BY <2>1, <2>2
  <2>3. CASE /\ faults < MaxFaults
             /\ faults' = faults + 1
             /\ \E stored \in BOOLEAN : payment' = [payment EXCEPT ![o].handoff = stored]
             /\ job' = [job EXCEPT ![o] =
                         [pc |-> "staged", state |-> "outcome_unknown", digest |-> "other"]]
    <3>1. faults' \in 0..MaxFaults
      BY <2>1, <2>3
    <3>2. QED
      BY <2>3, <3>1
  <2>4. QED
    BY <2>2, <2>3 DEF StageHandoff, Stages
<1>3. /\ job[o].pc = "answered" /\ payment[o].state = "accepted"
      /\ UNCHANGED <<product, order, refund, benefit, receipts, effect, recon, remote, calls>>
  BY DEF StageHandoff
<1>4. /\ payment'[o] = [payment[o] EXCEPT !.handoff = stored]
      /\ payment'[o].state = payment[o].state
      /\ job'[o] = [pc |-> "staged", state |-> state, digest |-> digest]
      /\ \A p \in Order : p # o => payment'[p] = payment[p]
      /\ \A d \in Command : d # o => job'[d] = job[d]
  BY <1>1, <1>2 DEF PaymentRow
<1>5. TypeOK'
  <2>1. payment' \in [Order -> PaymentRow] /\ job' \in [Command -> JobRow]
    BY <1>1, <1>2 DEF PaymentRow, JobRow, Outcome, Digest
  <2>2. QED
    BY <1>2, <1>3, <2>1 DEF SettlementInv, TypeOK
<1>6. JobsInv'
  <2>1. \A d \in Command \ {o} : job'[d] = job[d] /\ StateOf(d)' = StateOf(d)
    BY <1>3, <1>4 DEF StateOf
  <2>2. (Phase(o) /\ Refusal(o) /\ Evidence(o))'
    BY <1>1, <1>3, <1>4 DEF Phase, Refusal, Evidence, Worked
  <2>3. QED
    BY <1>1, <1>3, <2>1, <2>2, OtherCommands DEF SettlementInv
<1>7. MoneyInv'
  BY <1>3, <1>4, MoneyKept DEF SettlementInv
<1>8. BenefitsFollowMoney'
  BY <1>3, BenefitsKept DEF SettlementInv
<1>9. HandoffBacksPayment'
  <2>1. ~(order[o].status = "awaiting_payment" /\ remote[o] # "moved")
    BY <1>3 DEF SettlementInv, HandoffBacksPayment
  <2>2. payment'[o].state # "prepay_ready" /\ UNCHANGED <<order, remote>>
    BY <1>3, <1>4
  <2>3. HandoffBacksPayment
    BY DEF SettlementInv
  <2>4. QED
    BY <1>4, <2>1, <2>2, <2>3, HandoffKept
<1>10. QED
  BY <1>5, <1>6, <1>7, <1>8, <1>9 DEF SettlementInv

\* The last transaction of a payment's job keeps the invariant.
LEMMA FinishPaymentKeeps ==
  ASSUME SettlementInv, NEW o \in Order, FinishPayment(o)
  PROVE  SettlementInv'
<1> DEFINE row == CompletedPayment([payment[o] EXCEPT !.bound = TRUE],
                                   job[o].state, job[o].digest)
<1>1. /\ o \in Command
      /\ StateOf(o) = payment[o].state /\ StateOf(o)' = payment'[o].state
      /\ Phase(o) /\ Refusal(o) /\ Evidence(o) /\ RowAgrees(o)
      /\ payment[o] \in PaymentRow /\ payment \in [Order -> PaymentRow]
      /\ order[o] \in OrderRow /\ order \in [Order -> OrderRow]
      /\ job[o] \in JobRow /\ job \in [Command -> JobRow]
      /\ recon \in [Command -> ReconState]
  BY PaymentCommand
<1>2. /\ job[o].pc = "returned" /\ payment[o].state \in {"accepted", "queued"}
      /\ job[o].state \in Outcome \union {"reconciled"}
  BY <1>1 DEF FinishPayment, Phase, Worked, JobRow
<1>3. /\ row.state = "prepay_ready" => payment[o].handoff
      /\ payment' = [payment EXCEPT ![o] = row]
      /\ OpensOrder(o, row.state)
      /\ recon' = [recon EXCEPT ![o] = IF row.state = "outcome_unknown" THEN "ready" ELSE @]
      /\ job' = [job EXCEPT ![o] = ReadyJob]
      /\ UNCHANGED <<product, refund, benefit, receipts, effect, remote, calls, faults>>
  <2>1. payment[o].state \notin Terminal
    BY <1>2 DEF Terminal
  <2>2. QED
    BY <2>1 DEF FinishPayment
<1>4. /\ row \in PaymentRow
      /\ row.state \in {"prepay_ready", "outcome_unknown", "final_failed", "reconciled"}
      /\ row.state = "prepay_ready" => row.handoff
      /\ row.state = "final_failed" => job[o].state = "final_failed"
  BY <1>1, <1>2, <1>3 DEF CompletedPayment, PaymentRow, PaymentState, Outcome
<1> HIDE DEF row
<1>5. /\ payment'[o] = row /\ job'[o] = ReadyJob /\ recon'[o] \in {recon[o], "ready"}
      /\ \A p \in Order : p # o => payment'[p] = payment[p] /\ order'[p] = order[p]
      /\ \A d \in Command : d # o => job'[d] = job[d] /\ recon'[d] = recon[d]
      /\ order'[o].settled = order[o].settled /\ order'[o].refunded = order[o].refunded
      /\ order'[o].status = IF row.state = "prepay_ready" /\ order[o].status = "awaiting_prepay"
                            THEN "awaiting_payment" ELSE order[o].status
  BY <1>1, <1>3 DEF OpensOrder, OrderRow
<1>6. TypeOK'
  <2>1. payment' \in [Order -> PaymentRow] /\ job' \in [Command -> JobRow]
    BY <1>1, <1>3, <1>4 DEF JobRow, ReadyJob, NoJob, Digest
  <2>2. order' \in [Order -> OrderRow]
    BY <1>1, <1>3 DEF OpensOrder, OrderRow, OrderStatus
  <2>3. recon' \in [Command -> ReconState]
    BY <1>1, <1>3 DEF ReconState
  <2>4. QED
    BY <1>3, <2>1, <2>2, <2>3 DEF SettlementInv, TypeOK
<1>7. JobsInv'
  <2>1. \A d \in Command \ {o} : /\ job'[d] = job[d] /\ recon'[d] = recon[d]
                                 /\ StateOf(d)' = StateOf(d)
    BY <1>3, <1>5 DEF StateOf
  <2>2. (Phase(o) /\ Refusal(o) /\ Evidence(o))'
    BY <1>1, <1>2, <1>3, <1>4, <1>5
    DEF Phase, Refusal, Evidence, Worked, ReadyJob, NoJob
  <2>3. QED
    BY <1>1, <1>3, <2>1, <2>2, OtherCommands DEF SettlementInv
<1>8. MoneyInv'
  <2>1. RowAgrees(o)'
    BY <1>1, <1>2, <1>4, <1>5 DEF RowAgrees, Settled
  <2>2. QED
    BY <1>3, <1>5, <2>1, PaymentMovesMoney
<1>9. BenefitsFollowMoney'
  BY <1>3, <1>5 DEF SettlementInv, BenefitsFollowMoney, Settled
<1>10. HandoffBacksPayment'
  BY <1>2, <1>3, <1>4, <1>5 DEF SettlementInv, HandoffBacksPayment
<1>11. QED
  BY <1>6, <1>7, <1>8, <1>9, <1>10 DEF SettlementInv

\* The mark of a payment that a query confirmed keeps the invariant.
LEMMA MarkPaymentKeeps ==
  ASSUME SettlementInv, NEW o \in Order, MarkPaymentReconciled(o)
  PROVE  SettlementInv'
<1> DEFINE row == CompletedPayment(payment[o], "reconciled", "query")
<1>1. /\ o \in Command
      /\ StateOf(o) = payment[o].state /\ StateOf(o)' = payment'[o].state
      /\ Phase(o) /\ Refusal(o) /\ Evidence(o) /\ RowAgrees(o)
      /\ payment[o] \in PaymentRow /\ payment \in [Order -> PaymentRow]
      /\ order[o] \in OrderRow /\ order \in [Order -> OrderRow]
      /\ recon \in [Command -> ReconState]
  BY PaymentCommand
<1>2. /\ recon[o] = "evidenced" /\ remote[o] = "moved"
      /\ payment' = IF payment[o].state = "outcome_unknown"
                    THEN [payment EXCEPT ![o] = row] ELSE payment
      /\ order' = IF order[o].status = "awaiting_prepay"
                  THEN [order EXCEPT ![o].status = "awaiting_payment"] ELSE order
      /\ recon' = [recon EXCEPT ![o] = "marked"]
      /\ UNCHANGED <<product, refund, benefit, receipts, effect, job, remote, calls, faults>>
  BY <1>1 DEF MarkPaymentReconciled, Evidence
<1>3. row \in PaymentRow /\ row.state = "reconciled"
  BY <1>1 DEF CompletedPayment, PaymentRow, PaymentState
<1> HIDE DEF row
<1>4. /\ payment'[o] = IF payment[o].state = "outcome_unknown" THEN row ELSE payment[o]
      /\ recon'[o] = "marked"
      /\ \A p \in Order : p # o => payment'[p] = payment[p] /\ order'[p] = order[p]
      /\ \A d \in Command : d # o => recon'[d] = recon[d]
      /\ order'[o].settled = order[o].settled /\ order'[o].refunded = order[o].refunded
      /\ order'[o].status = IF order[o].status = "awaiting_prepay"
                            THEN "awaiting_payment" ELSE order[o].status
  BY <1>1, <1>2 DEF OrderRow
<1>5. TypeOK'
  <2>1. payment' \in [Order -> PaymentRow]
    BY <1>1, <1>2, <1>3
  <2>2. order' \in [Order -> OrderRow]
    BY <1>1, <1>2 DEF OrderRow, OrderStatus
  <2>3. recon' \in [Command -> ReconState]
    BY <1>1, <1>2 DEF ReconState
  <2>4. QED
    BY <1>2, <2>1, <2>2, <2>3 DEF SettlementInv, TypeOK
<1>6. JobsInv'
  <2>1. \A d \in Command \ {o} : recon'[d] = recon[d] /\ StateOf(d)' = StateOf(d)
    BY <1>2, <1>4 DEF StateOf
  <2>2. (Phase(o) /\ Refusal(o) /\ Evidence(o))'
    BY <1>1, <1>2, <1>3, <1>4 DEF Phase, Refusal, Evidence, Worked
  <2>3. QED
    BY <1>1, <1>2, <2>1, <2>2, OtherCommands DEF SettlementInv
<1>7. MoneyInv'
  <2>1. RowAgrees(o)'
    BY <1>1, <1>3, <1>4 DEF RowAgrees, Settled
  <2>2. QED
    BY <1>2, <1>4, <2>1, PaymentMovesMoney
<1>8. BenefitsFollowMoney'
  BY <1>2, <1>4 DEF SettlementInv, BenefitsFollowMoney, Settled
<1>9. HandoffBacksPayment'
  BY <1>2, <1>3, <1>4 DEF SettlementInv, HandoffBacksPayment
<1>10. QED
  BY <1>5, <1>6, <1>7, <1>8, <1>9 DEF SettlementInv

\* The settlement of a payment, by a notice or a query, keeps the invariant.
LEMMA PaymentSettlementKeeps ==
  ASSUME SettlementInv, NEW o \in Order,
         PaymentNotice(o) \/ SettleReconciledPayment(o)
  PROVE  SettlementInv'
<1>1. /\ o \in Command
      /\ StateOf(o) = payment[o].state /\ StateOf(o)' = payment'[o].state
      /\ Phase(o) /\ Refusal(o) /\ Evidence(o) /\ RowAgrees(o)
      /\ order[o] \in OrderRow /\ order \in [Order -> OrderRow]
      /\ recon \in [Command -> ReconState]
  BY PaymentCommand
<1>2. PICK source \in {"notice", "query"} : ApplyPayment(o, source)
  BY DEF PaymentNotice, SettleReconciledPayment
<1>3. /\ UNCHANGED <<product, payment, refund, effect, job, remote, calls, faults>>
      /\ recon' = recon \/ recon' = [recon EXCEPT ![o] = "done"]
      /\ receipts' = receipts \union {<<o, source>>}
      /\ order[o].status = "awaiting_payment"
      /\ order' = [order EXCEPT ![o].status = "paid", ![o].settled = Price]
      /\ benefit' = [benefit EXCEPT ![o] = Granted(o)]
  BY <1>2 DEF PaymentNotice, SettleReconciledPayment, ApplyPayment, PaymentApplicable
<1>4. /\ order'[o].status = "paid" /\ order'[o].settled = Price
      /\ order'[o].refunded = order[o].refunded /\ order[o].refunded = 0
      /\ order[o].settled = 0
      /\ \A p \in Order : p # o => order'[p] = order[p] /\ benefit'[p] = benefit[p]
      /\ benefit'[o] = Granted(o)
      /\ recon'[o] \in {recon[o], "done"}
      /\ \A d \in Command : d # o => recon'[d] = recon[d]
  BY <1>1, <1>3 DEF OrderRow, RowAgrees, Settled, SettlementInv, TypeOK
<1>5. TypeOK'
  <2>1. order' \in [Order -> OrderRow]
    <3> DEFINE paid == [order[o] EXCEPT !.status = "paid", !.settled = Price]
    <3>1. order' = [order EXCEPT ![o] = paid]
      BY <1>3
    <3>2. paid \in OrderRow
      <4>1. Price \in 0..Price
        BY OrderConstants
      <4>2. QED
        BY <1>1, <4>1 DEF OrderRow, OrderStatus
    <3> HIDE DEF paid
    <3>3. QED
      BY <1>1, <3>1, <3>2
  <2>2. benefit' \in [Order -> [entitlement : {"none", "active", "revoked"},
                                member : {"none", "active", "expired", "removed"}]]
    BY <1>3 DEF SettlementInv, TypeOK, Granted
  <2>3. recon' \in [Command -> ReconState] /\ receipts' \subseteq Command \X {"notice", "query"}
    BY <1>1, <1>3 DEF ReconState, SettlementInv, TypeOK
  <2>4. QED
    BY <1>3, <2>1, <2>2, <2>3 DEF SettlementInv, TypeOK
<1>6. JobsInv'
  <2>1. \A d \in Command \ {o} : recon'[d] = recon[d] /\ StateOf(d)' = StateOf(d)
    BY <1>3, <1>4 DEF StateOf
  <2>2. (Phase(o) /\ Refusal(o) /\ Evidence(o))'
    BY <1>1, <1>3, <1>4 DEF Phase, Refusal, Evidence, Worked
  <2>3. QED
    BY <1>1, <1>3, <2>1, <2>2, OtherCommands DEF SettlementInv
<1>7. MoneyInv'
  <2>1. RefundsAsked' /\ Asked' = Asked
    BY <1>3 DEF SettlementInv, MoneyInv, RefundsAsked, Asked
  <2>2. ASSUME NEW p \in Order
        PROVE  /\ RowAgrees(p)' /\ Reserved(p)' <= order'[p].settled
               /\ order'[p].refunded = ReservedSucceeded(p)'
    <3>1. Reserved(p)' = Reserved(p) /\ ReservedSucceeded(p)' = ReservedSucceeded(p)
      BY <1>3, SumsKept
    <3>2. /\ RowAgrees(p) /\ Reserved(p) <= order[p].settled /\ Reserved(p) \in Nat
          /\ order[p].refunded = ReservedSucceeded(p)
      BY SumTypes DEF SettlementInv, MoneyInv
    <3>3. RowAgrees(p)'
      BY <1>3, <1>4, <3>2, OrderConstants DEF RowAgrees, Settled
    <3>4. Reserved(p)' <= order'[p].settled
      BY <1>4, <3>1, <3>2, OrderConstants
    <3>5. QED
      BY <1>4, <3>1, <3>2, <3>3, <3>4
  <2>3. QED
    BY <2>1, <2>2 DEF SettlementInv, MoneyInv
<1>8. BenefitsFollowMoney'
  BY <1>4 DEF SettlementInv, BenefitsFollowMoney, Settled, Granted
<1>9. HandoffBacksPayment'
  <2>1. HandoffBacksPayment /\ UNCHANGED <<payment, remote>>
    BY <1>3 DEF SettlementInv
  <2>2. QED
    BY <1>4, <2>1, HandoffKept
<1>10. QED
  BY <1>5, <1>6, <1>7, <1>8, <1>9 DEF SettlementInv

-----------------------------------------------------------------------------
(* The invariant, and what it says.                                        *)

\* Every step is one of the runtime, of a payment, of a refund or of the shop.
LEMMA NextCases ==
  ASSUME Next
  PROVE  \/ EditProduct
         \/ \E o \in Order : Checkout(o)
         \/ \E o \in Order, state \in {"expired", "removed"} : TransitionMember(o, state)
         \/ \E r \in Refund, o \in Order, amount \in 1..Price : RequestRefundV2(r, o, amount)
         \/ \E o \in Order : \/ StageHandoff(o)
                             \/ FinishPayment(o)
                             \/ MarkPaymentReconciled(o)
                             \/ PaymentNotice(o) \/ SettleReconciledPayment(o)
         \/ \E r \in Refund : \/ FinishRefund(r)
                              \/ MarkRefundReconciled(r)
                              \/ RefundNotice(r) \/ SettleReconciledRefund(r)
         \/ \E c \in Command : Runtime(c)
<1>1. \A o \in Order : ReconcileStagedHandoff(o) => o \in Command /\ Runtime(o)
  BY DEF Runtime, Command
<1>2. ASSUME NEW o \in Order,
             \/ Checkout(o)
             \/ \E state \in {"expired", "removed"} : TransitionMember(o, state)
             \/ \E r \in Refund, amount \in 1..Price : RequestRefundV2(r, o, amount)
             \/ PaymentJob(o)
             \/ PaymentNotice(o)
             \/ MarkPaymentReconciled(o)
             \/ SettleReconciledPayment(o)
      PROVE  \/ Checkout(o)
             \/ \E state \in {"expired", "removed"} : TransitionMember(o, state)
             \/ \E r \in Refund, amount \in 1..Price : RequestRefundV2(r, o, amount)
             \/ StageHandoff(o) \/ FinishPayment(o) \/ MarkPaymentReconciled(o)
             \/ PaymentNotice(o) \/ SettleReconciledPayment(o)
             \/ \E c \in Command : Runtime(c)
  BY <1>1, <1>2 DEF PaymentJob
<1>3. CASE \E o \in Order :
             \/ Checkout(o)
             \/ \E state \in {"expired", "removed"} : TransitionMember(o, state)
             \/ \E r \in Refund, amount \in 1..Price : RequestRefundV2(r, o, amount)
             \/ PaymentJob(o)
             \/ PaymentNotice(o)
             \/ MarkPaymentReconciled(o)
             \/ SettleReconciledPayment(o)
  BY <1>2, <1>3
<1>4. CASE \E c \in Command :
             \/ EffectJob(c)
             \/ MoveMoney(c)
             \/ ReconcileJob(c)
             \/ JobFault(c)
             \/ ReconcileFault(c)
  BY <1>4 DEF Runtime
<1>5. CASE EditProduct \/ \E r \in Refund : \/ FinishRefund(r)
                                            \/ RefundNotice(r)
                                            \/ MarkRefundReconciled(r)
                                            \/ SettleReconciledRefund(r)
  BY <1>5
<1>6. QED
  BY <1>3, <1>4, <1>5 DEF Next

\* Every step keeps the invariant.
LEMMA SettlementStep ==
  ASSUME SettlementInv, [Next]_vars
  PROVE  SettlementInv'
<1>1. CASE UNCHANGED vars
  <2>1. TypeOK'
    BY <1>1 DEF vars, SettlementInv, TypeOK
  <2>2. JobsInv'
    BY <1>1 DEF vars, SettlementInv, JobsInv, Phase, Refusal, Evidence, Worked, StateOf
  <2>3. MoneyInv' /\ BenefitsFollowMoney'
    BY <1>1, MoneyKept, BenefitsKept DEF vars, SettlementInv
  <2>4. HandoffBacksPayment'
    BY <1>1 DEF vars, SettlementInv, HandoffBacksPayment
  <2>5. QED
    BY <2>1, <2>2, <2>3, <2>4 DEF SettlementInv
<1>2. CASE Next
  BY <1>2, NextCases, EditProductKeeps, CheckoutKeeps, TransitionMemberKeeps,
     RequestRefundKeeps, StageHandoffKeeps, FinishPaymentKeeps, MarkPaymentKeeps,
     PaymentSettlementKeeps, FinishRefundKeeps, MarkRefundKeeps, RefundSettlementKeeps,
     RuntimeKeeps
<1>3. QED
  BY <1>1, <1>2

\* The inductive invariant of payments and refunds.
THEOREM SettlementInvariant == Spec => []SettlementInv
<1>1. SettlementInv /\ [Next]_vars => SettlementInv'
  BY SettlementStep
<1>2. QED
  BY <1>1, InitInv, PTL DEF Spec

\* Every table holds values its columns admit.
THEOREM SettlementTyped == Spec => []TypeOK
<1>1. SettlementInv => TypeOK
  BY DEF SettlementInv
<1>2. QED
  BY <1>1, SettlementInvariant, PTL

\* WeChat Pay is asked once per command, whatever is cut off and run again.
THEOREM WeChatAskedOnce == Spec => []CalledOnce
<1>1. SettlementInv => CalledOnce
  BY DEF SettlementInv, JobsInv, Phase, CalledOnce
<1>2. QED
  BY <1>1, SettlementInvariant, PTL

\* An order asks for money only with a handoff that works, or when it has moved.
THEOREM PaymentHasHandoff == Spec => []HandoffBacksPayment
<1>1. SettlementInv => HandoffBacksPayment
  BY DEF SettlementInv
<1>2. QED
  BY <1>1, SettlementInvariant, PTL

\* Access goes with the money.
THEOREM AccessFollowsMoney == Spec => []BenefitsFollowMoney
<1>1. SettlementInv => BenefitsFollowMoney
  BY DEF SettlementInv
<1>2. QED
  BY <1>1, SettlementInvariant, PTL

\* Only what is asked and not refused may be held by WeChat Pay.
LEMMA HeldIsReserved ==
  ASSUME SettlementInv, NEW r \in Refund, remote[r] # "nothing"
  PROVE  refund[r].state \notin {"absent", "final_failed"}
<1>1. /\ r \in Command /\ StateOf(r) = refund[r].state
      /\ Phase(r) /\ Refusal(r)
  BY RefundCommand
<1>2. QED
  BY <1>1 DEF Phase, Refusal

\* The refunds WeChat Pay may have accepted never exceed what was paid.
LEMMA NotOverRefunded ==
  ASSUME SettlementInv
  PROVE  NeverOverRefunded
<1> SUFFICES ASSUME NEW o \in Order
             PROVE  SumOfRefunds({r \in RefundsOf(o) : remote[r] # "nothing"})
                      <= order[o].settled
  BY DEF NeverOverRefunded
<1> DEFINE H == {r \in RefundsOf(o) : remote[r] # "nothing"}
           C == Claims(refund, o)
<1>1. SumOfRefunds(H) = Amounts(refund, H)
  BY DEF SumOfRefunds, Amounts
<1>2. H \in SUBSET C /\ C \in SUBSET RefundsOf(o) /\ H \in SUBSET RefundsOf(o)
  BY HeldIsReserved DEF Claims, RefundsOf
<1>3. Reserved(o) = Amounts(refund, C) /\ Reserved(o) <= order[o].settled
  BY SumsAreAmounts DEF SettlementInv, MoneyInv
<1> HIDE DEF H, C
<1>4. ASSUME NEW S \in SUBSET RefundsOf(o)
      PROVE  /\ IsFiniteSet(S) /\ \A r \in S : refund[r].amount \in Nat
             /\ Amounts(refund, S) \in Nat
  <2>1. IsFiniteSet(S) /\ \A r \in S : refund[r].amount \in 1..Price
    BY RefundsOfOrder DEF SettlementInv
  <2>2. \A r \in S : refund[r].amount \in Nat
    BY <2>1, OrderConstants
  <2>3. QED
    BY <2>1, <2>2, AmountsType
<1>5. Amounts(refund, H) <= Amounts(refund, C)
  BY <1>2, <1>4, AmountsMonotone
<1>6. order[o].settled \in Nat
  BY OrderConstants DEF SettlementInv, TypeOK, OrderRow
<1>7. SumOfRefunds(H) <= order[o].settled
  BY <1>1, <1>2, <1>3, <1>4, <1>5, <1>6
<1>8. QED
  BY <1>7 DEF H

\* However requests, lost answers and closed refunds interleave, no more can be
\* refunded than was paid.
THEOREM OverRefundImpossible == Spec => []NeverOverRefunded
<1>1. SettlementInv => NeverOverRefunded
  BY NotOverRefunded
<1>2. QED
  BY <1>1, SettlementInvariant, PTL

\* The order's books agree with its refunds, each counted once.
THEOREM BooksAgree == Spec => []LedgerAgrees
<1>1. ASSUME SettlementInv, NEW o \in Order
      PROVE  /\ order[o].refunded = ReservedSucceeded(o)
             /\ RowAgrees(o) /\ order[o].status \in OrderStatus
  BY <1>1 DEF SettlementInv, MoneyInv, TypeOK, OrderRow
<1>2. ASSUME SettlementInv, NEW o \in Order
      PROVE  LET refunded == ReservedSucceeded(o)
             IN /\ order[o].refunded = refunded
                /\ order[o].settled = IF Settled(o) THEN Price ELSE 0
                /\ order[o].status = "paid" => refunded = 0
                /\ order[o].status = "partially_refunded" => 0 < refunded /\ refunded < Price
                /\ order[o].status = "refunded" <=> refunded = Price
  <2>1. /\ order[o].refunded = ReservedSucceeded(o)
        /\ RowAgrees(o) /\ order[o].status \in OrderStatus
    BY <1>1, <1>2
  <2>2. QED
    BY <2>1, OrderConstants DEF RowAgrees, Settled, OrderStatus
<1>3. SettlementInv => LedgerAgrees
  BY <1>2 DEF LedgerAgrees, ReservedSucceeded
<1>4. QED
  BY <1>3, SettlementInvariant, PTL

-----------------------------------------------------------------------------
(* The settlement implements the ledger.                                   *)

\* The ledger's variables, as the tables and WeChat Pay show them.
ClaimRows == [r \in Refund |->
                IF refund[r].state \in {"absent", "final_failed"}
                THEN [order |-> NoOrder, amount |-> 0]
                ELSE [order |-> refund[r].order, amount |-> refund[r].amount]]
MovedSet == {c \in Command : remote[c] = "moved"}
BookedSet == {o \in Order : Settled(o)} \union {r \in Refund : refund[r].state = "succeeded"}
OwnedSet == {o \in Order : benefit[o].entitlement = "active"}

\* The ledger sums the claims as the lemmas do.
LEMMA LedgerSums ==
  ASSUME NEW o, NEW R
  PROVE  Ledger!ClaimedOf(o, R) = Amounts(ClaimRows, {r \in R : ClaimRows[r].order = o})
BY DEF Ledger!ClaimedOf, ClaimRows, Amounts, MapThenSumSet, MapThenFoldSet,
       Ledger!MapThenSumSet, Ledger!MapThenFoldSet

\* Nothing is claimed, moved, booked or owned at first.
LEMMA InitImplements == Init => Ledger!Init
<1> SUFFICES ASSUME Init
             PROVE  Ledger!Init
  OBVIOUS
<1>1. ClaimRows = [r \in Refund |-> Ledger!NoClaim]
  BY DEF Init, ClaimRows, Ledger!NoClaim
<1>2. MovedSet = {} /\ BookedSet = {} /\ OwnedSet = {}
  BY DEF Init, MovedSet, BookedSet, OwnedSet, Settled
<1>3. QED
  BY <1>1, <1>2 DEF Ledger!Init, ClaimRows, MovedSet, BookedSet, OwnedSet

\* A step that moves nothing the ledger speaks of.
LEMMA Stutters ==
  ASSUME UNCHANGED <<ClaimRows, MovedSet, BookedSet, OwnedSet>>
  PROVE  [Ledger!Next]_(Ledger!vars)
BY DEF Ledger!vars, ClaimRows, MovedSet, BookedSet, OwnedSet

\* The claims are those of the table, and so is their sum for an order.
LEMMA ClaimedIsReserved ==
  ASSUME MoneyInv, NEW o \in Order
  PROVE  Ledger!ClaimedOf(o, Refund) = Reserved(o)
<1> DEFINE C == Claims(refund, o)
<1>1. {r \in Refund : ClaimRows[r].order = o} = C
  BY OrderConstants DEF ClaimRows, Claims, MoneyInv, RefundsAsked
<1>2. C \in SUBSET RefundsOf(o)
  BY DEF Claims, RefundsOf
<1>3. IsFiniteSet(C) /\ \A r \in C : r \in Refund /\ refund[r].state # "absent"
  BY <1>2, RefundsOfOrder
<1>4. \A r \in C : ClaimRows[r].amount = refund[r].amount
  BY <1>3 DEF Claims, ClaimRows
<1>5. Ledger!ClaimedOf(o, Refund) = Amounts(ClaimRows, C)
  BY <1>1, LedgerSums
<1>6. Reserved(o) = Amounts(refund, C)
  BY SumsAreAmounts
<1> HIDE DEF C
<1>7. QED
  BY <1>3, <1>4, <1>5, <1>6, AmountsSame

\* The request of a refund claims it.
LEMMA RequestImplements ==
  ASSUME SettlementInv, NEW r \in Refund, NEW o \in Order, NEW amount \in 1..Price,
         RequestRefundV2(r, o, amount)
  PROVE  Ledger!Next
<1>1. /\ UNCHANGED <<order, benefit, remote>> /\ refund[r].state = "absent"
      /\ refund \in [Refund -> RefundRow] /\ Settled(o)
      /\ refund' = [refund EXCEPT ![r] = [order |-> o, amount |-> amount,
                                          state |-> "accepted", bound |-> FALSE]]
      /\ Reserved(o) + amount <= order[o].settled
  BY DEF SettlementInv, TypeOK, RequestRefundV2, Settled
<1>2. order[o].settled = Price
  BY <1>1 DEF SettlementInv, MoneyInv, RowAgrees
<1>3. Ledger!ClaimedOf(o, Refund) + amount <= Price
  BY <1>1, <1>2, ClaimedIsReserved DEF SettlementInv
<1>4. ClaimRows[r] = Ledger!NoClaim /\ o \in BookedSet
  BY <1>1 DEF ClaimRows, Ledger!NoClaim, BookedSet
<1>5. ClaimRows' = [ClaimRows EXCEPT ![r] = [order |-> o, amount |-> amount]]
  BY <1>1 DEF ClaimRows
<1>6. UNCHANGED <<MovedSet, BookedSet, OwnedSet>>
  BY <1>1 DEF MovedSet, BookedSet, OwnedSet, Settled
<1>7. Ledger!Request(r, o, amount)
  BY <1>3, <1>4, <1>5, <1>6 DEF Ledger!Request, ClaimRows, MovedSet, BookedSet, OwnedSet
<1>8. QED
  BY <1>7 DEF Ledger!Next

\* The end of a refund's job drops the claim if WeChat Pay refused it.
LEMMA FinishRefundImplements ==
  ASSUME SettlementInv, NEW r \in Refund, FinishRefund(r)
  PROVE  [Ledger!Next]_(Ledger!vars)
<1> DEFINE row == [refund[r] EXCEPT !.state = job[r].state, !.bound = TRUE]
<1>1. /\ r \in Command /\ r \notin Order
      /\ StateOf(r) = refund[r].state
      /\ Phase(r) /\ Refusal(r)
      /\ refund[r] \in RefundRow /\ refund \in [Refund -> RefundRow]
      /\ job[r] \in JobRow
  BY RefundCommand DEF SettlementInv, TypeOK
<1>2. /\ job[r].pc = "returned" /\ refund[r].state \in {"accepted", "queued"}
      /\ job[r].state \in Outcome \union {"reconciled"}
  BY <1>1 DEF FinishRefund, Phase, Worked, JobRow
<1>3. /\ refund' = [refund EXCEPT ![r] = row] /\ UNCHANGED <<order, benefit, remote>>
  <2>1. refund[r].state \notin Terminal
    BY <1>2 DEF Terminal
  <2>2. QED
    BY <2>1 DEF FinishRefund
<1>4. /\ row.state = job[r].state /\ row.order = refund[r].order
      /\ row.amount = refund[r].amount
  BY <1>1 DEF RefundRow
<1> HIDE DEF row
<1>5. refund'[r] = row /\ \A q \in Refund : q # r => refund'[q] = refund[q]
  BY <1>1, <1>3
<1>6. UNCHANGED <<MovedSet, BookedSet, OwnedSet>>
  BY <1>2, <1>3, <1>4, <1>5 DEF MovedSet, BookedSet, OwnedSet, Settled, Outcome
<1>7. CASE job[r].state = "final_failed"
  <2>1. r \notin MovedSet
    BY <1>1, <1>2, <1>7 DEF MovedSet, Refusal
  <2>2. ClaimRows[r] # Ledger!NoClaim
    BY <1>2, OrderConstants
    DEF ClaimRows, Ledger!NoClaim, SettlementInv, MoneyInv, RefundsAsked
  <2>3. ClaimRows' = [ClaimRows EXCEPT ![r] = Ledger!NoClaim]
    BY <1>4, <1>5, <1>7 DEF ClaimRows, Ledger!NoClaim
  <2>4. Ledger!Drop(r)
    BY <1>6, <2>1, <2>2, <2>3 DEF Ledger!Drop, ClaimRows, MovedSet, BookedSet, OwnedSet
  <2>5. QED
    BY <2>4 DEF Ledger!Next
<1>8. CASE job[r].state # "final_failed"
  <2>1. ClaimRows' = ClaimRows
    BY <1>2, <1>4, <1>5, <1>8 DEF ClaimRows, Outcome
  <2>2. QED
    BY <1>6, <2>1, Stutters
<1>9. QED
  BY <1>7, <1>8

\* The settlement of a payment books it and hands the product over.
LEMMA PaymentSettlementImplements ==
  ASSUME SettlementInv, NEW o \in Order,
         PaymentNotice(o) \/ SettleReconciledPayment(o)
  PROVE  Ledger!Next
<1>1. /\ o \in Command /\ Evidence(o)
      /\ order \in [Order -> OrderRow] /\ order[o] \in OrderRow
  BY PaymentCommand
<1>2. PICK source \in {"notice", "query"} : ApplyPayment(o, source)
  BY DEF PaymentNotice, SettleReconciledPayment
<1>3. /\ UNCHANGED <<refund, remote>> /\ remote[o] = "moved"
      /\ order[o].status = "awaiting_payment"
      /\ order' = [order EXCEPT ![o].status = "paid", ![o].settled = Price]
      /\ benefit' = [benefit EXCEPT ![o] = Granted(o)]
  BY <1>1, <1>2
  DEF PaymentNotice, SettleReconciledPayment, Notices, ApplyPayment, PaymentApplicable, Evidence
<1>4. /\ order'[o].status = "paid"
      /\ \A p \in Order : p # o => order'[p] = order[p] /\ benefit'[p] = benefit[p]
      /\ benefit'[o].entitlement = "active"
  BY <1>1, <1>3 DEF OrderRow, SettlementInv, TypeOK, Granted
<1>5. UNCHANGED <<ClaimRows, MovedSet>>
  BY <1>3 DEF ClaimRows, MovedSet
<1>6. o \in MovedSet \ BookedSet
  BY <1>1, <1>3, OrderConstants DEF MovedSet, BookedSet, Settled
<1>7. BookedSet' = BookedSet \union {o} /\ OwnedSet' = OwnedSet \union {o}
  BY <1>3, <1>4 DEF BookedSet, OwnedSet, Settled
<1>8. Ledger!BookPayment(o)
  BY <1>5, <1>6, <1>7 DEF Ledger!BookPayment, ClaimRows, MovedSet, BookedSet, OwnedSet
<1>9. QED
  BY <1>8 DEF Ledger!Next

\* What the ledger counts for the order of a refund, this one included.
LEMMA BookedWith ==
  ASSUME SettlementInv, NEW r \in Refund, NEW o \in Order, refund[r].order = o,
         refund[r].state \in Settleable
  PROVE  /\ ClaimRows[r] = [order |-> o, amount |-> refund[r].amount]
         /\ Ledger!ClaimedOf(o, (BookedSet \intersect Refund) \union {r}) = RefundedWith(r)
<1> DEFINE R == Returns(refund, o)
<1>1. ClaimRows[r] = [order |-> o, amount |-> refund[r].amount]
  BY DEF ClaimRows, Settleable
<1>2. {q \in (BookedSet \intersect Refund) \union {r} : ClaimRows[q].order = o} = R \union {r}
  BY <1>1, OrderConstants DEF BookedSet, Returns, ClaimRows
<1>3. R \union {r} \in SUBSET RefundsOf(o) /\ R \in SUBSET RefundsOf(o) /\ r \notin R
  BY DEF Returns, RefundsOf, Settleable
<1>4. /\ IsFiniteSet(R) /\ IsFiniteSet(R \union {r})
      /\ \A q \in R \union {r} : refund[q].amount \in 1..Price
  BY <1>3, RefundsOfOrder DEF SettlementInv
<1>5. \A q \in R \union {r} : refund[q].amount \in Nat
  BY <1>4, OrderConstants
<1>6. \A q \in R \union {r} : ClaimRows[q].amount = refund[q].amount
  BY DEF Returns, ClaimRows, Settleable
<1>7. Ledger!ClaimedOf(o, (BookedSet \intersect Refund) \union {r})
        = Amounts(ClaimRows, R \union {r})
  BY <1>2, LedgerSums
<1>8. ReservedSucceeded(o) = Amounts(refund, R) /\ order[o].refunded = ReservedSucceeded(o)
  BY SumsAreAmounts DEF SettlementInv, MoneyInv
<1>9. RefundedWith(r) = order[o].refunded + refund[r].amount
  BY DEF RefundedWith
<1> HIDE DEF R
<1>10. Amounts(ClaimRows, R \union {r}) = Amounts(refund, R \union {r})
  BY <1>4, <1>6, AmountsSame
<1>11. Amounts(refund, R \union {r}) = refund[r].amount + Amounts(refund, R)
  BY <1>3, <1>4, <1>5, AmountsAdd
<1>12. Amounts(refund, R) \in Nat /\ refund[r].amount \in Nat
  BY <1>4, <1>5, AmountsType
<1>13. RefundedWith(r) = refund[r].amount + Amounts(refund, R)
  BY <1>8, <1>9, <1>12
<1>14. QED
  BY <1>1, <1>7, <1>10, <1>11, <1>13

\* The settlement of a refund books it, and takes the product back with the last.
LEMMA RefundSettlementImplements ==
  ASSUME SettlementInv, NEW r \in Refund,
         RefundNotice(r) \/ SettleReconciledRefund(r)
  PROVE  Ledger!Next
<1> DEFINE row == [refund[r] EXCEPT !.state = "succeeded"]
<1>1. PICK source \in {"notice", "query"} : ApplyRefund(r, source)
  BY DEF RefundNotice, SettleReconciledRefund
<1>2. /\ r \in Command /\ r \notin Order /\ Evidence(r)
      /\ refund[r] \in RefundRow /\ refund \in [Refund -> RefundRow]
  BY RefundCommand
<1>3. UNCHANGED remote /\ remote[r] = "moved"
  BY <1>2 DEF RefundNotice, SettleReconciledRefund, Notices, Evidence
<1>4. PICK o \in Order :
           /\ o = refund[r].order
           /\ refund[r].state \in Settleable
           /\ Settled(o)
           /\ Closes(r) <=> RefundedWith(r) = Price
           /\ refund' = [refund EXCEPT ![r] = row]
           /\ order' = [order EXCEPT ![o] = [@ EXCEPT
                          !.refunded = RefundedWith(r),
                          !.status = IF Closes(r) THEN "refunded" ELSE "partially_refunded"]]
           /\ benefit' = IF Closes(r) THEN [benefit EXCEPT ![o] = Compensated(o)] ELSE benefit
  BY <1>1, RefundSettles
<1>5. /\ row.state = "succeeded" /\ row.order = refund[r].order
      /\ row.amount = refund[r].amount
  BY <1>2 DEF RefundRow
<1> HIDE DEF row
<1>6. refund'[r] = row /\ \A q \in Refund : q # r => refund'[q] = refund[q]
  BY <1>2, <1>4
<1>7. \A p \in Order : Settled(p)' <=> Settled(p)
  <2>1. /\ order'[o].status \in {"refunded", "partially_refunded"}
        /\ \A p \in Order : p # o => order'[p] = order[p]
    BY <1>4 DEF SettlementInv, TypeOK, OrderRow
  <2>2. QED
    BY <1>4, <2>1 DEF Settled
<1>8. UNCHANGED <<ClaimRows, MovedSet>>
  <2>1. ClaimRows' = ClaimRows
    BY <1>4, <1>5, <1>6 DEF ClaimRows, Settleable
  <2>2. QED
    BY <1>3, <2>1 DEF MovedSet
<1>9. r \in MovedSet \ BookedSet
  BY <1>2, <1>3, <1>4 DEF MovedSet, BookedSet, Settleable
<1>10. BookedSet' = BookedSet \union {r}
  BY <1>5, <1>6, <1>7 DEF BookedSet
<1>11. OwnedSet' = IF Closes(r) THEN OwnedSet \ {o} ELSE OwnedSet
  BY <1>4 DEF OwnedSet, SettlementInv, TypeOK, Compensated
<1>12. /\ ClaimRows[r].order = o
       /\ Ledger!ClaimedOf(o, (BookedSet \intersect Refund) \union {r}) = RefundedWith(r)
  <2>1. refund[r].order = o /\ refund[r].state \in Settleable
    BY <1>4
  <2>2. /\ ClaimRows[r] = [order |-> o, amount |-> refund[r].amount]
        /\ Ledger!ClaimedOf(o, (BookedSet \intersect Refund) \union {r}) = RefundedWith(r)
    BY ONLY SettlementInv, r \in Refund, o \in Order, <2>1, BookedWith
  <2>3. QED
    BY ONLY <2>2
<1>13. OwnedSet' = IF Ledger!ClaimedOf(ClaimRows[r].order,
                                       (BookedSet \intersect Refund) \union {r}) = Price
                   THEN OwnedSet \ {ClaimRows[r].order} ELSE OwnedSet
  BY <1>4, <1>11, <1>12
<1>14. Ledger!BookRefund(r)
  BY <1>8, <1>9, <1>10, <1>13 DEF Ledger!BookRefund, ClaimRows, MovedSet, BookedSet, OwnedSet
<1>15. QED
  BY <1>14 DEF Ledger!Next

\* The runtime's steps move money at WeChat Pay, or nothing.
LEMMA RuntimeImplements ==
  ASSUME SettlementInv, NEW c \in Command, Runtime(c)
  PROVE  [Ledger!Next]_(Ledger!vars)
<1>1. UNCHANGED <<order, payment, refund, benefit>>
  BY DEF Runtime, EffectJob, StartAttempt, ReadOutcome, CallProvider, CompleteAttempt,
         MoveMoney, ReconcileJob, ReconcileNothing, QueryConfirms, SettlementRefused, JobFault,
         ReconcileFault, ReconcileStagedHandoff
<1>2. UNCHANGED <<ClaimRows, BookedSet, OwnedSet>>
  BY <1>1 DEF ClaimRows, BookedSet, OwnedSet, Settled
<1>3. CASE MoveMoney(c)
  <2>1. c \notin MovedSet /\ MovedSet' = MovedSet \union {c}
    BY <1>3 DEF MoveMoney, MovedSet, SettlementInv, TypeOK
  <2>2. CASE c \in Order
    <3>1. Ledger!Charge(c)
      BY <1>2, <2>1 DEF Ledger!Charge, ClaimRows, MovedSet, BookedSet, OwnedSet
    <3>2. QED
      BY <2>2, <3>1 DEF Ledger!Next
  <2>3. CASE c \in Refund
    <3>1. refund[c].state \notin {"absent", "final_failed"}
      BY <1>3, <2>3, HeldIsReserved DEF MoveMoney
    <3>2. ClaimRows[c] # Ledger!NoClaim
      BY <2>3, <3>1, OrderConstants
      DEF ClaimRows, Ledger!NoClaim, SettlementInv, MoneyInv, RefundsAsked
    <3>3. Ledger!Return(c)
      BY <1>2, <2>1, <3>2 DEF Ledger!Return, ClaimRows, MovedSet, BookedSet, OwnedSet
    <3>4. QED
      BY <2>3, <3>3 DEF Ledger!Next
  <2>4. QED
    BY <2>2, <2>3 DEF Command
<1>4. CASE CallProvider(c)
  <2>1. remote[c] = "nothing" /\ remote \in [Command -> RemoteState]
    BY <1>4 DEF CallProvider, SettlementInv, JobsInv, Phase, TypeOK
  <2>2. PICK there \in {"nothing", "prepared"} : remote' = [remote EXCEPT ![c] = there]
    BY <1>4, <2>1 DEF CallProvider, RemoteAfter
  <2>3. MovedSet' = MovedSet
    BY <2>1, <2>2 DEF MovedSet
  <2>4. QED
    BY <1>2, <2>3, Stutters
<1>5. CASE UNCHANGED remote
  <2>1. MovedSet' = MovedSet
    BY <1>5 DEF MovedSet
  <2>2. QED
    BY <1>2, <2>1, Stutters
<1>6. QED
  BY <1>3, <1>4, <1>5
  DEF Runtime, EffectJob, StartAttempt, ReadOutcome, CompleteAttempt, ReconcileJob,
      ReconcileNothing, QueryConfirms, SettlementRefused, JobFault, ReconcileFault,
      ReconcileStagedHandoff

\* The steps that sell, stage and mark move nothing in the ledger.
LEMMA OthersImplement ==
  ASSUME SettlementInv,
         \/ EditProduct
         \/ \E o \in Order : Checkout(o)
         \/ \E o \in Order, state \in {"expired", "removed"} : TransitionMember(o, state)
         \/ \E o \in Order : \/ StageHandoff(o)
                             \/ FinishPayment(o)
                             \/ MarkPaymentReconciled(o)
         \/ \E r \in Refund : MarkRefundReconciled(r)
  PROVE  [Ledger!Next]_(Ledger!vars)
<1>1. UNCHANGED remote
  BY DEF EditProduct, Checkout, TransitionMember, StageHandoff, FinishPayment,
         MarkPaymentReconciled, MarkRefundReconciled
<1>2. UNCHANGED MovedSet
  BY <1>1 DEF MovedSet
<1>3. UNCHANGED OwnedSet
  <2>1. \A o \in Order : benefit'[o].entitlement = benefit[o].entitlement
    <3>1. CASE benefit' = benefit
      BY <3>1
    <3>2. ASSUME NEW o \in Order, NEW state \in {"expired", "removed"},
                 TransitionMember(o, state)
          PROVE  \A p \in Order : benefit'[p].entitlement = benefit[p].entitlement
      BY <3>2 DEF TransitionMember, SettlementInv, TypeOK
    <3>3. QED
      BY <3>1, <3>2 DEF EditProduct, Checkout, StageHandoff, FinishPayment,
                        MarkPaymentReconciled, MarkRefundReconciled
  <2>2. QED
    BY <2>1 DEF OwnedSet
<1>4. CASE \E r \in Refund : MarkRefundReconciled(r)
  <2>1. PICK r \in Refund : MarkRefundReconciled(r)
    BY <1>4
  <2>2. /\ order' = order
        /\ \A q \in Refund : /\ refund'[q].order = refund[q].order
                             /\ refund'[q].amount = refund[q].amount
                             /\ refund'[q].state \in {"absent", "final_failed"}
                                  <=> refund[q].state \in {"absent", "final_failed"}
                             /\ refund'[q].state = "succeeded" <=> refund[q].state = "succeeded"
    BY <2>1 DEF MarkRefundReconciled, SettlementInv, TypeOK, RefundRow
  <2>3. UNCHANGED <<ClaimRows, BookedSet>>
    BY <2>2 DEF ClaimRows, BookedSet, Settled
  <2>4. QED
    BY <1>2, <1>3, <2>3, Stutters
<1>5. CASE ~ \E r \in Refund : MarkRefundReconciled(r)
  <2>1. refund' = refund
    BY <1>5 DEF EditProduct, Checkout, TransitionMember, StageHandoff, FinishPayment,
                MarkPaymentReconciled
  <2>2. \A p \in Order : Settled(p)' <=> Settled(p)
    <3>1. ASSUME NEW o \in Order, Checkout(o)
          PROVE  \A p \in Order : Settled(p)' <=> Settled(p)
      BY <3>1 DEF Checkout, Settled, SettlementInv, TypeOK, OrderRow
    <3>2. ASSUME NEW o \in Order, FinishPayment(o)
          PROVE  \A p \in Order : Settled(p)' <=> Settled(p)
      <4>1. \/ order' = order
            \/ /\ order[o].status = "awaiting_prepay"
               /\ order' = [order EXCEPT ![o].status = "awaiting_payment"]
        BY <3>2 DEF FinishPayment, OpensOrder
      <4>2. QED
        BY <4>1 DEF Settled, SettlementInv, TypeOK, OrderRow
    <3>3. ASSUME NEW o \in Order, MarkPaymentReconciled(o)
          PROVE  \A p \in Order : Settled(p)' <=> Settled(p)
      BY <3>3 DEF MarkPaymentReconciled, Settled, SettlementInv, TypeOK, OrderRow
    <3>4. CASE order' = order
      BY <3>4 DEF Settled
    <3>5. QED
      BY <1>5, <3>1, <3>2, <3>3, <3>4 DEF EditProduct, TransitionMember, StageHandoff
  <2>3. UNCHANGED <<ClaimRows, BookedSet>>
    BY <2>1, <2>2 DEF ClaimRows, BookedSet
  <2>4. QED
    BY <1>2, <1>3, <2>3, Stutters
<1>6. QED
  BY <1>4, <1>5

\* Every step is one of the ledger's, or a stutter.
LEMMA StepImplements ==
  ASSUME SettlementInv, [Next]_vars
  PROVE  [Ledger!Next]_(Ledger!vars)
<1>1. CASE UNCHANGED vars
  <2>1. UNCHANGED <<ClaimRows, MovedSet, BookedSet, OwnedSet>>
    BY <1>1 DEF vars, ClaimRows, MovedSet, BookedSet, OwnedSet, Settled
  <2>2. QED
    BY <2>1, Stutters
<1>2. CASE Next
  BY <1>2, NextCases, RequestImplements, FinishRefundImplements, PaymentSettlementImplements,
     RefundSettlementImplements, RuntimeImplements, OthersImplement
<1>3. QED
  BY <1>1, <1>2

\* The settlement implements its ledger: what is booked has moved, once, and was
\* claimed, within what was paid.
THEOREM SettlementImplementsLedger == Spec => ImplementsLedger
<1>1. SettlementInv /\ [Next]_vars => [Ledger!Next]_(Ledger!vars)
  BY StepImplements
<1>2. QED
  BY <1>1, InitImplements, SettlementInvariant, PTL DEF Spec, ImplementsLedger, Ledger!Spec

-----------------------------------------------------------------------------
(* The effects of orders and refunds are used as EffectPromise has them: a *)
(* second invariant, on top of the first.                                  *)

\* WeChat Pay holds what it answered to have carried out, wherever the success is
\* recorded.
Success(c) ==
  /\ effect[c].state = "executed" => remote[c] # "nothing"
  /\ job[c].pc = "answered" => remote[c] # "nothing"
  /\ job[c].pc = "staged" => job[c].state \in Outcome
  /\ job[c].pc \in {"staged", "returned"} /\ job[c].state = "executed"
       => remote[c] # "nothing"

HeldInv == SettlementInv /\ \A c \in Command : Success(c)

\* No job is under way at first.
LEMMA HeldInit == Init => HeldInv
<1> SUFFICES ASSUME Init
             PROVE  HeldInv
  OBVIOUS
<1>1. \A c \in Command : Success(c)
  BY DEF Init, NoJob, Success
<1>2. QED
  BY <1>1, InitInv DEF HeldInv

\* Steps after which a job is as it was, or ready, or not begun.
LEMMA HeldKept ==
  ASSUME HeldInv, SettlementInv', UNCHANGED <<effect, remote>>,
         \A c \in Command : job'[c] = job[c] \/ job'[c].pc = "ready"
  PROVE  HeldInv'
<1>1. ASSUME NEW c \in Command
      PROVE  Success(c)'
  <2>1. Success(c)
    BY DEF HeldInv
  <2>2. CASE job'[c] = job[c]
    BY <2>1, <2>2 DEF Success
  <2>3. CASE job'[c].pc = "ready"
    BY <2>1, <2>3 DEF Success
  <2>4. QED
    BY <2>2, <2>3
<1>2. QED
  BY <1>1 DEF HeldInv

\* A step that leaves the effects, jobs and money of the other commands alone.
LEMMA HeldOthers ==
  ASSUME HeldInv, SettlementInv', NEW c \in Command, Success(c)',
         \A d \in Command \ {c} : /\ job'[d] = job[d]
                                  /\ effect'[d] = effect[d]
                                  /\ remote'[d] = remote[d]
  PROVE  HeldInv'
<1>1. ASSUME NEW d \in Command \ {c}
      PROVE  Success(d)'
  BY DEF HeldInv, Success
<1>2. QED
  BY <1>1 DEF HeldInv

\* The steps of the jobs, of WeChat Pay and of reconciliation.
LEMMA HeldRuntime ==
  ASSUME HeldInv, SettlementInv', NEW c \in Command, Runtime(c)
  PROVE  HeldInv'
<1>1. /\ job \in [Command -> JobRow] /\ job[c] \in JobRow
      /\ effect \in [Command -> EffectRow] /\ effect[c] \in EffectRow
      /\ remote \in [Command -> RemoteState]
      /\ Success(c)
  BY DEF HeldInv, SettlementInv, TypeOK
<1>2. ASSUME NEW d \in Command \ {c}
      PROVE  job'[d] = job[d] /\ effect'[d] = effect[d] /\ remote'[d] = remote[d]
  BY <1>1
  DEF Runtime, EffectJob, StartAttempt, ReadOutcome, CallProvider,
      CompleteAttempt, MoveMoney, ReconcileJob, ReconcileNothing, QueryConfirms,
      SettlementRefused, JobFault, ReconcileFault, ReconcileStagedHandoff, Reconciles
<1>3. CASE StartAttempt(c)
  <2>1. job'[c].pc = "calling" /\ effect'[c].state = "attempted"
    BY <1>1, <1>3 DEF StartAttempt, JobRow, EffectRow
  <2>2. QED
    BY <1>2, <2>1, HeldOthers DEF Success
<1>4. CASE ReadOutcome(c)
  <2>1. /\ job'[c].pc = "returned" /\ job'[c].state = effect[c].state
        /\ UNCHANGED <<effect, remote>>
    BY <1>1, <1>4 DEF ReadOutcome
  <2>2. QED
    BY <1>1, <1>2, <2>1, HeldOthers DEF Success
<1>5. CASE CallProvider(c)
  <2>1. effect[c].state = "attempted" /\ remote[c] = "nothing"
    BY <1>5 DEF CallProvider, HeldInv, SettlementInv, JobsInv, Phase
  <2>2. PICK answer \in Outcome : \E there \in RemoteAfter(c, answer) :
          /\ remote' = [remote EXCEPT ![c] = there]
          /\ job' = [job EXCEPT ![c] =
               [pc |-> IF c \in Order /\ answer = "executed" THEN "answered" ELSE "staged",
                state |-> answer, digest |-> "other"]]
    BY <1>5 DEF CallProvider
  <2>3. /\ remote'[c] \in RemoteAfter(c, answer)
        /\ job'[c].pc = IF c \in Order /\ answer = "executed" THEN "answered" ELSE "staged"
        /\ job'[c].state = answer
        /\ effect' = effect
    BY <1>1, <1>5, <2>2 DEF CallProvider
  <2>4. answer = "executed" => remote'[c] # "nothing"
    BY <2>3 DEF RemoteAfter
  <2>5. Success(c)'
    BY <2>1, <2>3, <2>4 DEF Success
  <2>6. QED
    BY <1>2, <2>5, HeldOthers
<1>6. CASE CompleteAttempt(c)
  <2>1. /\ job[c].pc = "staged" /\ effect'[c].state = job[c].state
        /\ job'[c].pc = "returned" /\ job'[c].state = job[c].state
        /\ remote' = remote
    BY <1>1, <1>6 DEF CompleteAttempt, JobRow, EffectRow
  <2>2. QED
    BY <1>1, <1>2, <2>1, HeldOthers DEF Success
<1>7. CASE MoveMoney(c)
  <2>1. remote'[c] = "moved" /\ UNCHANGED <<job, effect>>
    BY <1>1, <1>7 DEF MoveMoney
  <2>2. QED
    BY <1>1, <1>2, <2>1, HeldOthers DEF Success
<1>8. CASE ReconcileJob(c) \/ (c \in Order /\ ReconcileStagedHandoff(c))
  <2>1. /\ remote' = remote
        /\ effect'[c].state = effect[c].state \/ effect'[c].state = "reconciled"
    BY <1>1, <1>8 DEF ReconcileJob, ReconcileNothing, QueryConfirms, SettlementRefused,
                      ReconcileStagedHandoff, Reconciles, EffectRow
  <2>2. job'[c] = job[c] \/ (job'[c].pc = "returned" /\ job'[c].state = "reconciled")
    BY <1>1, <1>8 DEF ReconcileJob, ReconcileNothing, QueryConfirms, SettlementRefused,
                      ReconcileStagedHandoff, JobRow
  <2>3. QED
    BY <1>1, <1>2, <2>1, <2>2, HeldOthers DEF Success
<1>9. CASE JobFault(c) \/ ReconcileFault(c)
  <2>1. \A d \in Command : job'[d] = job[d] \/ job'[d].pc = "ready"
    BY <1>1, <1>9 DEF JobFault, ReconcileFault, ReadyJob, NoJob
  <2>2. QED
    BY <1>9, <2>1, HeldKept DEF JobFault, ReconcileFault
<1>10. QED
  BY <1>3, <1>4, <1>5, <1>6, <1>7, <1>8, <1>9 DEF Runtime, EffectJob

\* A step that leaves effects and money alone, and jobs but for one that begins
\* or has its result stored.
Quiet ==
  /\ UNCHANGED <<effect, remote>>
  /\ \A c \in Command : \/ job'[c] = job[c]
                        \/ job[c].pc \in {"none", "returned"} /\ job'[c].pc = "ready"

\* So is every step that is not of the runtime and does not stage a handoff.
LEMMA OthersAreQuiet ==
  ASSUME SettlementInv, Next
  PROVE  Quiet \/ (\E o \in Order : StageHandoff(o)) \/ (\E c \in Command : Runtime(c))
<1>1. job \in [Command -> JobRow] /\ ReadyJob.pc = "ready"
  BY DEF SettlementInv, TypeOK, ReadyJob, NoJob
<1>2. ASSUME NEW c \in Command, job[c].pc \in {"none", "returned"},
             job' = [job EXCEPT ![c] = ReadyJob], UNCHANGED <<effect, remote>>
      PROVE  Quiet
  BY <1>1, <1>2 DEF Quiet
<1>3. ASSUME UNCHANGED <<effect, remote, job>>
      PROVE  Quiet
  BY <1>3 DEF Quiet
<1>4. ASSUME NEW o \in Order, Checkout(o)
      PROVE  Quiet
  <2>1. job[o].pc = "none"
    BY <1>4, PaymentCommand DEF Checkout, RowAgrees, Phase
  <2>2. QED
    BY <1>2, <1>4, <2>1, PaymentCommand DEF Checkout
<1>5. ASSUME NEW r \in Refund, NEW o \in Order, NEW amount \in 1..Price,
             RequestRefundV2(r, o, amount)
      PROVE  Quiet
  <2>1. job[r].pc = "none"
    BY <1>5, RefundCommand DEF RequestRefundV2, Phase
  <2>2. QED
    BY <1>2, <1>5, <2>1, RefundCommand DEF RequestRefundV2
<1>6. ASSUME NEW o \in Order, FinishPayment(o)
      PROVE  Quiet
  BY <1>2, <1>6, PaymentCommand DEF FinishPayment
<1>7. ASSUME NEW r \in Refund, FinishRefund(r)
      PROVE  Quiet
  BY <1>2, <1>7, RefundCommand DEF FinishRefund
<1>8. ASSUME NEW o \in Order,
             \/ MarkPaymentReconciled(o) \/ PaymentNotice(o) \/ SettleReconciledPayment(o)
      PROVE  Quiet
  BY <1>3, <1>8 DEF MarkPaymentReconciled, PaymentNotice, SettleReconciledPayment
<1>9. ASSUME NEW r \in Refund,
             \/ MarkRefundReconciled(r) \/ RefundNotice(r) \/ SettleReconciledRefund(r)
      PROVE  Quiet
  BY <1>3, <1>9 DEF MarkRefundReconciled, RefundNotice, SettleReconciledRefund
<1>10. CASE EditProduct
             \/ (\E o \in Order, state \in {"expired", "removed"} : TransitionMember(o, state))
  BY <1>3, <1>10 DEF EditProduct, TransitionMember
<1>11. QED
  BY NextCases, <1>4, <1>5, <1>6, <1>7, <1>8, <1>9, <1>10

\* What a staged handoff does to the tables of the jobs.
LEMMA StageHandoffJob ==
  ASSUME SettlementInv, NEW o \in Order, StageHandoff(o)
  PROVE  /\ o \in Command /\ job[o].pc = "answered" /\ UNCHANGED <<effect, remote>>
         /\ job'[o].pc = "staged" /\ job'[o].state \in {"executed", "outcome_unknown"}
         /\ \A d \in Command \ {o} : job'[d] = job[d]
<1>1. job \in [Command -> JobRow] /\ o \in Command
  BY PaymentCommand
<1>2. PICK state \in {"executed", "outcome_unknown"}, digest \in {"prepay", "other"} :
        job' = [job EXCEPT ![o] = [pc |-> "staged", state |-> state, digest |-> digest]]
  BY DEF StageHandoff, Stages
<1>3. QED
  BY <1>1, <1>2 DEF StageHandoff

\* Every step keeps the invariant.
LEMMA HeldStep ==
  ASSUME HeldInv, [Next]_vars
  PROVE  HeldInv'
<1>1. SettlementInv /\ SettlementInv'
  BY SettlementStep DEF HeldInv
<1>2. CASE UNCHANGED vars
  BY <1>1, <1>2, HeldKept DEF vars
<1>3. CASE Quiet
  BY <1>1, <1>3, HeldKept DEF Quiet
<1>4. ASSUME NEW o \in Order, StageHandoff(o)
      PROVE  HeldInv'
  <2>1. /\ o \in Command /\ job[o].pc = "answered" /\ UNCHANGED <<effect, remote>>
        /\ job'[o].pc = "staged" /\ job'[o].state \in {"executed", "outcome_unknown"}
        /\ \A d \in Command \ {o} : job'[d] = job[d]
    BY <1>1, <1>4, StageHandoffJob
  <2>2. Success(o)
    BY <2>1 DEF HeldInv
  <2>3. Success(o)'
    BY <2>1, <2>2 DEF Success, Outcome
  <2>4. QED
    BY <1>1, <2>1, <2>3, HeldOthers
<1>5. QED
  BY <1>1, <1>2, <1>3, <1>4, HeldRuntime, OthersAreQuiet

\* What is recorded as carried out, WeChat Pay holds.
THEOREM HeldInvariant == Spec => []HeldInv
<1>1. HeldInv /\ [Next]_vars => HeldInv'
  BY HeldStep
<1>2. QED
  BY <1>1, HeldInit, PTL DEF Spec

\* No command has an effect at first.
LEMMA InitPromised == Init => Effects!Init
<1> SUFFICES ASSUME Init
             PROVE  Effects!Init
  OBVIOUS
<1>1. PhaseOf = [c \in Command |-> "ready"]
  BY DEF Init, PhaseOf
<1>2. ArmedOf = {}
  BY DEF Init, ArmedOf, NoJob
<1>3. ExecutedOf = [c \in Command |-> 0]
  BY DEF Init, ExecutedOf
<1>4. QED
  BY <1>1, <1>2, <1>3 DEF Effects!Init

\* Steps that show nothing in the promise.
LEMMA PromiseStutters ==
  ASSUME UNCHANGED <<PhaseOf, ArmedOf, ExecutedOf>>
  PROVE  [Effects!Next]_(Effects!pvars)
BY DEF Effects!pvars

LEMMA QuietPromised ==
  ASSUME Quiet
  PROVE  [Effects!Next]_(Effects!pvars)
<1>1. PhaseOf' = PhaseOf /\ ExecutedOf' = ExecutedOf
  BY DEF Quiet, PhaseOf, ExecutedOf
<1>2. ArmedOf' = ArmedOf
  BY DEF Quiet, ArmedOf
<1>3. QED
  BY <1>1, <1>2, PromiseStutters

LEMMA StageHandoffPromised ==
  ASSUME SettlementInv, NEW o \in Order, StageHandoff(o)
  PROVE  [Effects!Next]_(Effects!pvars)
<1>1. /\ o \in Command /\ job[o].pc = "answered" /\ UNCHANGED <<effect, remote>>
      /\ job'[o].pc = "staged"
      /\ \A d \in Command \ {o} : job'[d] = job[d]
  BY StageHandoffJob
<1>2. PhaseOf' = PhaseOf /\ ExecutedOf' = ExecutedOf
  BY <1>1 DEF PhaseOf, ExecutedOf
<1>3. ArmedOf' = ArmedOf
  BY <1>1 DEF ArmedOf
<1>4. QED
  BY <1>2, <1>3, PromiseStutters

\* The views of one command, after a step of it.
LEMMA ViewsMove ==
  ASSUME SettlementInv, NEW c \in Command,
         \A d \in Command \ {c} : /\ job'[d] = job[d]
                                  /\ effect'[d] = effect[d]
                                  /\ remote'[d] = remote[d]
  PROVE  /\ PhaseOf' = [PhaseOf EXCEPT ![c] = PhaseOf'[c]]
         /\ ArmedOf' = IF job'[c].pc = "calling" THEN ArmedOf \union {c} ELSE ArmedOf \ {c}
         /\ ExecutedOf' = [ExecutedOf EXCEPT ![c] = ExecutedOf'[c]]
         /\ ArmedOf \subseteq Command
         /\ PhaseOf[c] = IF effect[c].state = "none" THEN "ready" ELSE effect[c].state
         /\ PhaseOf'[c] = IF effect'[c].state = "none" THEN "ready" ELSE effect'[c].state
         /\ ExecutedOf[c] = IF remote[c] = "nothing" THEN 0 ELSE 1
         /\ ExecutedOf'[c] = IF remote'[c] = "nothing" THEN 0 ELSE 1
         /\ PhaseOf = [PhaseOf EXCEPT ![c] = PhaseOf[c]]
         /\ ExecutedOf = [ExecutedOf EXCEPT ![c] = ExecutedOf[c]]
         /\ c \in ArmedOf <=> job[c].pc = "calling"
<1>1. PhaseOf' = [PhaseOf EXCEPT ![c] = PhaseOf'[c]]
  BY DEF PhaseOf
<1>2. ExecutedOf' = [ExecutedOf EXCEPT ![c] = ExecutedOf'[c]]
  BY DEF ExecutedOf
<1>3. ArmedOf' = IF job'[c].pc = "calling" THEN ArmedOf \union {c} ELSE ArmedOf \ {c}
  BY DEF ArmedOf
<1>4. PhaseOf = [PhaseOf EXCEPT ![c] = PhaseOf[c]]
  BY DEF PhaseOf
<1>5. ExecutedOf = [ExecutedOf EXCEPT ![c] = ExecutedOf[c]]
  BY DEF ExecutedOf
<1>6. QED
  BY <1>1, <1>2, <1>3, <1>4, <1>5 DEF PhaseOf, ExecutedOf, ArmedOf

\* A step of the runtime takes the promise's step of the same command, or none.
LEMMA RuntimePromised ==
  ASSUME HeldInv, NEW c \in Command, Runtime(c)
  PROVE  [Effects!Next]_(Effects!pvars)
<1>1. /\ SettlementInv
      /\ job \in [Command -> JobRow] /\ job[c] \in JobRow
      /\ effect \in [Command -> EffectRow] /\ effect[c] \in EffectRow
      /\ remote \in [Command -> RemoteState]
      /\ Success(c) /\ Phase(c) /\ Refusal(c)
  BY DEF HeldInv, SettlementInv, TypeOK, JobsInv
<1>2. ASSUME NEW d \in Command \ {c}
      PROVE  job'[d] = job[d] /\ effect'[d] = effect[d] /\ remote'[d] = remote[d]
  BY <1>1
  DEF Runtime, EffectJob, StartAttempt, ReadOutcome, CallProvider,
      CompleteAttempt, MoveMoney, ReconcileJob, ReconcileNothing, QueryConfirms,
      SettlementRefused, JobFault, ReconcileFault, ReconcileStagedHandoff, Reconciles
<1>3. /\ PhaseOf' = [PhaseOf EXCEPT ![c] = PhaseOf'[c]]
      /\ ArmedOf' = IF job'[c].pc = "calling" THEN ArmedOf \union {c} ELSE ArmedOf \ {c}
      /\ ExecutedOf' = [ExecutedOf EXCEPT ![c] = ExecutedOf'[c]]
      /\ PhaseOf[c] = IF effect[c].state = "none" THEN "ready" ELSE effect[c].state
      /\ PhaseOf'[c] = IF effect'[c].state = "none" THEN "ready" ELSE effect'[c].state
      /\ ExecutedOf[c] = IF remote[c] = "nothing" THEN 0 ELSE 1
      /\ ExecutedOf'[c] = IF remote'[c] = "nothing" THEN 0 ELSE 1
      /\ PhaseOf = [PhaseOf EXCEPT ![c] = PhaseOf[c]]
      /\ ExecutedOf = [ExecutedOf EXCEPT ![c] = ExecutedOf[c]]
      /\ c \in ArmedOf <=> job[c].pc = "calling"
  BY <1>1, <1>2, ViewsMove
<1>4. \* nothing to see
      ASSUME effect'[c].state = effect[c].state, remote'[c] = remote[c],
             job'[c].pc = "calling" <=> job[c].pc = "calling"
      PROVE  [Effects!Next]_(Effects!pvars)
  <2>1. PhaseOf' = PhaseOf /\ ExecutedOf' = ExecutedOf /\ ArmedOf' = ArmedOf
    BY <1>3, <1>4
  <2>2. QED
    BY <2>1, PromiseStutters
<1>5. CASE StartAttempt(c)
  <2>1. /\ effect[c].state = "none" /\ job[c].pc = "ready" /\ job'[c].pc = "calling"
        /\ effect'[c].state = "attempted" /\ remote' = remote
    BY <1>1, <1>5 DEF StartAttempt, MayAttempt, JobRow, EffectRow
  <2>2. Effects!Begin(c)
    BY <1>3, <2>1 DEF Effects!Begin
  <2>3. QED
    BY <2>2 DEF Effects!Next
<1>6. CASE ReadOutcome(c)
  <2>1. /\ job[c].pc = "ready" /\ job'[c].pc = "returned"
        /\ UNCHANGED <<effect, remote>>
    BY <1>1, <1>6 DEF ReadOutcome
  <2>2. QED
    BY <1>4, <2>1
<1>7. CASE CallProvider(c)
  <2>1. job[c].pc = "calling" /\ remote[c] = "nothing" /\ effect' = effect
    BY <1>1, <1>7 DEF CallProvider, Phase
  <2>2. job'[c].pc # "calling" /\ remote'[c] \in {"nothing", "prepared"}
    BY <1>1, <1>7, <2>1 DEF CallProvider, RemoteAfter
  <2>3. ExecutedOf' \in {ExecutedOf, [ExecutedOf EXCEPT ![c] = @ + 1]}
    BY <1>3, <2>1, <2>2
  <2>4. Effects!Call(c)
    BY <1>3, <2>1, <2>2, <2>3 DEF Effects!Call
  <2>5. QED
    BY <2>4 DEF Effects!Next
<1>8. CASE CompleteAttempt(c)
  <2>1. /\ job[c].pc = "staged" /\ job'[c].pc = "returned" /\ remote' = remote
        /\ effect[c].state = "attempted" /\ effect'[c].state = job[c].state
    BY <1>1, <1>8 DEF CompleteAttempt, JobRow, EffectRow
  <2>2. /\ PhaseOf[c] = "attempted" /\ PhaseOf' = [PhaseOf EXCEPT ![c] = job[c].state]
        /\ c \notin ArmedOf /\ ArmedOf' = ArmedOf /\ ExecutedOf' = ExecutedOf
    <3>1. job[c].state \in Outcome
      BY <1>1, <2>1 DEF Success
    <3>2. QED
      BY <1>3, <2>1, <3>1 DEF Outcome
  <2>3. CASE job[c].state = "executed"
    <3>1. Effects!SettleKnown(c, "executed")
      BY <1>1, <1>3, <2>1, <2>2, <2>3 DEF Effects!SettleKnown, Success
    <3>2. QED
      BY <3>1 DEF Effects!Next
  <2>4. CASE job[c].state = "final_failed"
    <3>1. Effects!SettleKnown(c, "final_failed")
      BY <1>1, <1>3, <2>1, <2>2, <2>4 DEF Effects!SettleKnown, Effects!Refusals, Refusal
    <3>2. QED
      BY <3>1 DEF Effects!Next, Effects!Refusals
  <2>5. CASE job[c].state = "outcome_unknown"
    <3>1. Effects!SettleUnknown(c)
      BY <2>2, <2>5 DEF Effects!SettleUnknown
    <3>2. QED
      BY <3>1 DEF Effects!Next
  <2>6. QED
    BY <1>1, <2>1, <2>3, <2>4, <2>5 DEF Success, Outcome
<1>9. CASE MoveMoney(c)
  <2>1. remote[c] = "prepared" /\ remote'[c] = "moved" /\ UNCHANGED <<job, effect>>
    BY <1>1, <1>9 DEF MoveMoney
  <2>2. PhaseOf' = PhaseOf /\ ExecutedOf' = ExecutedOf /\ ArmedOf' = ArmedOf
    BY <1>3, <2>1
  <2>3. QED
    BY <2>2, PromiseStutters
<1>10. \* a query's answer, or the staged handoff, is the runtime's evidence
       CASE QueryConfirms(c) \/ (c \in Order /\ ReconcileStagedHandoff(c))
  <2>1. /\ remote' = remote /\ effect'[c].state = "reconciled"
        /\ effect[c].state \in {"outcome_unknown", "reconciled"}
        /\ job'[c].pc = job[c].pc
    BY <1>1, <1>10
    DEF QueryConfirms, ReconcileStagedHandoff, Reconciles, MayReconcile, EffectRow, JobRow
  <2>2. CASE effect[c].state = "reconciled"
    BY <1>4, <2>1, <2>2
  <2>3. CASE effect[c].state = "outcome_unknown"
    <3>1. /\ PhaseOf[c] = "outcome_unknown" /\ PhaseOf' = [PhaseOf EXCEPT ![c] = "reconciled"]
          /\ ArmedOf' = ArmedOf /\ ExecutedOf' = ExecutedOf
      BY <1>3, <2>1, <2>3
    <3>2. Effects!Reconcile(c)
      BY <3>1 DEF Effects!Reconcile
    <3>3. QED
      BY <3>2 DEF Effects!Next
  <2>4. QED
    BY <2>1, <2>2, <2>3
<1>11. CASE ReconcileNothing(c) \/ SettlementRefused(c) \/ ReconcileFault(c)
  <2>1. UNCHANGED <<effect, remote, job>>
    BY <1>11 DEF ReconcileNothing, SettlementRefused, ReconcileFault
  <2>2. QED
    BY <1>4, <2>1
<1>12. CASE JobFault(c)
  <2>1. UNCHANGED <<effect, remote>> /\ job'[c].pc = "ready"
    BY <1>1, <1>12 DEF JobFault, ReadyJob, NoJob
  <2>2. CASE job[c].pc # "calling"
    BY <1>4, <2>1, <2>2
  <2>3. CASE job[c].pc = "calling"
    <3>1. c \in ArmedOf /\ ArmedOf' = ArmedOf \ {c} /\ UNCHANGED <<PhaseOf, ExecutedOf>>
      BY <1>3, <2>1, <2>3
    <3>2. Effects!Disarm(c)
      BY <3>1 DEF Effects!Disarm
    <3>3. QED
      BY <3>2 DEF Effects!Next
  <2>4. QED
    BY <2>2, <2>3
<1>13. QED
  BY <1>5, <1>6, <1>7, <1>8, <1>9, <1>10, <1>11, <1>12 DEF Runtime, EffectJob, ReconcileJob

\* Every step is one that the runtime promises, or shows nothing of it.
LEMMA StepPromised ==
  ASSUME HeldInv, [Next]_vars
  PROVE  [Effects!Next]_(Effects!pvars)
<1>1. SettlementInv
  BY DEF HeldInv
<1>2. CASE UNCHANGED vars
  BY <1>2, QuietPromised DEF Quiet, vars
<1>3. QED
  BY <1>1, <1>2, OthersAreQuiet, QuietPromised, StageHandoffPromised, RuntimePromised

\* The jobs of payments and refunds keep the promise that the runtime keeps: the
\* part of it that they see is one the runtime can give.
THEOREM OrdersKeepPromise == Spec => ImplementsEffects
<1>1. HeldInv /\ [Next]_vars => [Effects!Next]_(Effects!pvars)
  BY StepPromised
<1>2. QED
  BY <1>1, InitPromised, HeldInvariant, PTL DEF Spec, ImplementsEffects, Effects!Spec
=============================================================================
