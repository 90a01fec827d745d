--------------------------- MODULE OrderSettlement ---------------------------
(***************************************************************************)
(* Payment and refund of an order (internal/order, contract "pe01/v1") and *)
(* the benefits they grant (internal/product/app/paid_settlement.go).      *)
(*                                                                         *)
(* A checkout writes the order and its payment command and enqueues a      *)
(* River job, which asks WeChat Pay for a prepay through the external      *)
(* effects runtime. The order is settled later, by the provider's callback *)
(* or, when the answer to the prepay was lost, by a reconcile job that     *)
(* queries the provider. Refunds run the same way.                         *)
(*                                                                         *)
(* A command is an order (its payment) or a refund. Every action on the    *)
(* tables is one transaction under the row locks of the command and order; *)
(* the steps of a job between them can be cut off anywhere. The runtime is *)
(* the one of ExternalEffects, seen through pe01_external_effects.go: what *)
(* precedes an attempt (accept, queue, claim) repeats without effect and   *)
(* is part of the attempt; no recovery of attempted effects is composed in.*)
(***************************************************************************)
EXTENDS Naturals, FiniteSets, FiniteSetsExt

CONSTANTS
  Order,
  Refund,
  ServicePeriod,  \* the orders of a service period product, which has members
  Price,          \* amount_minor of every order
  MaxVersion,     \* bound on edits of the product
  MaxFaults,      \* bound on crashes and failed transactions of jobs
  NoOrder

ASSUME OrderConstants ==
  /\ ServicePeriod \subseteq Order
  /\ Order \cap Refund = {}
  /\ Price \in Nat \ {0}
  /\ MaxVersion \in Nat \ {0}
  /\ MaxFaults \in Nat
  /\ NoOrder \notin Order

VARIABLES
  product,   \* the version of the product being sold
  order,     \* order_list_projections
  payment,   \* order_payment_commands
  refund,    \* order_financial_refunds
  benefit,   \* product_local_entitlements and service_period_members
  receipts,  \* order_provider_callback_receipts: the events applied
  effect,    \* external_effects and the digests recorded for them
  job,       \* the effect job of each command, and what its worker holds
  recon,     \* the reconcile job of each command
  remote,    \* what WeChat Pay holds of each command
  calls,     \* business calls that reached WeChat Pay for each command
  faults

vars == <<product, order, payment, refund, benefit, receipts,
          effect, job, recon, remote, calls, faults>>

Command == Order \union Refund

-----------------------------------------------------------------------------
OrderStatus == {"absent", "awaiting_prepay", "awaiting_payment", "paid",
                "partially_refunded", "refunded"}

OrderRow == [status : OrderStatus, productVersion : 0..MaxVersion,
             settled : 0..Price, refunded : 0..Price]

PaymentState == {"absent", "accepted", "queued", "prepay_ready", "outcome_unknown",
                 "reconciled", "final_failed"}

\* handoff: the staged JSAPI parameters, with the prepay digest they came with.
PaymentRow == [state : PaymentState, bound : BOOLEAN, handoff : BOOLEAN]

RefundState == {"absent", "accepted", "queued", "executed", "outcome_unknown",
                "reconciled", "succeeded", "final_failed"}

RefundRow == [order : Order \union {NoOrder}, amount : 0..Price, state : RefundState,
              bound : BOOLEAN]

Outcome == {"executed", "outcome_unknown", "final_failed"}

\* prepay: the digest of the handoff; query: of a query's answer; other: any.
Digest == {"none", "prepay", "query", "other"}

EffectRow == [state : {"none", "attempted", "reconciled"} \union Outcome,
              digest : Digest, evidence : Digest]

\* ready: River may run the job, or run it again after its worker was killed; on
\* a terminal command a run changes nothing, so that an ended job counts as ready.
\* calling: the attempt is persisted; answered: WeChat Pay has answered; staged:
\* so is the handoff; returned: the runtime has given a result, which the last
\* transaction is to store.
JobRow == [pc : {"none", "ready", "calling", "answered", "staged", "returned"},
           state : {"none", "reconciled"} \union Outcome, digest : Digest]

\* evidenced: the runtime holds the query's evidence; marked: so does the row.
ReconState == {"none", "ready", "evidenced", "marked", "done"}

\* prepared: WeChat Pay holds the prepay or the refund; moved: the money has.
RemoteState == {"nothing", "prepared", "moved"}

NoJob == [pc |-> "none", state |-> "none", digest |-> "none"]
ReadyJob == [NoJob EXCEPT !.pc = "ready"]

Terminal == {"prepay_ready", "executed", "outcome_unknown", "final_failed", "reconciled"}

Settled(o) == order[o].status \in {"paid", "partially_refunded", "refunded"}

StateOf(c) == IF c \in Order THEN payment[c].state ELSE refund[c].state

RefundsOf(o) == {r \in Refund : refund[r].order = o}

SumOfRefunds(R) == MapThenSumSet(LAMBDA r : refund[r].amount, R)

\* Variant: only settled refunds count as reserved.
ReservedSucceeded(o) == SumOfRefunds({r \in RefundsOf(o) : refund[r].state = "succeeded"})

\* CountReservedRefundAmount.
Reserved(o) == SumOfRefunds({r \in RefundsOf(o) : refund[r].state # "final_failed"})

-----------------------------------------------------------------------------
Init ==
  /\ product = 1
  /\ order = [o \in Order |-> [status |-> "absent", productVersion |-> 0,
                               settled |-> 0, refunded |-> 0]]
  /\ payment = [o \in Order |-> [state |-> "absent", bound |-> FALSE, handoff |-> FALSE]]
  /\ refund = [r \in Refund |-> [order |-> NoOrder, amount |-> 0, state |-> "absent",
                                 bound |-> FALSE]]
  /\ benefit = [o \in Order |-> [entitlement |-> "none", member |-> "none"]]
  /\ receipts = {}
  /\ effect = [c \in Command |-> [state |-> "none", digest |-> "none", evidence |-> "none"]]
  /\ job = [c \in Command |-> NoJob]
  /\ recon = [c \in Command |-> "none"]
  /\ remote = [c \in Command |-> "nothing"]
  /\ calls = [c \in Command |-> 0]
  /\ faults = 0

-----------------------------------------------------------------------------
(* Commands of the payer and of operators.                                 *)

\* A replayed key answers from its receipt and changes nothing.
Checkout(o) ==
  /\ order[o].status = "absent"
  /\ order' = [order EXCEPT ![o].status = "awaiting_prepay", ![o].productVersion = product]
  /\ payment' = [payment EXCEPT ![o].state = "accepted"]
  /\ job' = [job EXCEPT ![o] = ReadyJob]
  /\ UNCHANGED <<product, refund, benefit, receipts, effect, recon, remote, calls, faults>>

RequestRefundV2(r, o, amount) ==
  /\ refund[r].state = "absent"
  /\ order[o].status \in {"paid", "partially_refunded"}
  /\ Reserved(o) + amount <= order[o].settled
  /\ refund' = [refund EXCEPT ![r] = [order |-> o, amount |-> amount, state |-> "accepted",
                                      bound |-> FALSE]]
  /\ job' = [job EXCEPT ![r] = ReadyJob]
  /\ UNCHANGED <<product, order, payment, benefit, receipts, effect, recon, remote, calls,
                 faults>>

\* Any edit of the product, and enabling or disabling it, counts its version.
EditProduct ==
  /\ product < MaxVersion
  /\ product' = product + 1
  /\ UNCHANGED <<order, payment, refund, benefit, receipts, effect, job, recon, remote,
                 calls, faults>>

\* An operator ends the membership that a paid order created.
TransitionMember(o, state) ==
  /\ \/ state = "expired" /\ benefit[o].member = "active"
     \/ state = "removed" /\ benefit[o].member \in {"active", "expired"}
  /\ benefit' = [benefit EXCEPT ![o].member = state]
  /\ UNCHANGED <<product, order, payment, refund, receipts, effect, job, recon, remote,
                 calls, faults>>

-----------------------------------------------------------------------------
(* The effect job: ExecutePayment and ExecuteRefund.                       *)

\* Variant: an attempted effect is attempted again.
MayAttemptAgain(c) == effect[c].state \in {"none", "attempted"}

MayAttempt(c) == effect[c].state = "none"

\* The first transaction finds the command not terminal (else the job ends), and
\* the runtime persists the attempt.
StartAttempt(c) ==
  /\ job[c].pc = "ready"
  /\ StateOf(c) \notin Terminal
  /\ MayAttempt(c)
  /\ effect' = [effect EXCEPT ![c].state = "attempted"]
  /\ job' = [job EXCEPT ![c].pc = "calling"]
  /\ UNCHANGED <<product, order, payment, refund, benefit, receipts, recon, remote, calls,
                 faults>>

\* An effect that an earlier run finished is read back (GetTerminalOutcome): of
\* a reconciled one the digest of the attempt, not the evidence. One that an
\* earlier run left attempted is an error, and so is a refund that was settled
\* meanwhile (its last update is refused): the job is run again, and changes
\* nothing.
ReadOutcome(c) ==
  /\ job[c].pc = "ready"
  /\ StateOf(c) \notin Terminal \union {"succeeded"}
  /\ effect[c].state \in Outcome \union {"reconciled"}
  /\ job' = [job EXCEPT ![c] = [pc |-> "returned", state |-> effect[c].state,
                                digest |-> effect[c].digest]]
  /\ UNCHANGED <<product, order, payment, refund, benefit, receipts, effect, recon, remote,
                 calls, faults>>

\* Where WeChat Pay stands when it has answered so: a refusal has no effect
\* there, an unreadable or missing answer may have had one.
RemoteAfter(c, answer) ==
  CASE answer = "executed" -> {"prepared"}
    [] answer = "outcome_unknown" -> {remote[c], "prepared"}
    [] OTHER -> {remote[c]}

\* CreatePrepay or RequestRefund.
CallProvider(c) ==
  /\ job[c].pc = "calling"
  /\ \E answer \in Outcome : \E there \in RemoteAfter(c, answer) :
       /\ remote' = [remote EXCEPT ![c] = there]
       /\ job' = [job EXCEPT ![c] =
            [pc |-> IF c \in Order /\ answer = "executed" THEN "answered" ELSE "staged",
             state |-> answer, digest |-> "other"]]
  /\ calls' = [calls EXCEPT ![c] = @ + 1]
  /\ UNCHANGED <<product, order, payment, refund, benefit, receipts, effect, recon, faults>>


\* The handoff is stored while the command is accepted. When the commit fails,
\* or only its acknowledgement does, the adapter returns an error, which the
\* runtime completes as an unknown outcome with a digest of its own.
Stages(o) ==
  \/ /\ payment' = [payment EXCEPT ![o].handoff = TRUE]
     /\ job' = [job EXCEPT ![o] = [pc |-> "staged", state |-> "executed", digest |-> "prepay"]]
     /\ UNCHANGED faults
  \/ /\ faults < MaxFaults
     /\ faults' = faults + 1
     /\ \E stored \in BOOLEAN : payment' = [payment EXCEPT ![o].handoff = stored]
     /\ job' = [job EXCEPT ![o] =
                  [pc |-> "staged", state |-> "outcome_unknown", digest |-> "other"]]

StageHandoff(o) ==
  /\ job[o].pc = "answered"
  /\ payment[o].state = "accepted"
  /\ Stages(o)
  /\ UNCHANGED <<product, order, refund, benefit, receipts, effect, recon, remote, calls>>

\* The second transaction of RunAttempt, with the receipt digest of the answer.
CompleteAttempt(c) ==
  /\ job[c].pc = "staged"
  /\ effect[c].state = "attempted"
  /\ effect' = [effect EXCEPT ![c].state = job[c].state, ![c].digest = job[c].digest]
  /\ job' = [job EXCEPT ![c].pc = "returned"]
  /\ UNCHANGED <<product, order, payment, refund, benefit, receipts, recon, remote, calls,
                 faults>>

\* An unknown prepay whose handoff is stored after all is reconciled with it.
HasStagedHandoff(o) ==
  /\ job[o].state = "outcome_unknown"
  /\ payment[o].handoff
  /\ payment[o].state \in {"accepted", "queued"}

\* runtime.Reconcile: a second one succeeds only with the same evidence.
MayReconcile(c, evidence) ==
  \/ effect[c].state = "outcome_unknown"
  \/ effect[c].state = "reconciled" /\ effect[c].evidence = evidence

Reconciles(c, evidence) ==
  /\ MayReconcile(c, evidence)
  /\ effect' = [effect EXCEPT ![c].state = "reconciled", ![c].evidence = evidence]

ReconcileStagedHandoff(o) ==
  /\ job[o].pc = "returned"
  /\ HasStagedHandoff(o)
  /\ Reconciles(o, "prepay")
  /\ job' = [job EXCEPT ![o].state = "reconciled", ![o].digest = "prepay"]
  /\ UNCHANGED <<product, order, payment, refund, benefit, receipts, recon, remote, calls,
                 faults>>

\* bindPaymentIfNeeded and bindRefundIfNeeded.
MayBind(row) == row.bound \/ row.state = "accepted"

\* Variant: the state of the effect is stored as it is.
CompletedUnmapped(row, state, digest) == [row EXCEPT !.state = state]

\* CompletePaymentEffect: an executed result, or a reconciled one with the
\* digest of the handoff, is ready; every other one drops the handoff.
CompletedPayment(row, state, digest) ==
  IF \/ state = "executed"
     \/ state = "reconciled" /\ row.handoff /\ digest = "prepay"
  THEN [row EXCEPT !.state = "prepay_ready"]
  ELSE [row EXCEPT !.state = state, !.handoff = FALSE]

\* Variant: the order is not opened for payment in the same transaction.
LeavesOrderClosed(o, state) == UNCHANGED order

OpensOrder(o, state) ==
  order' = IF state = "prepay_ready" /\ order[o].status = "awaiting_prepay"
           THEN [order EXCEPT ![o].status = "awaiting_payment"] ELSE order

\* The last transaction of ExecutePayment. A command that is already terminal
\* stays as it is; an unknown one gets a reconcile job.
FinishPayment(o) ==
  LET row == CompletedPayment([payment[o] EXCEPT !.bound = TRUE], job[o].state, job[o].digest)
  IN /\ job[o].pc = "returned"
     /\ ~HasStagedHandoff(o)
     /\ MayBind(payment[o])
     /\ IF payment[o].state \in Terminal
        THEN UNCHANGED <<order, payment, recon>>
        ELSE /\ row.state = "prepay_ready" => payment[o].handoff
             /\ payment' = [payment EXCEPT ![o] = row]
             /\ OpensOrder(o, row.state)
             /\ recon' = [recon EXCEPT ![o] = IF row.state = "outcome_unknown"
                                              THEN "ready" ELSE @]
     /\ job' = [job EXCEPT ![o] = ReadyJob]
     /\ UNCHANGED <<product, refund, benefit, receipts, effect, remote, calls, faults>>

\* The last transaction of ExecuteRefund.
FinishRefund(r) ==
  /\ job[r].pc = "returned"
  /\ MayBind(refund[r])
  /\ refund[r].state # "succeeded"
  /\ IF refund[r].state \in Terminal
     THEN UNCHANGED <<refund, recon>>
     ELSE /\ refund' = [refund EXCEPT ![r].state = job[r].state, ![r].bound = TRUE]
          /\ recon' = [recon EXCEPT ![r] = IF job[r].state = "outcome_unknown"
                                           THEN "ready" ELSE @]
  /\ job' = [job EXCEPT ![r] = ReadyJob]
  /\ UNCHANGED <<product, order, payment, benefit, receipts, effect, remote, calls, faults>>

\* The worker is killed or one of its transactions fails: River runs the job
\* again, from the start.
JobFault(c) ==
  /\ job[c].pc \in {"calling", "answered", "staged", "returned"}
  /\ faults < MaxFaults
  /\ faults' = faults + 1
  /\ job' = [job EXCEPT ![c] = ReadyJob]
  /\ UNCHANGED <<product, order, payment, refund, benefit, receipts, effect, recon, remote,
                 calls>>

-----------------------------------------------------------------------------
(* Settlement: ApplyPaymentCallback and ApplyRefundCallback. An event is    *)
(* what was reported of a command, and by whom: the provider's own notice   *)
(* or a query of the reconcile job. One transaction checks, settles, moves  *)
(* the benefits and stores the receipt, or does nothing at all.             *)

\* LockProductForPaidSettlement: the version of the checkout (and still enabled,
\* which the version implies).
ProductUnchanged(o) == product = order[o].productVersion

Granted(o) == [entitlement |-> "active",
               member |-> IF o \in ServicePeriod THEN "active" ELSE "none"]

\* Variant: only an active membership is removed.
CompensatedIfActive(o) ==
  [entitlement |-> "revoked",
   member |-> IF benefit[o].member = "active" THEN "removed" ELSE benefit[o].member]

\* Whatever has become of the membership meanwhile, it ends removed.
Compensated(o) ==
  [entitlement |-> "revoked", member |-> IF o \in ServicePeriod THEN "removed" ELSE "none"]

PaymentApplicable(o, source) ==
  /\ <<o, source>> \notin receipts
  /\ order[o].status = "awaiting_payment"
  /\ ProductUnchanged(o)
  /\ benefit[o].entitlement = "none"

ApplyPayment(o, source) ==
  /\ PaymentApplicable(o, source)
  /\ order' = [order EXCEPT ![o].status = "paid", ![o].settled = Price]
  /\ benefit' = [benefit EXCEPT ![o] = Granted(o)]
  /\ receipts' = receipts \union {<<o, source>>}

\* Variant: a refund that already succeeded is applied again.
SettleableAgain == {"executed", "outcome_unknown", "reconciled", "succeeded"}

\* Variant: a refund whose answer was lost is not settled.
SettleableKnown == {"executed"}

Settleable == {"executed", "outcome_unknown", "reconciled"}

RefundedWith(r) == order[refund[r].order].refunded + refund[r].amount

\* Nothing is left to refund after this one: the benefits go too.
Closes(r) == RefundedWith(r) = order[refund[r].order].settled

RefundApplicable(r, source) ==
  /\ <<r, source>> \notin receipts
  /\ refund[r].state \in Settleable
  /\ order[refund[r].order].status \in {"paid", "partially_refunded"}
  /\ RefundedWith(r) <= order[refund[r].order].settled
  /\ Closes(r) => ProductUnchanged(refund[r].order)

ApplyRefund(r, source) ==
  LET o == refund[r].order
  IN /\ RefundApplicable(r, source)
     /\ refund' = [refund EXCEPT ![r].state = "succeeded"]
     /\ order' = [order EXCEPT ![o].refunded = RefundedWith(r),
                    ![o].status = IF Closes(r) THEN "refunded" ELSE "partially_refunded"]
     /\ benefit' = IF Closes(r) THEN [benefit EXCEPT ![o] = Compensated(o)] ELSE benefit
     /\ receipts' = receipts \union {<<r, source>>}

\* Variant: the notice of a refund is believed before the money has moved.
NoticesEarly(c) == remote[c] # "nothing"

\* WeChat Pay reports, any number of times, what has happened. The verifier
\* refuses every notice but that of a success.
Notices(c) == remote[c] = "moved"

PaymentNotice(o) ==
  /\ Notices(o)
  /\ ApplyPayment(o, "notice")
  /\ UNCHANGED <<product, payment, refund, effect, job, recon, remote, calls, faults>>

RefundNotice(r) ==
  /\ Notices(r)
  /\ ApplyRefund(r, "notice")
  /\ UNCHANGED <<product, payment, effect, job, recon, remote, calls, faults>>

\* The payer pays, or WeChat Pay carries the refund out: only what it prepared.
MoveMoney(c) ==
  /\ remote[c] = "prepared"
  /\ remote' = [remote EXCEPT ![c] = "moved"]
  /\ UNCHANGED <<product, order, payment, refund, benefit, receipts, effect, job, recon,
                 calls, faults>>

-----------------------------------------------------------------------------
(* The reconcile job: ReconcilePayment and ReconcileRefund.                *)

\* Nothing to do: the job ends.
NeedsNoReconcile(c) ==
  \/ StateOf(c) \in {"reconciled", "succeeded"}
  \/ c \in Order /\ Settled(c)

ReconcileNothing(c) ==
  /\ recon[c] = "ready"
  /\ NeedsNoReconcile(c)
  /\ recon' = [recon EXCEPT ![c] = "done"]
  /\ UNCHANGED <<product, order, payment, refund, benefit, receipts, effect, job, remote,
                 calls, faults>>

\* The query confirms that the money has moved; the runtime keeps its evidence.
QueryConfirms(c) ==
  /\ recon[c] = "ready"
  /\ ~NeedsNoReconcile(c)
  /\ StateOf(c) = "outcome_unknown"
  /\ remote[c] = "moved"
  /\ Reconciles(c, "query")
  /\ recon' = [recon EXCEPT ![c] = "evidenced"]
  /\ UNCHANGED <<product, order, payment, refund, benefit, receipts, job, remote, calls,
                 faults>>

\* A callback may have settled the order since the job read it.
MarkPaymentReconciled(o) ==
  /\ recon[o] = "evidenced"
  /\ payment' = IF payment[o].state = "outcome_unknown"
                THEN [payment EXCEPT ![o] = CompletedPayment(@, "reconciled", "query")]
                ELSE payment
  /\ order' = IF order[o].status = "awaiting_prepay"
              THEN [order EXCEPT ![o].status = "awaiting_payment"] ELSE order
  /\ recon' = [recon EXCEPT ![o] = "marked"]
  /\ UNCHANGED <<product, refund, benefit, receipts, effect, job, remote, calls, faults>>

MarkRefundReconciled(r) ==
  /\ recon[r] = "evidenced"
  /\ refund' = IF refund[r].state = "outcome_unknown"
               THEN [refund EXCEPT ![r].state = "reconciled"] ELSE refund
  /\ recon' = [recon EXCEPT ![r] = "marked"]
  /\ UNCHANGED <<product, order, payment, benefit, receipts, effect, job, remote, calls,
                 faults>>

\* The settlement that the query calls for, in a transaction of its own.
SettleReconciledPayment(o) ==
  /\ recon[o] = "marked"
  /\ ApplyPayment(o, "query")
  /\ recon' = [recon EXCEPT ![o] = "done"]
  /\ UNCHANGED <<product, payment, refund, effect, job, remote, calls, faults>>

SettleReconciledRefund(r) ==
  /\ recon[r] = "marked"
  /\ ApplyRefund(r, "query")
  /\ recon' = [recon EXCEPT ![r] = "done"]
  /\ UNCHANGED <<product, payment, effect, job, remote, calls, faults>>

\* The settlement is refused: the job fails and is run again.
SettlementRefused(c) ==
  /\ recon[c] = "marked"
  /\ IF c \in Order THEN ~PaymentApplicable(c, "query") ELSE ~RefundApplicable(c, "query")
  /\ recon' = [recon EXCEPT ![c] = "ready"]
  /\ UNCHANGED <<product, order, payment, refund, benefit, receipts, effect, job, remote,
                 calls, faults>>

ReconcileFault(c) ==
  /\ recon[c] \in {"evidenced", "marked"}
  /\ faults < MaxFaults
  /\ faults' = faults + 1
  /\ recon' = [recon EXCEPT ![c] = "ready"]
  /\ UNCHANGED <<product, order, payment, refund, benefit, receipts, effect, job, remote,
                 calls>>

-----------------------------------------------------------------------------
PaymentJob(o) ==
  \/ StageHandoff(o)
  \/ ReconcileStagedHandoff(o)
  \/ FinishPayment(o)

EffectJob(c) ==
  \/ StartAttempt(c)
  \/ ReadOutcome(c)
  \/ CallProvider(c)
  \/ CompleteAttempt(c)

ReconcileJob(c) ==
  \/ ReconcileNothing(c)
  \/ QueryConfirms(c)
  \/ SettlementRefused(c)

Next ==
  \/ EditProduct
  \/ \E o \in Order :
       \/ Checkout(o)
       \/ \E state \in {"expired", "removed"} : TransitionMember(o, state)
       \/ \E r \in Refund, amount \in 1..Price : RequestRefundV2(r, o, amount)
       \/ PaymentJob(o)
       \/ PaymentNotice(o)
       \/ MarkPaymentReconciled(o)
       \/ SettleReconciledPayment(o)
  \/ \E r \in Refund :
       \/ FinishRefund(r)
       \/ RefundNotice(r)
       \/ MarkRefundReconciled(r)
       \/ SettleReconciledRefund(r)
  \/ \E c \in Command :
       \/ EffectJob(c)
       \/ MoveMoney(c)
       \/ ReconcileJob(c)
       \/ JobFault(c)
       \/ ReconcileFault(c)

Spec == Init /\ [][Next]_vars

\* River runs the jobs until they succeed and WeChat Pay repeats its notices;
\* payers, operators and faults owe nothing.
Fairness ==
  /\ \A o \in Order :
       /\ WF_vars(PaymentJob(o))
       /\ WF_vars(PaymentNotice(o))
       /\ WF_vars(MarkPaymentReconciled(o))
       /\ WF_vars(SettleReconciledPayment(o))
  /\ \A r \in Refund :
       /\ WF_vars(FinishRefund(r))
       /\ WF_vars(RefundNotice(r))
       /\ WF_vars(MarkRefundReconciled(r))
       /\ WF_vars(SettleReconciledRefund(r))
  /\ \A c \in Command :
       /\ WF_vars(EffectJob(c))
       /\ WF_vars(ReconcileJob(c))

FairSpec == Spec /\ Fairness

-----------------------------------------------------------------------------
(* Properties                                                              *)

\* Every table holds values its columns admit (migrations/00079).
TypeOK ==
  /\ product \in 1..MaxVersion
  /\ order \in [Order -> OrderRow]
  /\ payment \in [Order -> PaymentRow]
  /\ refund \in [Refund -> RefundRow]
  /\ benefit \in [Order -> [entitlement : {"none", "active", "revoked"},
                            member : {"none", "active", "expired", "removed"}]]
  /\ receipts \subseteq Command \X {"notice", "query"}
  /\ effect \in [Command -> EffectRow]
  /\ job \in [Command -> JobRow]
  /\ recon \in [Command -> ReconState]
  /\ remote \in [Command -> RemoteState]
  /\ calls \in [Command -> Nat]
  /\ faults \in 0..MaxFaults

\* However requests, lost answers and closed refunds interleave, the refunds
\* WeChat Pay may have accepted never exceed what the payer paid
\* (CountReservedRefundAmount, under the order's lock).
NeverOverRefunded ==
  \A o \in Order :
    SumOfRefunds({r \in RefundsOf(o) : remote[r] # "nothing"}) <= order[o].settled

\* The order's refunded amount is that of its succeeded refunds, each counted
\* once although both a notice and a query can report it, and its status says so.
LedgerAgrees ==
  \A o \in Order :
    LET refunded == SumOfRefunds({r \in RefundsOf(o) : refund[r].state = "succeeded"})
    IN /\ order[o].refunded = refunded
       /\ order[o].settled = IF Settled(o) THEN Price ELSE 0
       /\ order[o].status = "paid" => refunded = 0
       /\ order[o].status = "partially_refunded" => 0 < refunded /\ refunded < Price
       /\ order[o].status = "refunded" <=> refunded = Price

\* Access goes with the money: owned from the settlement on, and gone with the
\* last refund, an expired or removed membership included (paid_settlement.go).
BenefitsFollowMoney ==
  \A o \in Order :
    /\ benefit[o].entitlement = CASE order[o].status = "refunded" -> "revoked"
                                  [] Settled(o) /\ order[o].status # "refunded" -> "active"
                                  [] OTHER -> "none"
    /\ benefit[o].member # "none" <=> o \in ServicePeriod /\ Settled(o)
    /\ order[o].status = "refunded" => benefit[o].member \notin {"active", "expired"}

\* An order asks the payer for money only with a handoff that works, or when the
\* money has already moved; and a handoff that works is never held back
\* (GetSelfScoped shows it only with an order that awaits payment).
HandoffBacksPayment ==
  \A o \in Order :
    /\ order[o].status = "awaiting_payment" /\ remote[o] # "moved"
         => payment[o].state = "prepay_ready" /\ payment[o].handoff
    /\ payment[o].state = "prepay_ready" => order[o].status # "awaiting_prepay"

\* Whatever is cut off and run again, WeChat Pay is asked once per command: an
\* attempt whose answer was lost is queried, never repeated.
CalledOnce == \A c \in Command : calls[c] <= 1

Ledger == INSTANCE OrderLedger WITH
  claim <- [r \in Refund |->
              IF refund[r].state \in {"absent", "final_failed"}
              THEN [order |-> NoOrder, amount |-> 0]
              ELSE [order |-> refund[r].order, amount |-> refund[r].amount]],
  moved <- {c \in Command : remote[c] = "moved"},
  booked <- {o \in Order : Settled(o)} \union {r \in Refund : refund[r].state = "succeeded"},
  owned <- {o \in Order : benefit[o].entitlement = "active"}

\* Every step of the jobs, notices and commands is one of the ledger's or moves
\* nothing in it: what is booked has moved, once, and was claimed.
ImplementsLedger == Ledger!Spec

\* The runtime as this module sees it, in the words of what ExternalEffects
\* implements too: a call that is to come is that of the job in "calling".
PhaseOf == [c \in Command |-> IF effect[c].state = "none" THEN "ready" ELSE effect[c].state]

ArmedOf == {c \in Command : job[c].pc = "calling"}

ExecutedOf == [c \in Command |-> IF remote[c] = "nothing" THEN 0 ELSE 1]

Effects == INSTANCE EffectPromise WITH
  Effect <- Command, phase <- PhaseOf, armed <- ArmedOf, executed <- ExecutedOf

\* The jobs use effects as the runtime promises them, and their own shortcuts
\* (reading outcomes back, reconciling by handoff or query) break none of it: a
\* prepay or refund that is executed, or refused, in the books of the runtime is
\* held, or not, by WeChat Pay.
ImplementsEffects == Effects!Spec

\* The effect was left attempted by a worker that died: every later run fails.
Stranded(c) == effect[c].state = "attempted" /\ job[c].pc = "ready"

\* A crash after the staged handoff was reconciled has dropped the handoff.
HandoffLost(o) == payment[o].state = "reconciled" /\ order[o].status = "awaiting_prepay"


\* A refund that WeChat Pay has carried out is booked in the end, with the same
\* exceptions; only the refund that closes the order needs the product.
RefundIsBooked ==
  \A r \in Refund :
    remote[r] = "moved" ~> \/ refund[r].state = "succeeded"
                           \/ Stranded(r)
                           \/ \E o \in Order : /\ refund[r].order = o
                                               /\ Closes(r)
                                               /\ ~ProductUnchanged(o)
=============================================================================
