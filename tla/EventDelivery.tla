---------------------------- MODULE EventDelivery ----------------------------
(***************************************************************************)
(* Delivery of logged events to their consumers (internal/events).         *)
(*                                                                         *)
(* A producer appends an event in its own transaction, and may accept the  *)
(* deliveries there too (Accept); the dispatcher finds the ones that are   *)
(* missing. Accepting inserts the delivery row and its River job. The      *)
(* job's worker (dispatcher/jobs.go) claims the delivery under a lease,    *)
(* lets the consumer work, and reports; the consumer's own transaction     *)
(* applies its effect, guarded by a receipt, and completes the delivery.   *)
(*                                                                         *)
(* An event of an unbound type has no delivery rows: the dispatcher gives  *)
(* it one job for the subscribers of its type, and the dispatched flag is  *)
(* all that says so.                                                       *)
(*                                                                         *)
(* A job is named by what it delivers and its number there; the lease      *)
(* owner is the job ("river:<id>").                                        *)
(***************************************************************************)
EXTENDS Naturals, Sequences, FiniteSets

CONSTANTS
  Event,        \* event_log rows of bound types
  Consumer,     \* the consumers bound to them
  Unbound,      \* event_log rows of the other types
  Routed,       \* those of them whose type has a subscriber
  Worker,       \* delivery goroutines
  Dispatcher,   \* dispatch jobs that may run at once
  BatchSize,    \* deliveries one dispatch accepts
  MaxAttempts,  \* River's max_attempts of a delivery job
  MaxFaults     \* bound on crashes, failed transactions and lost commits

ASSUME ConstantsAssumption ==
  /\ Routed \subseteq Unbound
  /\ Event \intersect Unbound = {}
  /\ (Event \X Consumer) \intersect Unbound = {}
  /\ BatchSize \in Nat \ {0}
  /\ MaxAttempts \in Nat \ {0}
  /\ MaxFaults \in Nat

VARIABLES
  event,       \* event_log, with its dispatched flag
  delivery,    \* event_deliveries
  river,       \* the River jobs of each delivery and unbound event
  applied,     \* effects of each delivery in the consumer's own tables
  worker,      \* what each delivery goroutine holds
  dispatcher,  \* the missing deliveries each dispatch has read
  faults

vars == <<event, delivery, river, applied, worker, dispatcher, faults>>

-----------------------------------------------------------------------------
Delivery == Event \X Consumer

DeliveriesOf(e) == {e} \X Consumer

\* What a job delivers.
Target == Delivery \union Unbound

Terminal == {"completed", "final_failed", "outcome_unknown"}

DeliveryStatus == {"absent", "pending", "processing"} \union Terminal

\* owner 0 is NULL; the lease is NULL, in the future, or past.
DeliveryRow == [status : DeliveryStatus, owner : Nat,
                lease : {"none", "live", "expired"}]

NoRow == [status |-> "absent", owner |-> 0, lease |-> "none"]

RiverRow == [state : {"available", "running", "retryable", "completed", "discarded"},
             attempt : 0..MaxAttempts]

NewJob == [state |-> "available", attempt |-> 0]

\* fetched: Work has started; consuming: it has claimed; failed, poison,
\* unknown: the consumer's error; ok, err: Work has returned.
Phase == {"idle", "fetched", "consuming", "failed", "poison", "unknown", "ok", "err"}

Held(w, pc) == worker[w].pc = pc

Goto(w, pc) == worker' = [worker EXCEPT ![w].pc = pc]

Put(d, row) == delivery' = [delivery EXCEPT ![d] = row]

Fault ==
  /\ faults < MaxFaults
  /\ faults' = faults + 1

-----------------------------------------------------------------------------
Init ==
  /\ event = [e \in Event \union Unbound |-> "absent"]
  /\ delivery = [d \in Delivery |-> NoRow]
  /\ river = [t \in Target |-> <<>>]
  /\ applied = [d \in Delivery |-> 0]
  /\ worker = [w \in Worker |-> [pc |-> "idle"]]
  /\ dispatcher = [x \in Dispatcher |-> {}]
  /\ faults = 0

-----------------------------------------------------------------------------
(* Append, Accept and Dispatch.                                            *)

\* Variant: an event that has its job is taken again.
UndispatchedAgain == {u \in Unbound : event[u] # "absent"}

Undispatched == {u \in Unbound : event[u] = "logged"}

Missing == {d \in Delivery : event[d[1]] # "absent" /\ delivery[d].status = "absent"}

\* Variant: a job is inserted although the delivery row exists.
AcceptsAgain(ds) ==
  /\ delivery' = [d \in Delivery |->
       IF d \in ds /\ delivery[d].status = "absent"
       THEN [NoRow EXCEPT !.status = "pending"] ELSE delivery[d]]
  /\ river' = [t \in Target |-> IF t \in ds THEN Append(river[t], NewJob) ELSE river[t]]

\* ReserveEventDelivery ON CONFLICT DO NOTHING: a delivery that exists is left
\* with the job it has. An unbound event gets a job without asking.
Accepts(ts) ==
  LET new == {t \in ts : t \in Unbound \/ delivery[t].status = "absent"}
  IN /\ delivery' = [d \in Delivery |->
          IF d \in new THEN [NoRow EXCEPT !.status = "pending"] ELSE delivery[d]]
     /\ river' = [t \in Target |-> IF t \in new THEN Append(river[t], NewJob) ELSE river[t]]

\* A producer that appends only, and leaves the deliveries to the dispatcher.
AppendEvent(e) ==
  /\ event[e] = "absent"
  /\ event' = [event EXCEPT ![e] = "logged"]
  /\ UNCHANGED <<delivery, river, applied, worker, dispatcher, faults>>

\* A producer that accepts its consumers' deliveries in the same transaction.
Publish(e) ==
  /\ event[e] = "absent"
  /\ event' = [event EXCEPT ![e] = "dispatched"]
  /\ Accepts(DeliveriesOf(e))
  /\ UNCHANGED <<applied, worker, dispatcher, faults>>

\* Every binding takes what is missing while the batch has room; rows that
\* another dispatch has locked are skipped.
TakesMost(x, ds) ==
  \/ Cardinality(ds) = BatchSize
  \/ ds = Missing
  \/ \E y \in Dispatcher \ {x} : dispatcher[y] # {}


\* The snapshot of ClaimEventsMissingDelivery. SKIP LOCKED does not keep two
\* dispatches apart: the rows may be locked after another one committed.
ClaimMissing(x, ds) ==
  /\ dispatcher[x] = {}
  /\ ds # {}
  /\ Cardinality(ds) <= BatchSize
  /\ TakesMost(x, ds)
  /\ dispatcher' = [dispatcher EXCEPT ![x] = ds]
  /\ UNCHANGED <<event, delivery, river, applied, worker, faults>>

\* What is left of the batch goes to unbound events; their rows are read under
\* lock, so that the flag read is the flag written. What the bound claims missed
\* meanwhile waits for the next dispatch.
DispatchBatch(x, us) ==
  LET room == BatchSize - Cardinality(dispatcher[x])
  IN /\ dispatcher[x] \union us # {}
     /\ us \subseteq Undispatched
     /\ Cardinality(us) <= room
     /\ Cardinality(us) = room \/ us = Undispatched
     /\ Accepts(dispatcher[x] \union us)
     /\ event' = [e \in DOMAIN event |->
          IF e \in us \/ \E d \in dispatcher[x] : d[1] = e THEN "dispatched" ELSE event[e]]
     /\ dispatcher' = [dispatcher EXCEPT ![x] = {}]
     /\ UNCHANGED <<applied, worker, faults>>

DispatchFails(x) ==
  /\ dispatcher[x] # {}
  /\ Fault
  /\ dispatcher' = [dispatcher EXCEPT ![x] = {}]
  /\ UNCHANGED <<event, delivery, river, applied, worker>>

-----------------------------------------------------------------------------
(* River (external).                                                       *)

Fetch(w, d, k) ==
  /\ Held(w, "idle")
  /\ river[d][k].state \in {"available", "retryable"}
  /\ river' = [river EXCEPT ![d][k].state = "running", ![d][k].attempt = @ + 1]
  /\ worker' = [worker EXCEPT ![w] = [pc |-> "fetched", for |-> d, job |-> k,
                                      attempt |-> river[d][k].attempt + 1]]
  /\ UNCHANGED <<event, delivery, applied, dispatcher, faults>>

\* Variant: attempts never run out.
AlwaysRetryable(n) == "retryable"

AfterFailure(n) == IF n < MaxAttempts THEN "retryable" ELSE "discarded"

Finish(w) ==
  LET d == worker[w].for
      k == worker[w].job
  IN /\ worker[w].pc \in {"ok", "err"}
     /\ river' = [river EXCEPT ![d][k].state =
          IF Held(w, "ok") THEN "completed" ELSE AfterFailure(worker[w].attempt)]
     /\ worker' = [worker EXCEPT ![w] = [pc |-> "idle"]]
     /\ UNCHANGED <<event, delivery, applied, dispatcher, faults>>

Works(w, d, k) == ~Held(w, "idle") /\ worker[w].for = d /\ worker[w].job = k

Rescue(d, k) ==
  /\ river[d][k].state = "running"
  /\ \A w \in Worker : ~Works(w, d, k)
  /\ river' = [river EXCEPT ![d][k].state = AfterFailure(river[d][k].attempt)]
  /\ UNCHANGED <<event, delivery, applied, worker, dispatcher, faults>>

Crash(w) ==
  /\ ~Held(w, "idle")
  /\ Fault
  /\ worker' = [worker EXCEPT ![w] = [pc |-> "idle"]]
  /\ UNCHANGED <<event, delivery, river, applied, dispatcher>>

-----------------------------------------------------------------------------
(* DeliveryWorker.Work.                                                    *)

\* Variant: an unknown outcome is tried again.
ClaimableWhenUnknown(row, k) ==
  \/ row.status \in {"pending", "outcome_unknown"}
  \/ row.status = "processing" /\ (row.owner = k \/ row.lease = "expired")

Claimable(row, k) ==
  \/ row.status = "pending"
  \/ row.status = "processing" /\ (row.owner = k \/ row.lease = "expired")

\* A settled delivery is not consumed again; another owner's live lease is an
\* error (ErrDeliveryLeaseActive).
Claim(w) ==
  LET d == worker[w].for
      k == worker[w].job
      row == delivery[d]
  IN /\ Held(w, "fetched")
     /\ worker[w].for \in Delivery
     /\ IF Claimable(row, k)
        THEN /\ Put(d, [status |-> "processing", owner |-> k, lease |-> "live"])
             /\ Goto(w, "consuming")
        ELSE /\ UNCHANGED delivery
             /\ Goto(w, IF row.status \in Terminal THEN "ok" ELSE "err")
     /\ UNCHANGED <<event, river, applied, dispatcher, faults>>

\* Variant: an event that no subscriber takes counts as consumed.
RoutedOrDropped(u) == TRUE

\* Router.Consume: is there a subscriber, and does it succeed? The one there is
\* (AuditSubscriber) always does.
RoutedTo(u) == u \in Routed

\* No claim, no lease, no receipt.
ConsumeUnbound(w) ==
  /\ Held(w, "fetched")
  /\ worker[w].for \in Unbound
  /\ Goto(w, IF RoutedTo(worker[w].for) THEN "ok" ELSE "err")
  /\ UNCHANGED <<event, delivery, river, applied, dispatcher, faults>>

\* Time passes the lease of a delivery.
Expire(d) ==
  /\ delivery[d].lease = "live"
  /\ Put(d, [delivery[d] EXCEPT !.lease = "expired"])
  /\ UNCHANGED <<event, river, applied, worker, dispatcher, faults>>

\* The status guard of CompleteEventDelivery, RetryEventDelivery and so on.
Owns(row, k) == row.status = "processing" /\ row.owner = k

Closed(row, status) == [row EXCEPT !.status = status, !.owner = 0, !.lease = "none"]

\* The receipt lets the effect happen once.
AppliedOnce(d) == IF applied[d] = 0 THEN 1 ELSE applied[d]

\* The consumer's transaction: receipt, effect and Complete.
Consumes(w) ==
  LET d == worker[w].for
  IN /\ Held(w, "consuming")
     /\ Owns(delivery[d], worker[w].job) \/ delivery[d].status = "completed"
     /\ applied' = [applied EXCEPT ![d] = AppliedOnce(d)]
     /\ Put(d, Closed(delivery[d], "completed"))
     /\ UNCHANGED <<event, river, dispatcher>>

Consume(w) ==
  /\ Consumes(w)
  /\ Goto(w, "ok")
  /\ UNCHANGED faults

\* The commit's answer is lost: Work sees an error.
ConsumeLost(w) ==
  /\ Consumes(w)
  /\ Fault
  /\ Goto(w, "failed")

\* The consumer's transaction does not commit.
Refuse(w) ==
  /\ Held(w, "consuming")
  /\ \E error \in {"failed", "poison", "unknown"} : Goto(w, error)
  /\ UNCHANGED <<event, delivery, river, applied, dispatcher, faults>>

\* The status a consumer's error leads to.
Reported(w) ==
  CASE Held(w, "unknown") -> "outcome_unknown"
    [] Held(w, "poison") \/ worker[w].attempt >= MaxAttempts -> "final_failed"
    [] OTHER -> "pending"

\* Variant: the report does not look at the delivery's status.
ReportsUnguarded(w) ==
  LET d == worker[w].for
  IN /\ Put(d, Closed(delivery[d], Reported(w)))
     /\ Goto(w, IF Reported(w) = "pending" THEN "err" ELSE "ok")

\* Retry, FinalFail, OutcomeUnknown: without a row of its own, an error.
Reports(w) ==
  LET d == worker[w].for
      owns == Owns(delivery[d], worker[w].job)
  IN /\ IF owns THEN Put(d, Closed(delivery[d], Reported(w))) ELSE UNCHANGED delivery
     /\ Goto(w, IF owns /\ Reported(w) # "pending" THEN "ok" ELSE "err")

Report(w) ==
  /\ worker[w].pc \in {"failed", "poison", "unknown"}
  /\ Reports(w)
  /\ UNCHANGED <<event, river, applied, dispatcher, faults>>

\* A transaction fails; after the job's timeout every one does.
Fail(w) ==
  /\ worker[w].pc \in {"fetched", "failed", "poison", "unknown"}
  /\ Fault
  /\ Goto(w, "err")
  /\ UNCHANGED <<event, delivery, river, applied, dispatcher>>

-----------------------------------------------------------------------------
WorkerStep(w) ==
  \/ Claim(w)
  \/ ConsumeUnbound(w)
  \/ Consume(w)
  \/ Refuse(w)
  \/ Report(w)
  \/ Finish(w)

Next ==
  \/ \E e \in Event \union Unbound : AppendEvent(e)
  \/ \E e \in Event : Publish(e)
  \/ \E x \in Dispatcher : \E ds \in SUBSET Missing : ClaimMissing(x, ds)
  \/ \E x \in Dispatcher : DispatchFails(x) \/ \E us \in SUBSET Undispatched : DispatchBatch(x, us)
  \/ \E d \in Delivery : Expire(d)
  \/ \E t \in Target : \E k \in DOMAIN river[t] :
       Rescue(t, k) \/ \E w \in Worker : Fetch(w, t, k)
  \/ \E w \in Worker : WorkerStep(w) \/ ConsumeLost(w) \/ Crash(w) \/ Fail(w)

Spec == Init /\ [][Next]_vars

\* The dispatch job runs every second; River fetches; goroutines run.
Fairness ==
  /\ \A w \in Worker : WF_vars(WorkerStep(w))
  /\ \A x \in Dispatcher : WF_vars(\E us \in SUBSET Undispatched : DispatchBatch(x, us))
  /\ SF_vars(\E x \in Dispatcher : \E ds \in SUBSET Missing : ClaimMissing(x, ds))
  /\ \A t \in Target :
       SF_vars(\E k \in DOMAIN river[t], w \in Worker : Fetch(w, t, k))

FairSpec == Spec /\ Fairness

-----------------------------------------------------------------------------
(* Properties.                                                             *)

TypeOK ==
  /\ event \in [Event \union Unbound -> {"absent", "logged", "dispatched"}]
  /\ delivery \in [Delivery -> DeliveryRow]
  /\ river \in [Target -> Seq(RiverRow)]
  /\ applied \in [Delivery -> Nat]
  /\ \A w \in Worker :
       \/ worker[w] = [pc |-> "idle"]
       \/ worker[w] \in [pc : Phase \ {"idle"}, for : Target, job : Nat \ {0},
                         attempt : 1..MaxAttempts]
  /\ dispatcher \in [Dispatcher -> SUBSET Delivery]
  /\ faults \in 0..MaxFaults

\* Producers and overlapping dispatches give a delivery one job and never a
\* second, and no delivery exists without its job (appender.go accept).
OneJobPerDelivery ==
  \A d \in Delivery : Len(river[d]) = IF delivery[d].status = "absent" THEN 0 ELSE 1

\* An unbound event is handed to River once, with its flag: two dispatches at a
\* time, or one after the other's failure, never give it a second job or none.
UnboundHandedOnce ==
  \A u \in Unbound : Len(river[u]) = IF event[u] = "dispatched" THEN 1 ELSE 0

\* A consumer's effect is there exactly when its delivery says completed: a
\* crash, a lost commit or an exhausted retry never reports a failure for an
\* effect that happened, nor applies it twice.
AppliedIffCompleted ==
  \A d \in Delivery : applied[d] = IF delivery[d].status = "completed" THEN 1 ELSE 0

\* A settled delivery is never consumed, retried or settled again.
SettledDeliveriesFinal ==
  [][\A d \in Delivery : delivery[d].status \in Terminal => delivery'[d] = delivery[d]]_vars


\* Unless something fails, an unbound event is not starved by the bound ones that
\* every batch begins with, and its job ends well just if a subscriber took it:
\* an empty route fails closed, until River gives the job up.
EveryUnboundEnds ==
  \A u \in Unbound :
    event[u] # "absent" ~>
      \/ \E k \in DOMAIN river[u] :
           river[u][k].state = IF u \in Routed THEN "completed" ELSE "discarded"
      \/ faults > 0

\* What docs/execution/slices/P4-W0-D01.md says of retries: when the attempts
\* are used up the consumer's delivery is final_failed.
ExhaustedIsSettled ==
  \A d \in Delivery : \A k \in DOMAIN river[d] :
    river[d][k].state = "discarded" => delivery[d].status \in Terminal
=============================================================================
