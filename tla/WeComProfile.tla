----------------------------- MODULE WeComProfile -----------------------------
(***************************************************************************)
(* The WeCom contact profile writeback (internal/wecom/profile): an owner  *)
(* of external effects that keeps a row of its own for every effect, with  *)
(* the state operators see. The row follows the runtime in transactions of *)
(* its own: after the claim (RecordClaim) and after the attempt            *)
(* (CompleteAttempt); queueing and reconciling change both together.       *)
(* Operators may also control the effect in the runtime alone: its service *)
(* does not freeze this kind (typedDomainControlRequired), and then the    *)
(* row does not follow. internal/wecom/tag follows the runtime in the same *)
(* steps; its kind is frozen.                                              *)
(***************************************************************************)
EXTENDS ExternalEffects

VARIABLES
  binding,  \* wecom_contact_profile_effects: state, generation, fence
  run       \* what each worker of the effect's job holds beside the runtime's

profileVars == <<effect, attempt, receipts, evidence, recorded, worker, executed,
                 abandons, binding, run>>

BindingRow == [state : {"absent", "queued", "executed", "outcome_unknown",
                        "final_failed", "reconciled"},
               generation : 0..MaxGeneration, fence : 0..MaxFence]

\* claimed: the claim is not recorded yet; recorded: it is, and the attempt runs;
\* completed: the runtime has its result, which the row has not.
RunRow == [pc : {"none", "claimed", "recorded", "completed"}, effect : Effect \union {NoEffect},
           generation : 0..MaxGeneration, fence : 0..MaxFence,
           state : {"none", "executed", "outcome_unknown", "final_failed"}]

NoRun == [pc |-> "none", effect |-> NoEffect, generation |-> 0, fence |-> 0,
          state |-> "none"]

ProfileInit ==
  /\ Init
  /\ binding = [e \in Effect |-> [state |-> "absent", generation |-> 0, fence |-> 0]]
  /\ run = [w \in Worker |-> NoRun]

-----------------------------------------------------------------------------
\* Accept, Reserve, the River job, Queue and MarkQueued in one transaction.
QueueInTransaction(e, key) ==
  LET accepted == [effect[e] EXCEPT !.state = "accepted", !.generation = 1]
  IN /\ effect[e].state = "absent"
     /\ accepted.generation < MaxGeneration
     /\ WriteReceipt("queue", e, key)
     /\ effect' = [effect EXCEPT ![e] = Requeued(accepted)]
     /\ binding' = [binding EXCEPT ![e] =
          [state |-> "queued", generation |-> Requeued(accepted).generation, fence |-> 0]]
     /\ UNCHANGED <<attempt, evidence, recorded, worker, executed, abandons, run>>

\* Execute reads the row, which is queued whenever the effect is, and claims.
ClaimEffect(w, e) ==
  /\ run[w].pc = "none"
  /\ binding[e].state = "queued"
  /\ Claim(w, e)
  /\ run' = [run EXCEPT ![w] = [NoRun EXCEPT !.pc = "claimed", !.effect = e]]
  /\ UNCHANGED binding

\* Variant: the claim is recorded whatever the effect's fence is by then.
MayRecordAny(w) ==
  /\ binding[worker[w].effect].state = "queued"
  /\ effect[worker[w].effect].state = "queued"

MayRecord(w) ==
  /\ binding[worker[w].effect].state = "queued"
  /\ effect[worker[w].effect].state = "queued"
  /\ HoldsFence(w)

RecordClaim(w) ==
  LET e == worker[w].effect
  IN /\ run[w].pc = "claimed"
     /\ MayRecord(w)
     /\ binding' = [binding EXCEPT ![e].generation = worker[w].generation,
                                   ![e].fence = worker[w].fence]
     /\ run' = [run EXCEPT ![w].pc = "recorded"]
     /\ UNCHANGED vars

ClaimOvertaken(w) ==
  /\ run[w].pc = "claimed"
  /\ ~MayRecord(w)
  /\ worker' = [worker EXCEPT ![w] = Idle]
  /\ run' = [run EXCEPT ![w] = NoRun]
  /\ UNCHANGED <<effect, attempt, receipts, evidence, recorded, executed, abandons, binding>>

\* RunAttempt, up to its second transaction. The writer's result is executed,
\* unknown or final.
RunAttempt(w) ==
  /\ run[w].pc = "recorded"
  /\ \/ PersistAttempt(w)
     \/ Execute(w) /\ worker'[w].answer # "retryable_failed"
  /\ UNCHANGED <<binding, run>>

AttemptRejected(w) ==
  /\ run[w].pc = "recorded"
  /\ PersistRejected(w) \/ CompleteRejected(w)
  /\ run' = [run EXCEPT ![w] = NoRun]
  /\ UNCHANGED binding

AttemptCompleted(w) ==
  /\ run[w].pc = "recorded"
  /\ CompleteAttempt(w)
  /\ run' = [run EXCEPT ![w] =
       [pc |-> "completed", effect |-> worker[w].effect, generation |-> worker[w].generation,
        fence |-> worker[w].fence, state |-> worker[w].answer]]
  /\ UNCHANGED binding

\* Variant: an attempt's error returns before the row is written.
MayCompleteUnlessError(w) ==
  LET e == run[w].effect
  IN /\ run[w].state = "executed"
     /\ binding[e].state = "queued"
     /\ effect[e].state = run[w].state
     /\ effect[e].fence = run[w].fence

\* What the row's update joins with: the effect, the claim and the attempt.
MayCompleteBinding(w) ==
  LET e == run[w].effect
  IN /\ binding[e].state = "queued"
     /\ binding[e].generation = run[w].generation
     /\ binding[e].fence = run[w].fence
     /\ effect[e].state = run[w].state
     /\ effect[e].generation = run[w].generation
     /\ effect[e].fence = run[w].fence
     /\ \E n \in Number :
          /\ attempt[e][n].generation = run[w].generation
          /\ attempt[e][n].fence = run[w].fence
          /\ attempt[e][n].completion = run[w].state

\* Variant: the row is unknown whatever the result.
CompletesBindingUnknown(w) ==
  binding' = [binding EXCEPT ![run[w].effect].state = "outcome_unknown"]

CompletesBinding(w) ==
  binding' = [binding EXCEPT ![run[w].effect].state = run[w].state]

CompleteBinding(w) ==
  /\ run[w].pc = "completed"
  /\ MayCompleteBinding(w)
  /\ CompletesBinding(w)
  /\ run' = [run EXCEPT ![w] = NoRun]
  /\ UNCHANGED vars

\* No row is updated: the job fails, and its next run finds nothing to claim.
BindingRefused(w) ==
  /\ run[w].pc = "completed"
  /\ ~MayCompleteBinding(w)
  /\ run' = [run EXCEPT ![w] = NoRun]
  /\ UNCHANGED <<effect, attempt, receipts, evidence, recorded, worker, executed,
                 abandons, binding>>

\* An operator decides an unknown outcome, in the runtime and in the row.
ReconcileProfile(e, key) ==
  /\ binding[e].state = "outcome_unknown"
  /\ binding[e].generation = effect[e].generation
  /\ binding[e].fence = effect[e].fence
  /\ Reconcile(e, key)
  /\ binding' = [binding EXCEPT ![e].state = "reconciled"]
  /\ UNCHANGED run

\* An operator's command to the runtime itself. A retry has nothing to retry.
ControlDirectly(e, key) ==
  /\ Cancel(e, key) \/ Reconcile(e, key)
  /\ UNCHANGED <<binding, run>>

\* The worker is killed or its transaction fails, in the runtime's steps or
\* between the runtime's result and the row.
Die(w) ==
  /\ \/ Abandon(w)
     \/ /\ run[w].pc = "completed"
        /\ abandons < MaxAbandons
        /\ abandons' = abandons + 1
        /\ UNCHANGED <<effect, attempt, receipts, evidence, recorded, worker, executed>>
  /\ run' = [run EXCEPT ![w] = NoRun]
  /\ UNCHANGED binding

ExpireLease(e) == Expire(e) /\ UNCHANGED <<binding, run>>

ExecuteStep(w) ==
  \/ RecordClaim(w)
  \/ ClaimOvertaken(w)
  \/ RunAttempt(w)
  \/ AttemptRejected(w)
  \/ AttemptCompleted(w)
  \/ CompleteBinding(w)
  \/ BindingRefused(w)

ProfileNext ==
  \/ \E e \in Effect : ExpireLease(e)
  \/ \E e \in Effect, key \in Key : 
       QueueInTransaction(e, key) \/ ReconcileProfile(e, key) \/ ControlDirectly(e, key)
  \/ \E w \in Worker, e \in Effect : ClaimEffect(w, e)
  \/ \E w \in Worker : ExecuteStep(w) \/ Die(w)

\* The goroutines run on; nothing else is owed.
ProfileSpec ==
  /\ ProfileInit
  /\ [][ProfileNext]_profileVars
  /\ \A w \in Worker : WF_profileVars(ExecuteStep(w))

-----------------------------------------------------------------------------
ProfileTypeOK ==
  /\ TypeOK
  /\ binding \in [Effect -> BindingRow]
  /\ run \in [Worker -> RunRow]

\* The row's last update joins six conditions of four tables: whoever claims and
\* completes meanwhile, it misses only what an operator has reconciled directly.
CompletionFits ==
  \A w \in Worker :
    run[w].pc = "completed"
      => MayCompleteBinding(w) \/ effect[run[w].effect].state = "reconciled"

\* What operators see is what the runtime holds: a row shows a result only when
\* the runtime has it, under the same claim, but for an unknown one that was
\* reconciled in the runtime alone.
BindingAgrees ==
  \A e \in Effect :
    binding[e].state \notin {"absent", "queued"} =>
      /\ \/ binding[e].state = effect[e].state
         \/ binding[e].state = "outcome_unknown" /\ effect[e].state = "reconciled"
      /\ binding[e].generation = effect[e].generation
      /\ binding[e].fence = effect[e].fence

\* The row gets the runtime's result in the end, unless an operator was there
\* first or a worker died: a crash after the runtime's completion leaves the row
\* queued for good, and with it an unknown outcome that the owner's own
\* reconciliation refuses.
BindingFollows ==
  \A e \in Effect :
    effect[e].state \in Completion
      ~> binding[e].state = effect[e].state \/ effect[e].state = "reconciled" \/ abandons > 0

\* What externaleffects/app/service.go says of effects with a second fact of
\* their owner: a control updates the runtime and the fact in one transaction.
ControlsUpdateFact ==
  \A e \in Effect :
    effect[e].state \in {"cancelled", "reconciled"} => binding[e].state = effect[e].state
=============================================================================
