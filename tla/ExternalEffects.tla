--------------------------- MODULE ExternalEffects ---------------------------
(***************************************************************************)
(* The external effects runtime (internal/externaleffects): every provider *)
(* call other than the outbound sender's goes through it.                  *)
(*                                                                         *)
(* An effect is accepted and queued with a River job, claimed under a      *)
(* generation / fence / lease, attempted once, and completed.              *)
(* Service.RunAttempt is two transactions around the adapter call:         *)
(*   PersistAttempt -> Adapter.Execute -> CompleteAttempt.                 *)
(* An attempt whose worker is gone is closed by recovery: from the receipt *)
(* its owner recorded (CompleteRecordedAttempt) or as outcome_unknown      *)
(* (RecoverAttemptedToUnknown).                                            *)
(*                                                                         *)
(* An effect is named by its envelope fingerprint, which is UNIQUE. Every  *)
(* action on the tables is one transaction under the effect's row lock.    *)
(* Adapters are modelled by the answers they give.                         *)
(***************************************************************************)
EXTENDS Naturals, FiniteSets

CONSTANTS
  Effect,         \* envelopes
  Worker,         \* goroutines that run attempts or recover them
  Key,            \* receipt keys of control commands
  MaxGeneration,  \* bound on retries: generations are 1..MaxGeneration
  MaxFence,       \* bound on the claims of one generation
  MaxAbandons,    \* bound on crashes and failed transactions of workers
  Owner,          \* the owner whose effects these are, see below
  NoEffect

ASSUME ConstantsAssumption ==
  /\ MaxGeneration \in Nat \ {0}
  /\ MaxFence \in Nat \ {0}
  /\ MaxAbandons \in Nat
  /\ Owner \in {"groupops", "campaign", "profile"}
  /\ NoEffect \notin Effect

VARIABLES
  effect,     \* external_effects: state, generation, fence, lease, attempt_count
  attempt,    \* external_effect_attempts of each effect, by number
  receipts,   \* external_effect_receipts
  evidence,   \* external_effect_reconciliations
  recorded,   \* answer of each attempt that the owner's adapter recorded
  worker,     \* what each goroutine holds between transactions
  executed,   \* calls of each effect that the provider really executed
  abandons    \* workers that crashed or gave up so far

vars == <<effect, attempt, receipts, evidence, recorded, worker, executed, abandons>>

-----------------------------------------------------------------------------
(* Owners differ in three ways. Campaign dispatch (and media upload, alike)*)
(* records an answer before the runtime completes the attempt, and closes  *)
(* an interrupted attempt from it; group ops records nothing and closes it *)
(* as unknown; the WeCom contact profile neither records nor recovers, and *)
(* its receipt digests are those of constant labels (profileDigest).       *)

Records == Owner = "campaign"
Recovers == Owner \in {"campaign", "groupops"}
SharedDigest == Owner = "profile"

Number == 1..MaxGeneration

Completion == {"executed", "retryable_failed", "final_failed", "outcome_unknown"}

State == {"absent", "accepted", "queued", "attempted", "reconciled", "cancelled"}
           \union Completion

\* lease_expires_at: NULL, in the future, or past.
Lease == {"none", "live", "expired"}

EffectRow == [state : State, generation : 0..MaxGeneration,
              fence : 0..MaxFence, lease : Lease, count : 0..MaxGeneration]

\* A receipt digest names its attempt and answer, or the answer alone.
Digest == (Effect \union {NoEffect}) \X (0..MaxGeneration) \X (Completion \union {"lost"})

NoDigest == <<NoEffect, 0, "lost">>

AttemptRow == [generation : 0..MaxGeneration, fence : 0..MaxFence,
               completion : {"absent", "open"} \union Completion, digest : Digest]

Control == {"queue", "retry", "cancel", "reconcile"}

\* A control receipt is keyed by the caller, an attempt's by its digest.
Receipt == [op : Control, effect : Effect, key : Key]
             \union [op : {"complete_attempt", "recover_attempted"},
                     effect : Effect, key : Digest]

\* claimed: holds a lease; calling: tx 1 committed, adapter not yet returned;
\* answered: the provider has; returned: so has the adapter, and the answer is
\* not stored yet; recovering: has read an expired attempt, not yet closed it.
WorkerRow == [pc : {"idle", "claimed", "calling", "answered", "returned", "recovering"},
              effect : Effect \union {NoEffect}, generation : 0..MaxGeneration,
              fence : 0..MaxFence, number : 0..MaxGeneration,
              answer : Completion \union {"none"}, digest : Digest]

Idle == [pc |-> "idle", effect |-> NoEffect, generation |-> 0, fence |-> 0,
         number |-> 0, answer |-> "none", digest |-> NoDigest]

\* The lease a worker holds is still the effect's (the CAS of every CAS'd tx).
HoldsFence(w) ==
  LET e == worker[w].effect
  IN /\ effect[e].generation = worker[w].generation
     /\ effect[e].fence = worker[w].fence

-----------------------------------------------------------------------------
Init ==
  /\ effect = [e \in Effect |-> [state |-> "absent", generation |-> 0, fence |-> 0,
                                 lease |-> "none", count |-> 0]]
  /\ attempt = [e \in Effect |-> [n \in Number |->
                 [generation |-> 0, fence |-> 0, completion |-> "absent",
                  digest |-> NoDigest]]]
  /\ receipts = {}
  /\ evidence = {}
  /\ recorded = [e \in Effect |-> [n \in Number |-> "none"]]
  /\ worker = [w \in Worker |-> Idle]
  /\ executed = [e \in Effect |-> 0]
  /\ abandons = 0

-----------------------------------------------------------------------------
(* The owner's and the operators' commands.                                *)

\* Accept also writes its receipt, which nothing reads but a replay.
Accept(e) ==
  /\ effect[e].state = "absent"
  /\ effect' = [effect EXCEPT ![e].state = "accepted", ![e].generation = 1]
  /\ UNCHANGED <<attempt, receipts, evidence, recorded, worker, executed, abandons>>

\* A key that was used for the command on this effect answers from its receipt.
Receipted(op, e, key) == [op |-> op, effect |-> e, key |-> key] \in receipts

\* Variant: the insert does not look for an earlier receipt of the key.
WriteReceiptAgain(op, e, key) ==
  receipts' = receipts \union {[op |-> op, effect |-> e, key |-> key]}

WriteReceipt(op, e, key) ==
  /\ ~Receipted(op, e, key)
  /\ receipts' = receipts \union {[op |-> op, effect |-> e, key |-> key]}

\* Variant: a retry counts attempts from 0 again.
RequeuedFromZero(row) ==
  [row EXCEPT !.state = "queued", !.generation = @ + 1, !.fence = 0, !.lease = "none",
              !.count = 0]

\* A new generation starts with fence 0: every older lease is fenced out.
Requeued(row) ==
  [row EXCEPT !.state = "queued", !.generation = @ + 1, !.fence = 0, !.lease = "none"]

Queue(e, key) ==
  /\ effect[e].state = "accepted"
  /\ effect[e].generation < MaxGeneration
  /\ WriteReceipt("queue", e, key)
  /\ effect' = [effect EXCEPT ![e] = Requeued(@)]
  /\ UNCHANGED <<attempt, evidence, recorded, worker, executed, abandons>>

\* Variant: an unknown outcome may be retried.
RetryUnknown(e, key) ==
  /\ effect[e].state \in {"retryable_failed", "outcome_unknown"}
  /\ effect[e].generation < MaxGeneration
  /\ WriteReceipt("retry", e, key)
  /\ effect' = [effect EXCEPT ![e] = Requeued(@)]
  /\ UNCHANGED <<attempt, evidence, recorded, worker, executed, abandons>>

Retry(e, key) ==
  /\ effect[e].state = "retryable_failed"
  /\ effect[e].generation < MaxGeneration
  /\ WriteReceipt("retry", e, key)
  /\ effect' = [effect EXCEPT ![e] = Requeued(@)]
  /\ UNCHANGED <<attempt, evidence, recorded, worker, executed, abandons>>

\* Variant: an effect under way may be cancelled.
CancelAttempted(e, key) ==
  /\ effect[e].state \in {"accepted", "queued", "attempted"}
  /\ WriteReceipt("cancel", e, key)
  /\ effect' = [effect EXCEPT ![e].state = "cancelled", ![e].lease = "none"]
  /\ UNCHANGED <<attempt, evidence, recorded, worker, executed, abandons>>

Cancel(e, key) ==
  /\ effect[e].state \in {"accepted", "queued"}
  /\ WriteReceipt("cancel", e, key)
  /\ effect' = [effect EXCEPT ![e].state = "cancelled", ![e].lease = "none"]
  /\ UNCHANGED <<attempt, evidence, recorded, worker, executed, abandons>>

\* The command carries generation and fence; others than the effect's own are
\* refused.
Reconcile(e, key) ==
  /\ effect[e].state = "outcome_unknown"
  /\ <<e, effect[e].generation, effect[e].fence>> \notin evidence
  /\ WriteReceipt("reconcile", e, key)
  /\ evidence' = evidence \union {<<e, effect[e].generation, effect[e].fence>>}
  /\ effect' = [effect EXCEPT ![e].state = "reconciled"]
  /\ UNCHANGED <<attempt, recorded, worker, executed, abandons>>

-----------------------------------------------------------------------------
(* Claim and RunAttempt.                                                   *)

\* A queued effect may be claimed again, even under a live lease.
Claim(w, e) ==
  /\ worker[w].pc = "idle"
  /\ effect[e].state = "queued"
  /\ effect[e].fence < MaxFence
  /\ effect' = [effect EXCEPT ![e].fence = @ + 1, ![e].lease = "live"]
  /\ worker' = [worker EXCEPT ![w] =
       [Idle EXCEPT !.pc = "claimed", !.effect = e,
                    !.generation = effect[e].generation, !.fence = effect[e].fence + 1]]
  /\ UNCHANGED <<attempt, receipts, evidence, recorded, executed, abandons>>

\* Time passes a claimed or attempted effect's lease.
Expire(e) ==
  /\ effect[e].lease = "live"
  /\ effect' = [effect EXCEPT ![e].lease = "expired"]
  /\ UNCHANGED <<attempt, receipts, evidence, recorded, worker, executed, abandons>>

\* Variant: the fence is not compared.
MayPersistUnfenced(w) ==
  /\ effect[worker[w].effect].state = "queued"
  /\ effect[worker[w].effect].generation = worker[w].generation
  /\ effect[worker[w].effect].lease = "live"

MayPersist(w) ==
  /\ effect[worker[w].effect].state = "queued"
  /\ HoldsFence(w)
  /\ effect[worker[w].effect].lease = "live"

PersistAttempt(w) ==
  LET e == worker[w].effect
      n == effect[e].count + 1
  IN /\ worker[w].pc = "claimed"
     /\ MayPersist(w)
     /\ effect' = [effect EXCEPT ![e].state = "attempted", ![e].count = n]
     /\ attempt' = [attempt EXCEPT ![e][n] =
          [generation |-> worker[w].generation, fence |-> worker[w].fence,
           completion |-> "open", digest |-> NoDigest]]
     /\ worker' = [worker EXCEPT ![w].pc = "calling", ![w].number = n]
     /\ UNCHANGED <<receipts, evidence, recorded, executed, abandons>>

PersistRejected(w) ==
  /\ worker[w].pc = "claimed"
  /\ ~MayPersist(w)
  /\ worker' = [worker EXCEPT ![w] = Idle]
  /\ UNCHANGED <<effect, attempt, receipts, evidence, recorded, executed, abandons>>

\* Whether the provider executed the call, by the answer the worker gets.
Executions(a) ==
  CASE a = "executed" -> {1}
    [] a = "outcome_unknown" -> {0, 1}
    [] OTHER -> {0}

\* The receipt digest of an answer; an adapter error has the runtime's own.
DigestOf(e, n, a) == IF SharedDigest THEN <<NoEffect, 0, a>> ELSE <<e, n, a>>

\* Variant: the adapter's result is not validated.
UncheckedAnswers(e, n) ==
  {[answer |-> a, digest |-> DigestOf(e, n, a)] : a \in Completion \union {""}}

Answers(e, n) == {[answer |-> a, digest |-> DigestOf(e, n, a)] : a \in Completion}

Lost(e, n) == [answer |-> "outcome_unknown", digest |-> <<e, n, "lost">>]

\* The adapter call, outside every transaction and however long it takes. An
\* adapter error returns at once, and is an unknown outcome.
Execute(w) ==
  LET e == worker[w].effect
      n == worker[w].number
  IN /\ worker[w].pc = "calling"
     /\ \E a \in Answers(e, n) \union {Lost(e, n)} : \E x \in Executions(a.answer) :
          /\ worker' = [worker EXCEPT ![w].answer = a.answer, ![w].digest = a.digest,
               ![w].pc = IF Records /\ a # Lost(e, n) THEN "answered" ELSE "returned"]
          /\ executed' = [executed EXCEPT ![e] = @ + x]
     /\ UNCHANGED <<effect, attempt, receipts, evidence, recorded, abandons>>

\* The adapter records the provider's answer before it returns it.
RecordAnswer(w) ==
  /\ worker[w].pc = "answered"
  /\ recorded' = [recorded EXCEPT ![worker[w].effect][worker[w].number] = worker[w].answer]
  /\ worker' = [worker EXCEPT ![w].pc = "returned"]
  /\ UNCHANGED <<effect, attempt, receipts, evidence, executed, abandons>>

\* The record fails: the adapter returns an error instead of the answer.
RecordFails(w) ==
  /\ worker[w].pc = "answered"
  /\ abandons < MaxAbandons
  /\ abandons' = abandons + 1
  /\ worker' = [worker EXCEPT ![w].pc = "returned", ![w].answer = "outcome_unknown",
                  ![w].digest = Lost(worker[w].effect, worker[w].number).digest]
  /\ UNCHANGED <<effect, attempt, receipts, evidence, recorded, executed>>

-----------------------------------------------------------------------------
(* CompleteAttempt and recovery: the writers of a terminal state.          *)

\* UNIQUE (operation, effect_id, receipt_key_digest) and UNIQUE (operation,
\* command_digest): an attempt's receipt has its digest as key and command.
FreshDigest(op, d) == \A r \in receipts : r.op = op => r.key # d

\* Variant: a receipt that exists is left as it is (ON CONFLICT DO NOTHING).
CompletesOnConflict(e, n, d, a, op) ==
  /\ receipts' = IF FreshDigest(op, d)
                 THEN receipts \union {[op |-> op, effect |-> e, key |-> d]} ELSE receipts
  /\ attempt' = [attempt EXCEPT ![e][n].completion = a, ![e][n].digest = d]
  /\ effect' = [effect EXCEPT ![e].state = a, ![e].lease = "none"]

CompletesAttempt(e, n, d, a, op) ==
  /\ FreshDigest(op, d)
  /\ receipts' = receipts \union {[op |-> op, effect |-> e, key |-> d]}
  /\ attempt' = IF attempt[e][n].completion = "open"
                THEN [attempt EXCEPT ![e][n].completion = a, ![e][n].digest = d]
                ELSE attempt
  /\ effect' = [effect EXCEPT ![e].state = a, ![e].lease = "none"]

\* The transaction's own conditions: the CAS, without a look at the lease.
MayComplete(w) == effect[worker[w].effect].state = "attempted" /\ HoldsFence(w)

CompleteAttempt(w) ==
  /\ worker[w].pc = "returned"
  /\ MayComplete(w)
  /\ CompletesAttempt(worker[w].effect, worker[w].number, worker[w].digest,
                      worker[w].answer, "complete_attempt")
  /\ worker' = [worker EXCEPT ![w] = Idle]
  /\ UNCHANGED <<evidence, recorded, executed, abandons>>

\* ErrLeaseFence, or the receipt violates a UNIQUE and the answer is lost.
CompleteRejected(w) ==
  /\ worker[w].pc = "returned"
  /\ ~(MayComplete(w) /\ FreshDigest("complete_attempt", worker[w].digest))
  /\ worker' = [worker EXCEPT ![w] = Idle]
  /\ UNCHANGED <<effect, attempt, receipts, evidence, recorded, executed, abandons>>

\* Variants: only a recorded success is recovered, or any record as a success.
RecoveredIfSuccess(e, n) == IF recorded[e][n] = "executed" THEN {"executed"} ELSE {}
RecoveredAsSuccess(e, n) ==
  IF recorded[e][n] = "none" THEN {"outcome_unknown"} ELSE {"executed"}

\* What recovery may close an attempt as, by what its owner has recorded: only a
\* success or nothing lets it go on.
RecoveredAs(e, n) ==
  CASE recorded[e][n] = "executed" -> {"executed"}
    [] recorded[e][n] = "none" -> {"outcome_unknown"}
    [] OTHER -> {}

\* The owner reads an attempted effect with an expired lease, and its record.
LoadRecovery(w, e) ==
  LET n == effect[e].count
  IN /\ Recovers
     /\ worker[w].pc = "idle"
     /\ effect[e].state = "attempted"
     /\ effect[e].lease = "expired"
     /\ \E a \in RecoveredAs(e, n) :
          worker' = [worker EXCEPT ![w] =
            [pc |-> "recovering", effect |-> e, generation |-> effect[e].generation,
             fence |-> effect[e].fence, number |-> n, answer |-> a,
             digest |-> IF a = "executed" THEN DigestOf(e, n, a) ELSE <<e, n, "lost">>]]
     /\ UNCHANGED <<effect, attempt, receipts, evidence, recorded, executed, abandons>>

\* CompleteRecordedAttempt: the original worker may have completed meanwhile.
CompleteRecorded(w) ==
  /\ worker[w].pc = "recovering"
  /\ worker[w].answer = "executed"
  /\ MayComplete(w)
  /\ CompletesAttempt(worker[w].effect, worker[w].number, worker[w].digest,
                      "executed", "complete_attempt")
  /\ worker' = [worker EXCEPT ![w] = Idle]
  /\ UNCHANGED <<evidence, recorded, executed, abandons>>

MayRecover(w) ==
  LET e == worker[w].effect
  IN /\ MayComplete(w)
     /\ effect[e].lease = "expired"
     /\ attempt[e][worker[w].number].completion = "open"

Recover(w) ==
  /\ worker[w].pc = "recovering"
  /\ worker[w].answer = "outcome_unknown"
  /\ MayRecover(w)
  /\ CompletesAttempt(worker[w].effect, worker[w].number, worker[w].digest,
                      "outcome_unknown", "recover_attempted")
  /\ worker' = [worker EXCEPT ![w] = Idle]
  /\ UNCHANGED <<evidence, recorded, executed, abandons>>

RecoveryRejected(w) ==
  /\ worker[w].pc = "recovering"
  /\ IF worker[w].answer = "executed"
     THEN ~(MayComplete(w) /\ FreshDigest("complete_attempt", worker[w].digest))
     ELSE ~(MayRecover(w) /\ FreshDigest("recover_attempted", worker[w].digest))
  /\ worker' = [worker EXCEPT ![w] = Idle]
  /\ UNCHANGED <<effect, attempt, receipts, evidence, recorded, executed, abandons>>

\* A worker is killed, or its transaction fails and it returns an error.
Abandon(w) ==
  /\ worker[w].pc # "idle"
  /\ abandons < MaxAbandons
  /\ abandons' = abandons + 1
  /\ worker' = [worker EXCEPT ![w] = Idle]
  /\ UNCHANGED <<effect, attempt, receipts, evidence, recorded, executed>>

-----------------------------------------------------------------------------
WorkerStep(w) ==
  \/ PersistAttempt(w)
  \/ PersistRejected(w)
  \/ Execute(w)
  \/ RecordAnswer(w)
  \/ CompleteAttempt(w)
  \/ CompleteRejected(w)
  \/ CompleteRecorded(w)
  \/ Recover(w)
  \/ RecoveryRejected(w)

Next ==
  \/ \E e \in Effect : Accept(e) \/ Expire(e)
  \/ \E e \in Effect, key \in Key :
       Queue(e, key) \/ Retry(e, key) \/ Cancel(e, key) \/ Reconcile(e, key)
  \/ \E w \in Worker, e \in Effect : Claim(w, e) \/ LoadRecovery(w, e)
  \/ \E w \in Worker : WorkerStep(w) \/ RecordFails(w) \/ Abandon(w)

Spec == Init /\ [][Next]_vars

\* Goroutines run, time passes, and River runs the effect's job again, which
\* recovers an attempted effect. Claims, commands and failures are not forced.
Fairness ==
  /\ \A w \in Worker : WF_vars(WorkerStep(w))
  /\ \A e \in Effect : WF_vars(Expire(e)) /\ SF_vars(\E w \in Worker : LoadRecovery(w, e))

FairSpec == Spec /\ Fairness

-----------------------------------------------------------------------------
(* Properties.                                                             *)

TypeOK ==
  /\ effect \in [Effect -> EffectRow]
  /\ attempt \in [Effect -> [Number -> AttemptRow]]
  /\ receipts \subseteq Receipt
  /\ evidence \subseteq Effect \X (0..MaxGeneration) \X (0..MaxFence)
  /\ recorded \in [Effect -> [Number -> Completion \union {"none"}]]
  /\ worker \in [Worker -> WorkerRow]
  /\ executed \in [Effect -> Nat]
  /\ abandons \in 0..MaxAbandons

\* The provider executes an effect at most once, over all generations, fences,
\* late answers and recoveries (runtime.go: "never an automatic retry").
ExecutedOnce == \A e \in Effect : executed[e] <= 1

\* An effect is attempted exactly while its newest attempt row is open, under
\* the effect's own generation and fence; every older attempt is closed.
OpenAttemptIsCurrent ==
  \A e \in Effect : \A n \in Number :
    attempt[e][n].completion = "open" <=>
      /\ effect[e].state = "attempted"
      /\ n = effect[e].count
      /\ attempt[e][n].generation = effect[e].generation
      /\ attempt[e][n].fence = effect[e].fence

\* What the runtime shows as executed the provider has executed, and what it shows
\* as refused, cancelled or not attempted yet the provider has not: also when the
\* outcome was written by a recovery, from a record, or after a late answer.
OutcomeTrue ==
  \A e \in Effect :
    /\ effect[e].state = "executed" => executed[e] = 1
    /\ effect[e].state \in {"accepted", "queued", "retryable_failed", "final_failed",
                            "cancelled"} => executed[e] = 0

\* What owners are promised of an effect: EffectPromise, for which the ways to
\* a queued generation are one phase and the workers only calls to come.
BeforeAttempt == {"absent", "accepted", "queued"}

PhaseOf == [e \in Effect |->
              IF effect[e].state \in BeforeAttempt THEN "ready" ELSE effect[e].state]

ArmedOf == {e \in Effect : \E w \in Worker : worker[w].pc = "calling" /\ worker[w].effect = e}

Promise == INSTANCE EffectPromise WITH phase <- PhaseOf, armed <- ArmedOf

\* Every transaction, call, crash and command is one of the promise's steps or
\* changes nothing it speaks of: what an attempt is closed as is true of the
\* provider, whoever closes it, and only a refused call that is over is retried.
ImplementsPromise == Promise!Spec

\* However often a generation is claimed, it gets at most one attempt.
OneAttemptPerGeneration ==
  \A e \in Effect : \A m, n \in 1..effect[e].count :
    attempt[e][m].generation = attempt[e][n].generation => m = n

Settled == Completion \union {"reconciled"}

\* GetTerminalOutcome, which owners recover from, finds the last attempt of
\* every settled effect, its completion and the receipt with its digest.
TerminalOutcomeReadable ==
  \A e \in Effect :
    effect[e].state \in Settled =>
      LET last == attempt[e][effect[e].count]
      IN /\ effect[e].count > 0
         /\ last.completion = IF effect[e].state = "reconciled" THEN "outcome_unknown"
                              ELSE effect[e].state
         /\ \E r \in receipts :
              /\ r.op \in {"complete_attempt", "recover_attempted"}
              /\ r.effect = e
              /\ r.key = last.digest

\* A generation is opened by one receipted command: a replayed Queue or Retry
\* key never queues the effect a second time.
GenerationsReceipted ==
  \A e \in Effect :
    effect[e].state # "absent" =>
      effect[e].generation =
        1 + Cardinality({r \in receipts : r.effect = e /\ r.op \in {"queue", "retry"}})

\* CanTransition: "the complete runtime state machine".
CanTransition(from, to) ==
  CASE from = "absent" -> to = "accepted"
    [] from = "accepted" -> to \in {"queued", "cancelled"}
    [] from = "queued" -> to \in {"attempted", "cancelled"}
    [] from = "attempted" -> to \in Completion
    [] from = "retryable_failed" -> to = "queued"
    [] from = "outcome_unknown" -> to = "reconciled"
    [] OTHER -> FALSE

\* The store never calls CanTransition; its conditions enforce it all the same.
TransitionsAllowed ==
  [][\A e \in Effect :
       effect'[e].state # effect[e].state =>
         CanTransition(effect[e].state, effect'[e].state)]_vars

\* One terminal writer: when the answering worker, a recorded completion and a
\* recovery race for an attempt, the first to write stays.
CompletedAttemptsFinal ==
  [][\A e \in Effect : \A n \in Number :
       attempt[e][n].completion \in Completion => attempt'[e][n] = attempt[e][n]]_vars

\* Whoever crashed, recovery closes every attempted effect in the end, but for
\* the one whose recorded answer it refuses: that was a failure or unknown.
AttemptSettles ==
  \A e \in Effect :
    effect[e].state = "attempted"
      ~> \/ effect[e].state # "attempted"
         \/ recorded[e][effect[e].count] \notin {"none", "executed"}

\* What runtime.go says of CompleteRecordedAttempt: it is the crash recovery for
\* the window between the owner's receipt and the completion of the attempt.
RecordedAttemptSettles ==
  \A e \in Effect : \A n \in Number :
    recorded[e][n] # "none" ~> attempt[e][n].completion # "open"

\* What wecom/port says of the profile writer: whether a call may have occurred
\* is kept, so that an unknown outcome can be held for reconciliation.
UnknownIsHeld ==
  \A w \in Worker, e \in Effect :
    (worker[w].effect = e /\ worker[w].answer = "outcome_unknown")
      ~> effect[e].state # "attempted"
=============================================================================
