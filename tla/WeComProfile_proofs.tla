-------------------------- MODULE WeComProfile_proofs --------------------------
(***************************************************************************)
(* The profile's row follows the runtime, for any effects, workers, keys   *)
(* and bounds, and whatever kind of owner the runtime is given.  The       *)
(* runtime's own inductive invariant is kept by the owner's steps, and the *)
(* owner's stands on it.                                                   *)
(***************************************************************************)
EXTENDS WeComProfile, ExternalEffects_proofs

-----------------------------------------------------------------------------
(* The inductive invariant, by parts.                                      *)

\* A row is written with its effect.
RowsPaired ==
  \A e \in Effect : binding[e].state = "absent" <=> effect[e].state = "absent"

\* A claim that is recorded and not overtaken is the one the row shows.
ClaimShown(w) ==
  /\ HoldsFence(w)
  /\ effect[worker[w].effect].state \in {"queued", "attempted"}
  => /\ binding[worker[w].effect].generation = worker[w].generation
     /\ binding[worker[w].effect].fence = worker[w].fence

\* What a run says of the worker it belongs to.
Holds(w) ==
  /\ run[w].pc \in {"none", "completed"} => worker[w].pc = "idle"
  /\ run[w].pc = "claimed" => worker[w].pc = "claimed" /\ worker[w].answer = "none"
  /\ run[w].pc = "recorded" =>
       /\ worker[w].pc \in {"claimed", "calling", "answered", "returned"}
       /\ worker[w].answer # "retryable_failed"
       /\ ClaimShown(w)
  /\ run[w].pc \in {"claimed", "recorded"} =>
       /\ effect[worker[w].effect].state # "absent"
       /\ effect[worker[w].effect].generation = worker[w].generation
            => worker[w].fence <= effect[worker[w].effect].fence

RunsHeld == \A w \in Worker : Holds(w)

\* A result waits for the row of an effect, and is the only one that does.
Waits(w) ==
  run[w].pc = "completed" =>
    /\ run[w].effect \in Effect
    /\ MayCompleteBinding(w) \/ effect[run[w].effect].state = "reconciled"

ResultsWait == \A w \in Worker : Waits(w)

OneWaits ==
  \A v, w \in Worker :
    /\ run[v].pc = "completed" /\ run[w].pc = "completed" /\ run[v].effect = run[w].effect
    => v = w

ProfileInv ==
  /\ EffectsInv
  /\ ProfileTypeOK
  /\ BindingAgrees
  /\ RowsPaired
  /\ RunsHeld
  /\ ResultsWait
  /\ OneWaits

\* The states of an effect with a result: no worker changes it any more.
Outcome == {"executed", "outcome_unknown", "final_failed", "reconciled"}

-----------------------------------------------------------------------------
(* Initial states, and what rows and results say of their effects.         *)

\* The initial states satisfy the inductive invariant.
LEMMA ProfileInitial == ProfileInit => ProfileInv
<1> SUFFICES ASSUME ProfileInit
             PROVE  ProfileInv
  OBVIOUS
<1> USE ConstantsAssumption DEF ProfileInit
<1>1. EffectsInv
  BY EffectsInit
<1>2. ProfileTypeOK
  BY <1>1 DEF ProfileTypeOK, EffectsInv, BindingRow, RunRow, NoRun
<1>3. BindingAgrees /\ RowsPaired
  BY DEF BindingAgrees, RowsPaired, Init
<1>4. RunsHeld /\ ResultsWait /\ OneWaits
  BY DEF RunsHeld, Holds, ResultsWait, Waits, OneWaits, NoRun, Init, Idle
<1>5. QED
  BY <1>1, <1>2, <1>3, <1>4 DEF ProfileInv

\* The row of an effect that has no result yet is queued.
LEMMA Unsettled ==
  ASSUME ProfileInv, NEW e \in Effect, effect[e].state \notin Outcome \union {"absent"}
  PROVE  binding[e].state = "queued"
<1>1. binding[e] \in BindingRow
  BY DEF ProfileInv, ProfileTypeOK
<1>2. binding[e].state # "absent"
  BY DEF ProfileInv, RowsPaired
<1>3. binding[e].state \notin {"absent", "queued"} => effect[e].state \in Outcome
  BY <1>1 DEF ProfileInv, BindingAgrees, BindingRow, Outcome
<1>4. QED
  BY <1>2, <1>3

\* A result that waits for its row is the effect's.
LEMMA WaitsSettled ==
  ASSUME ProfileInv, NEW w \in Worker, run[w].pc = "completed"
  PROVE  run[w].effect \in Effect /\ effect[run[w].effect].state \in Outcome
<1>1. run[w] \in RunRow
  BY DEF ProfileInv, ProfileTypeOK
<1>2. Waits(w)
  BY DEF ProfileInv, ResultsWait
<1>3. run[w].effect \in Effect
  BY <1>2 DEF Waits
<1>4. effect[run[w].effect] \in EffectRow
  BY <1>3 DEF ProfileInv, EffectsInv, TypeOK
<1>5. MayCompleteBinding(w) => effect[run[w].effect].state \in Outcome
  BY <1>1, <1>4 DEF MayCompleteBinding, RunRow, EffectRow, State, Completion, Outcome
<1>6. QED
  BY <1>2, <1>3, <1>5 DEF Waits, Outcome

\* It still waits as long as the effect and the row stay.
LEMMA WaitKeeps ==
  ASSUME ProfileInv, NEW w \in Worker, run[w].pc = "completed", run'[w] = run[w], Finals,
         LET e == run[w].effect
         IN /\ binding'[e] = binding[e]
            /\ effect'[e].state = effect[e].state
            /\ effect'[e].generation = effect[e].generation
            /\ effect'[e].fence = effect[e].fence
  PROVE  Waits(w)'
<1> DEFINE e == run[w].effect
<1>1. Waits(w) /\ run[w] \in RunRow
  BY DEF ProfileInv, ProfileTypeOK, ResultsWait
<1>2. e \in Effect
  BY <1>1 DEF Waits
<1>3. ASSUME MayCompleteBinding(w)
      PROVE  MayCompleteBinding(w)'
  <2>1. PICK n \in Number : /\ attempt[e][n].generation = run[w].generation
                            /\ attempt[e][n].fence = run[w].fence
                            /\ attempt[e][n].completion = run[w].state
    BY <1>3 DEF MayCompleteBinding
  <2>2. attempt[e][n] \in AttemptRow
    BY <1>2, <2>1 DEF ProfileInv, EffectsInv, TypeOK
  <2>3. attempt[e][n].completion \in Completion
    BY <1>1, <2>1, <2>2 DEF AttemptRow, RunRow, Completion
  <2>4. attempt'[e][n] = attempt[e][n]
    BY <1>2, <2>1, <2>3 DEF Finals
  <2>5. QED
    BY <1>3, <2>1, <2>4 DEF MayCompleteBinding
<1>4. QED
  BY <1>1, <1>2, <1>3 DEF Waits

-----------------------------------------------------------------------------
(* Frames: what a step that touches no result, or one unsettled effect,    *)
(* has to show.                                                            *)

\* No effect changes its state or claim, no row changes, and no result comes.
LEMMA StillKeeps ==
  ASSUME ProfileInv, EffectsInv', Finals, run' \in [Worker -> RunRow], binding' = binding,
         \A d \in Effect : /\ effect'[d].state = effect[d].state
                           /\ effect'[d].generation = effect[d].generation
                           /\ effect'[d].fence = effect[d].fence,
         \A v \in Worker : run'[v].pc = "completed" => run'[v] = run[v],
         \A v \in Worker : Holds(v)'
  PROVE  ProfileInv'
<1>1. ProfileTypeOK'
  BY DEF ProfileInv, EffectsInv, ProfileTypeOK
<1>2. BindingAgrees' /\ RowsPaired'
  BY DEF ProfileInv, BindingAgrees, RowsPaired
<1>3. ASSUME NEW v \in Worker, run'[v].pc = "completed"
      PROVE  Waits(v)'
  <2>1. run'[v] = run[v] /\ run[v].pc = "completed"
    BY <1>3
  <2>2. run[v].effect \in Effect
    BY <2>1, WaitsSettled
  <2>3. QED
    BY <2>1, <2>2, WaitKeeps
<1>4. ResultsWait'
  BY <1>3 DEF ResultsWait, Waits
<1>5. OneWaits'
  BY DEF ProfileInv, OneWaits
<1>6. QED
  BY <1>1, <1>2, <1>4, <1>5 DEF ProfileInv, RunsHeld

\* One effect without a result changes, and its row with it; a result that comes
\* is that effect's, and has its row to go to.
LEMMA OneKeeps ==
  ASSUME ProfileInv, EffectsInv', Finals, run' \in [Worker -> RunRow],
         binding' \in [Effect -> BindingRow], NEW e \in Effect,
         \A d \in Effect : d # e => effect'[d] = effect[d] /\ binding'[d] = binding[d],
         effect[e].state \notin Outcome, effect'[e].state # "absent",
         binding'[e].state = "queued",
         \A u, v \in Worker : run'[u] # run[u] /\ run'[v] # run[v] => u = v,
         \A v \in Worker : run'[v].pc = "completed" =>
           run'[v] = run[v] \/ (run'[v].effect = e /\ MayCompleteBinding(v)'),
         \A v \in Worker : Holds(v)'
  PROVE  ProfileInv'
<1>1. ProfileTypeOK'
  BY DEF ProfileInv, EffectsInv, ProfileTypeOK
<1>2. BindingAgrees'
  BY DEF ProfileInv, BindingAgrees
<1>3. RowsPaired'
  BY DEF ProfileInv, RowsPaired
<1>4. ASSUME NEW v \in Worker, run'[v].pc = "completed"
      PROVE  /\ Waits(v)'
             /\ \/ run'[v] = run[v] /\ run[v].effect # e
                \/ run'[v] # run[v] /\ run'[v].effect = e
  <2>1. CASE run'[v] = run[v]
    <3>1. run[v].effect \in Effect /\ run[v].effect # e
      BY <1>4, <2>1, WaitsSettled
    <3>2. QED
      BY <1>4, <2>1, <3>1, WaitKeeps
  <2>2. CASE run'[v] # run[v]
    BY <1>4, <2>2 DEF Waits
  <2>3. QED
    BY <1>4, <2>1, <2>2
<1>5. ResultsWait'
  BY <1>4 DEF ResultsWait, Waits
<1>6. OneWaits'
  BY <1>4 DEF ProfileInv, OneWaits
<1>7. QED
  BY <1>1, <1>2, <1>3, <1>5, <1>6 DEF ProfileInv, RunsHeld

\* A worker whose job another one's step does not touch still holds what it held,
\* if the effect only moves on and the row shows the claim that is left.
LEMMA HoldsKept ==
  ASSUME ProfileInv, NEW v \in Worker, worker'[v] = worker[v], run'[v] = run[v],
         NEW e \in Effect,
         \A d \in Effect : d # e => effect'[d] = effect[d] /\ binding'[d] = binding[d],
         effect[e].state # "absent" => /\ effect'[e].state # "absent"
                                       /\ effect'[e].generation = effect[e].generation
                                       /\ effect[e].fence <= effect'[e].fence,
         effect'[e].fence \in Nat,
         run[v].pc = "recorded" /\ worker[v].effect = e => ClaimShown(v)'
  PROVE  Holds(v)'
<1>1. Holds(v)
  BY DEF ProfileInv, RunsHeld
<1>2. Knows(v)
  BY DEF ProfileInv, EffectsInv, WorkersKnow
<1>3. CASE run[v].pc \in {"none", "completed"}
  BY <1>1, <1>3 DEF Holds
<1>4. CASE run[v].pc \in {"claimed", "recorded"}
  <2>1. worker[v].effect \in Effect
    BY <1>1, <1>2, <1>4 DEF Holds, Knows
  <2>2. CASE worker[v].effect # e
    BY <1>1, <1>4, <2>1, <2>2 DEF Holds, ClaimShown, HoldsFence
  <2>3. CASE worker[v].effect = e
    <3>1. worker[v].fence \in Nat /\ effect[e].fence \in Nat
      BY <2>1 DEF ProfileInv, EffectsInv, TypeOK, WorkerRow, EffectRow
    <3>2. QED
      BY <1>1, <1>4, <2>3, <3>1 DEF Holds
  <2>4. QED
    BY <2>2, <2>3
<1>5. run[v].pc \in {"none", "claimed", "recorded", "completed"}
  BY DEF ProfileInv, ProfileTypeOK, RunRow
<1>6. QED
  BY <1>3, <1>4, <1>5

-----------------------------------------------------------------------------
(* The owner's steps.                                                      *)

\* Accepting and queueing an effect with its row.
LEMMA QueueInTransactionKeeps ==
  ASSUME ProfileInv, NEW e \in Effect, NEW key \in Key, QueueInTransaction(e, key)
  PROVE  ProfileInv'
<1> DEFINE row == [effect[e] EXCEPT !.state = "accepted", !.generation = 1]
<1>1. /\ effect[e] \in EffectRow /\ effect[e].state = "absent"
      /\ effect \in [Effect -> EffectRow] /\ binding \in [Effect -> BindingRow]
      /\ run \in [Worker -> RunRow]
  BY DEF ProfileInv, ProfileTypeOK, EffectsInv, TypeOK, QueueInTransaction
<1>2. /\ row \in EffectRow /\ row.generation = 1 /\ row.count = effect[e].count
      /\ 2 \in 0..MaxGeneration /\ 0 \in 0..MaxFence
  <2>1. 1 \in 0..MaxGeneration /\ "accepted" \in State
    BY ConstantsAssumption DEF State
  <2>2. row \in EffectRow /\ row.generation = 1 /\ row.count = effect[e].count
    BY <1>1, <2>1 DEF EffectRow
  <2>3. row.generation < MaxGeneration
    BY DEF QueueInTransaction
  <2>4. QED
    BY <2>2, <2>3, ConstantsAssumption
<1>3. /\ row.generation < MaxGeneration /\ WriteReceipt("queue", e, key)
      /\ effect' = [effect EXCEPT ![e] = Requeued(row)]
      /\ binding' = [binding EXCEPT ![e] =
           [state |-> "queued", generation |-> Requeued(row).generation, fence |-> 0]]
      /\ UNCHANGED <<attempt, evidence, recorded, worker, executed, abandons, run>>
  BY DEF QueueInTransaction
<1>4. EffectsInv'
  <2>1. ProfileInv => EffectsInv
    BY DEF ProfileInv
  <2> HIDE DEF row
  <2>2. QED
    BY <1>1, <1>2, <1>3, <2>1, RequeueKeeps
<1>5. /\ effect'[e].state = "queued" /\ effect'[e].fence = 0
      /\ Requeued(row).generation = 2
  BY <1>1, <1>2, <1>3 DEF Requeued, EffectRow
<1> HIDE DEF row
<1>6. \A d \in Effect : d # e => effect'[d] = effect[d] /\ binding'[d] = binding[d]
  BY <1>1, <1>3
<1>7. binding' \in [Effect -> BindingRow] /\ binding'[e].state = "queued"
  <2>1. [state |-> "queued", generation |-> Requeued(row).generation, fence |-> 0]
          \in BindingRow
    BY <1>2, <1>5 DEF BindingRow
  <2>2. QED
    BY <1>1, <1>3, <2>1
<1>8. Finals
  BY <1>3 DEF Finals
\* No worker has claimed an effect that was absent.
<1>9. \A v \in Worker : Holds(v)'
  <2>1. SUFFICES ASSUME NEW v \in Worker
                 PROVE  Holds(v)'
    OBVIOUS
  <2>2. run[v].pc = "recorded" => worker[v].effect # e
    BY <1>1 DEF ProfileInv, RunsHeld, Holds
  <2>3. QED
    BY <1>1, <1>3, <1>5, <1>6, <2>2, HoldsKept
<1>10. QED
  BY <1>1, <1>3, <1>4, <1>5, <1>6, <1>7, <1>8, <1>9, OneKeeps DEF Outcome

\* A claim leaves every older one behind.
LEMMA ClaimEffectKeeps ==
  ASSUME ProfileInv, NEW w \in Worker, NEW e \in Effect, ClaimEffect(w, e)
  PROVE  ProfileInv'
<1>1. EffectsInv' /\ Finals
  BY ClaimKeeps, StepMoves DEF ProfileInv, ClaimEffect, Next
<1>2. /\ effect \in [Effect -> EffectRow] /\ effect[e] \in EffectRow
      /\ binding \in [Effect -> BindingRow] /\ run \in [Worker -> RunRow]
      /\ worker \in [Worker -> WorkerRow]
  BY DEF ProfileInv, ProfileTypeOK, EffectsInv, TypeOK
<1>3. /\ effect[e].state = "queued" /\ binding[e].state = "queued" /\ binding' = binding
      /\ effect' = [effect EXCEPT ![e].fence = @ + 1, ![e].lease = "live"]
      /\ worker' = [worker EXCEPT ![w] =
           [Idle EXCEPT !.pc = "claimed", !.effect = e,
                        !.generation = effect[e].generation, !.fence = effect[e].fence + 1]]
      /\ run' = [run EXCEPT ![w] = [NoRun EXCEPT !.pc = "claimed", !.effect = e]]
  BY DEF ClaimEffect, Claim
<1>4. /\ \A d \in Effect : d # e => effect'[d] = effect[d] /\ binding'[d] = binding[d]
      /\ effect'[e].state = "queued" /\ effect'[e].generation = effect[e].generation
      /\ effect'[e].fence = effect[e].fence + 1 /\ effect[e].fence \in Nat
  BY <1>2, <1>3 DEF EffectRow
<1>5. run' \in [Worker -> RunRow] /\ run'[w].pc = "claimed"
  <2>1. 0 \in 0..MaxGeneration /\ 0 \in 0..MaxFence
    BY ConstantsAssumption
  <2>2. [NoRun EXCEPT !.pc = "claimed", !.effect = e] \in RunRow
    BY <2>1 DEF NoRun, RunRow
  <2>3. QED
    BY <1>2, <1>3, <2>2 DEF NoRun
<1>6. /\ worker'[w].pc = "claimed" /\ worker'[w].answer = "none"
      /\ worker'[w].effect = e /\ worker'[w].fence = effect[e].fence + 1
  BY <1>2, <1>3 DEF Idle
<1>7. Holds(w)'
  BY <1>4, <1>5, <1>6 DEF Holds
<1>8. ASSUME NEW v \in Worker, v # w
      PROVE  Holds(v)'
  <2>1. worker'[v] = worker[v] /\ run'[v] = run[v]
    BY <1>2, <1>3, <1>8
  <2>2. ASSUME run[v].pc = "recorded", worker[v].effect = e
        PROVE  ~HoldsFence(v)'
    <3>1. effect[e].generation = worker[v].generation => worker[v].fence <= effect[e].fence
      BY <2>2 DEF ProfileInv, RunsHeld, Holds
    <3>2. worker[v].fence \in Nat
      BY <1>2 DEF WorkerRow
    <3>3. QED
      BY <1>4, <2>1, <2>2, <3>1, <3>2 DEF HoldsFence
  <2>3. run[v].pc = "recorded" /\ worker[v].effect = e => ClaimShown(v)'
    BY <2>2 DEF ClaimShown
  <2>4. QED
    BY <1>4, <2>1, <2>3, HoldsKept
<1>9. QED
  BY <1>1, <1>2, <1>3, <1>4, <1>5, <1>7, <1>8, OneKeeps DEF Outcome

\* The row shows the claim of the worker that holds the fence.
LEMMA RecordClaimKeeps ==
  ASSUME ProfileInv, NEW w \in Worker, RecordClaim(w)
  PROVE  ProfileInv'
<1> DEFINE e == worker[w].effect
<1>1. run[w].pc = "claimed" /\ worker[w].pc = "claimed" /\ e \in Effect
  <2>1. run[w].pc = "claimed"
    BY DEF RecordClaim
  <2>2. worker[w].pc = "claimed"
    BY <2>1 DEF ProfileInv, RunsHeld, Holds
  <2>3. QED
    BY <2>1, <2>2 DEF ProfileInv, EffectsInv, WorkersKnow, Knows
<1>2. UNCHANGED vars
  BY DEF RecordClaim
<1>3. EffectsInv' /\ Finals
  BY <1>2, EffectsStep, StepMoves DEF ProfileInv
<1>4. /\ effect[e].state = "queued" /\ binding[e].state = "queued" /\ HoldsFence(w)
      /\ binding' = [binding EXCEPT ![e].generation = worker[w].generation,
                                    ![e].fence = worker[w].fence]
      /\ run' = [run EXCEPT ![w].pc = "recorded"]
  BY DEF RecordClaim, MayRecord
<1>5. /\ effect' = effect /\ worker' = worker /\ effect[e] \in EffectRow
      /\ worker[w] \in WorkerRow
      /\ binding \in [Effect -> BindingRow] /\ run \in [Worker -> RunRow]
  BY <1>1, <1>2 DEF ProfileInv, ProfileTypeOK, EffectsInv, TypeOK, vars
<1> HIDE DEF e
<1>6. /\ binding' \in [Effect -> BindingRow] /\ binding'[e].state = "queued"
      /\ binding'[e].generation = worker[w].generation
      /\ binding'[e].fence = worker[w].fence
      /\ \A d \in Effect : d # e => binding'[d] = binding[d]
  <2>1. [binding[e] EXCEPT !.generation = worker[w].generation, !.fence = worker[w].fence]
          \in BindingRow
    BY <1>1, <1>5 DEF BindingRow, WorkerRow
  <2>2. binding' = [binding EXCEPT ![e] =
          [binding[e] EXCEPT !.generation = worker[w].generation, !.fence = worker[w].fence]]
    BY <1>1, <1>4, <1>5
  <2>3. /\ binding' \in [Effect -> BindingRow]
        /\ \A d \in Effect : d # e => binding'[d] = binding[d]
    BY <1>1, <1>5, <2>1, <2>2
  <2>4. /\ binding'[e] = [binding[e] EXCEPT !.generation = worker[w].generation,
                                            !.fence = worker[w].fence]
        /\ binding[e] \in BindingRow
    BY <1>1, <1>5, <2>2
  <2>5. QED
    BY <1>4, <2>3, <2>4 DEF BindingRow
<1>7. run' \in [Worker -> RunRow] /\ run'[w].pc = "recorded"
      /\ \A v \in Worker : v # w => run'[v] = run[v]
  <2>1. [run[w] EXCEPT !.pc = "recorded"] \in RunRow /\ run[w] \in RunRow
    BY <1>5 DEF RunRow
  <2>2. run' = [run EXCEPT ![w] = [run[w] EXCEPT !.pc = "recorded"]]
    BY <1>4, <1>5
  <2>3. QED
    BY <1>5, <2>1, <2>2 DEF RunRow
<1>8. \A v \in Worker : worker[v].effect = e /\ HoldsFence(v)' =>
        /\ binding'[e].generation = worker[v].generation
        /\ binding'[e].fence = worker[v].fence
  BY <1>4, <1>5, <1>6 DEF HoldsFence, e
<1>9. Holds(w)'
  <2>1. Holds(w) /\ worker'[w] = worker[w] /\ effect'[e] = effect[e]
    BY <1>5 DEF ProfileInv, RunsHeld
  <2>2. ClaimShown(w)'
    BY <1>8, <2>1 DEF ClaimShown, e
  <2>3. QED
    BY <1>1, <1>7, <2>1, <2>2 DEF Holds, e
<1>10. ASSUME NEW v \in Worker, v # w
       PROVE  Holds(v)'
  <2>1. worker'[v] = worker[v] /\ run'[v] = run[v]
    BY <1>5, <1>7, <1>10
  <2>2. \A d \in Effect : d # e => effect'[d] = effect[d] /\ binding'[d] = binding[d]
    BY <1>5, <1>6
  <2>3. effect'[e].fence \in Nat /\ effect[e].fence <= effect'[e].fence
    BY <1>5 DEF EffectRow
  <2>4. worker[v].effect = e => ClaimShown(v)'
    BY <1>8, <2>1 DEF ClaimShown
  <2>5. QED
    BY <1>1, <1>5, <2>1, <2>2, <2>3, <2>4, HoldsKept
<1>11. QED
  BY <1>1, <1>3, <1>4, <1>5, <1>6, <1>7, <1>9, <1>10, OneKeeps DEF Outcome

\* A worker that lets go, with its result or without one, leaves the rest alone.
LEMMA RunEnds ==
  ASSUME ProfileInv, EffectsInv', NEW w \in Worker, run' = [run EXCEPT ![w] = NoRun],
         worker'[w].pc = "idle", \A v \in Worker : v # w => worker'[v] = worker[v],
         UNCHANGED <<effect, attempt, binding>>
  PROVE  ProfileInv'
<1>1. Finals
  BY DEF Finals
<1>2. run \in [Worker -> RunRow] /\ NoRun \in RunRow
  BY ConstantsAssumption DEF ProfileInv, ProfileTypeOK, RunRow, NoRun
<1>3. /\ run' \in [Worker -> RunRow] /\ run'[w].pc = "none"
      /\ \A v \in Worker : v # w => run'[v] = run[v]
  BY <1>2 DEF NoRun
<1>4. Holds(w)'
  BY <1>3 DEF Holds
<1>5. ASSUME NEW v \in Worker, v # w
      PROVE  Holds(v)'
  <2>1. Holds(v) /\ run'[v] = run[v] /\ worker'[v] = worker[v]
    BY <1>3, <1>5 DEF ProfileInv, RunsHeld
  <2>2. QED
    BY <2>1 DEF Holds, ClaimShown, HoldsFence
<1>6. \A v \in Worker : Holds(v)' /\ (run'[v].pc = "completed" => run'[v] = run[v])
  BY <1>3, <1>4, <1>5
<1>7. QED
  BY <1>1, <1>3, <1>6, StillKeeps

\* The claim that was overtaken, the rejected attempt, the refused row, the death.
LEMMA RunEndsKeeps ==
  ASSUME ProfileInv, NEW w \in Worker,
         ClaimOvertaken(w) \/ AttemptRejected(w) \/ BindingRefused(w) \/ Die(w)
  PROVE  ProfileInv'
<1>1. EffectsInv /\ worker \in [Worker -> WorkerRow] /\ abandons \in 0..MaxAbandons
  BY DEF ProfileInv, EffectsInv, TypeOK
<1>2. run[w].pc = "completed" => worker[w].pc = "idle"
  BY DEF ProfileInv, RunsHeld, Holds
<1>3. CASE ClaimOvertaken(w)
  <2>1. EffectsInv'
    BY <1>1, <1>3, LetGoKeeps DEF ClaimOvertaken
  <2>2. QED
    BY <1>1, <1>3, <2>1, RunEnds DEF ClaimOvertaken, Idle
<1>4. CASE AttemptRejected(w)
  <2>1. EffectsInv'
    BY <1>1, <1>4, ReleaseKeeps DEF AttemptRejected
  <2>2. /\ worker' = [worker EXCEPT ![w] = Idle] /\ run' = [run EXCEPT ![w] = NoRun]
        /\ UNCHANGED <<effect, attempt, binding>>
    BY <1>4 DEF AttemptRejected, PersistRejected, CompleteRejected
  <2>3. QED
    BY <1>1, <2>1, <2>2, RunEnds DEF Idle
<1>5. CASE BindingRefused(w)
  <2>1. EffectsInv'
    BY <1>1, <1>5, EffectsStep DEF BindingRefused, vars
  <2>2. QED
    BY <1>1, <1>2, <1>5, <2>1, RunEnds DEF BindingRefused
<1>6. CASE Die(w)
  <2>1. CASE Abandon(w)
    <3>1. EffectsInv'
      BY <1>1, <2>1, ReleaseKeeps
    <3>2. QED
      BY <1>1, <1>6, <2>1, <3>1, RunEnds DEF Die, Abandon, Idle
  <2>2. CASE ~Abandon(w)
    <3>1. /\ run[w].pc = "completed" /\ abandons < MaxAbandons /\ abandons' = abandons + 1
          /\ UNCHANGED <<effect, attempt, receipts, evidence, recorded, worker, executed>>
      BY <1>6, <2>2 DEF Die
    <3>2. abandons' \in 0..MaxAbandons
      BY <1>1, <3>1, ConstantsAssumption
    <3>3. EffectsInv'
      BY <1>1, <3>1, <3>2, RestKeeps
    <3>4. QED
      BY <1>2, <1>6, <3>1, <3>3, RunEnds DEF Die
  <2>3. QED
    BY <2>1, <2>2
<1>7. QED
  BY <1>3, <1>4, <1>5, <1>6

\* Tx 1 of the attempt keeps the claim that the row shows.
LEMMA RunPersistKeeps ==
  ASSUME ProfileInv, NEW w \in Worker, run[w].pc = "recorded", PersistAttempt(w),
         UNCHANGED <<binding, run>>
  PROVE  ProfileInv'
<1> DEFINE e == worker[w].effect
           m == effect[e].count + 1
<1>1. EffectsInv' /\ Finals
  BY PersistAttemptKeeps, PersistMoves DEF ProfileInv
<1>2. e \in Effect /\ effect[e].state = "queued"
  BY DEF ProfileInv, EffectsInv, WorkersKnow, Knows, PersistAttempt, MayPersist
<1>3. /\ effect \in [Effect -> EffectRow] /\ effect[e] \in EffectRow
      /\ worker \in [Worker -> WorkerRow] /\ worker[w] \in WorkerRow
      /\ binding \in [Effect -> BindingRow] /\ run \in [Worker -> RunRow]
  BY <1>2 DEF ProfileInv, ProfileTypeOK, EffectsInv, TypeOK
<1>4. /\ effect' = [effect EXCEPT ![e].state = "attempted", ![e].count = m]
      /\ worker' = [worker EXCEPT ![w].pc = "calling", ![w].number = m]
  BY DEF PersistAttempt
<1> HIDE DEF e, m
<1>5. /\ effect'[e].state = "attempted" /\ effect'[e].generation = effect[e].generation
      /\ effect'[e].fence = effect[e].fence /\ effect[e].fence \in Nat
      /\ \A d \in Effect : d # e => effect'[d] = effect[d]
  BY <1>2, <1>3, <1>4 DEF EffectRow
<1>6. binding[e].state = "queued"
  BY <1>2, Unsettled DEF Outcome
<1>7. Holds(w)'
  <2>1. /\ worker'[w].pc = "calling" /\ worker'[w].effect = e
        /\ worker'[w].generation = worker[w].generation
        /\ worker'[w].fence = worker[w].fence /\ worker'[w].answer = worker[w].answer
    BY <1>3, <1>4 DEF WorkerRow, e
  <2>2. Holds(w) /\ run'[w] = run[w]
    BY DEF ProfileInv, RunsHeld
  <2>3. QED
    BY <1>2, <1>5, <2>1, <2>2 DEF Holds, ClaimShown, HoldsFence, e
<1>8. ASSUME NEW v \in Worker, v # w
      PROVE  Holds(v)'
  <2>1. worker'[v] = worker[v] /\ run'[v] = run[v]
    BY <1>3, <1>4, <1>8
  <2>2. Holds(v)
    BY DEF ProfileInv, RunsHeld
  <2>3. run[v].pc = "recorded" /\ worker[v].effect = e => ClaimShown(v)'
    BY <1>2, <1>5, <2>1, <2>2 DEF Holds, ClaimShown, HoldsFence
  <2>4. QED
    BY <1>2, <1>5, <2>1, <2>3, HoldsKept
<1>9. QED
  BY <1>1, <1>2, <1>3, <1>5, <1>6, <1>7, <1>8, OneKeeps DEF Outcome

\* The call changes only what the worker holds.
LEMMA RunExecuteKeeps ==
  ASSUME ProfileInv, NEW w \in Worker, run[w].pc = "recorded", Execute(w),
         worker'[w].answer # "retryable_failed", UNCHANGED <<binding, run>>
  PROVE  ProfileInv'
<1>1. EffectsInv' /\ UNCHANGED <<effect, attempt>>
  BY ExecuteKeeps DEF ProfileInv, Execute
<1>2. Finals
  BY <1>1 DEF Finals
<1>3. worker \in [Worker -> WorkerRow] /\ run \in [Worker -> RunRow]
  BY DEF ProfileInv, ProfileTypeOK, EffectsInv, TypeOK
<1>4. /\ worker'[w].pc \in {"answered", "returned"}
      /\ worker'[w].effect = worker[w].effect
      /\ worker'[w].generation = worker[w].generation /\ worker'[w].fence = worker[w].fence
      /\ \A v \in Worker : v # w => worker'[v] = worker[v]
  BY <1>3 DEF Execute, WorkerRow
<1>5. \A v \in Worker : Holds(v)'
  <2>1. SUFFICES ASSUME NEW v \in Worker
                 PROVE  Holds(v)'
    OBVIOUS
  <2>2. Holds(v) /\ run'[v] = run[v]
    BY DEF ProfileInv, RunsHeld
  <2>3. CASE v = w
    BY <1>1, <1>4, <2>2, <2>3 DEF Holds, ClaimShown, HoldsFence
  <2>4. CASE v # w
    BY <1>1, <1>4, <2>2, <2>4 DEF Holds, ClaimShown, HoldsFence
  <2>5. QED
    BY <2>3, <2>4
<1>6. QED
  BY <1>1, <1>2, <1>3, <1>5, StillKeeps

\* The runtime has the result: it waits for the row of its effect, whose claim
\* and attempt are the worker's.
LEMMA AttemptCompletedKeeps ==
  ASSUME ProfileInv, NEW w \in Worker, AttemptCompleted(w)
  PROVE  ProfileInv'
<1> DEFINE e == worker[w].effect
           n == worker[w].number
           a == worker[w].answer
<1>1. EffectsInv' /\ Finals
  BY WriterKeeps, WriterMoves DEF ProfileInv, AttemptCompleted
<1>2. worker[w].pc = "returned" /\ run[w].pc = "recorded" /\ MayComplete(w)
  BY DEF AttemptCompleted, CompleteAttempt
<1>3. /\ e \in Effect /\ n \in Number /\ effect[e].state = "attempted"
      /\ attempt[e][n].completion = "open"
  BY <1>2, HeldAttempt DEF ProfileInv
<1>4. /\ effect \in [Effect -> EffectRow] /\ effect[e] \in EffectRow
      /\ attempt \in [Effect -> [Number -> AttemptRow]] /\ attempt[e][n] \in AttemptRow
      /\ worker \in [Worker -> WorkerRow] /\ worker[w] \in WorkerRow
      /\ binding \in [Effect -> BindingRow] /\ run \in [Worker -> RunRow]
  BY <1>3 DEF ProfileInv, ProfileTypeOK, EffectsInv, TypeOK
<1>5. a \in {"executed", "outcome_unknown", "final_failed"}
  <2>1. a \in Completion
    BY <1>2 DEF ProfileInv, EffectsInv, WorkersKnow, Knows
  <2>2. a # "retryable_failed"
    BY <1>2 DEF ProfileInv, RunsHeld, Holds
  <2>3. QED
    BY <2>1, <2>2 DEF Completion
<1>6. /\ effect[e].generation = worker[w].generation /\ effect[e].fence = worker[w].fence
      /\ binding[e].generation = worker[w].generation /\ binding[e].fence = worker[w].fence
  BY <1>2, <1>3 DEF ProfileInv, RunsHeld, Holds, ClaimShown, MayComplete, HoldsFence
<1>7. /\ attempt[e][n].generation = worker[w].generation
      /\ attempt[e][n].fence = worker[w].fence
  BY <1>3, <1>6 DEF ProfileInv, EffectsInv, OpenAttemptIsCurrent
<1>8. binding[e].state = "queued"
  BY <1>3, Unsettled DEF Outcome
<1>9. /\ attempt' = [attempt EXCEPT ![e][n].completion = a, ![e][n].digest = worker[w].digest]
      /\ effect' = [effect EXCEPT ![e].state = a, ![e].lease = "none"]
      /\ worker' = [worker EXCEPT ![w] = Idle]
      /\ run' = [run EXCEPT ![w] =
           [pc |-> "completed", effect |-> e, generation |-> worker[w].generation,
            fence |-> worker[w].fence, state |-> a]]
      /\ binding' = binding
  BY <1>3 DEF AttemptCompleted, CompleteAttempt, CompletesAttempt
<1> HIDE DEF e, n, a
<1>10. /\ effect'[e].state = a /\ effect'[e].generation = effect[e].generation
       /\ effect'[e].fence = effect[e].fence /\ effect[e].fence \in Nat
       /\ \A d \in Effect : d # e => effect'[d] = effect[d]
  BY <1>3, <1>4, <1>9 DEF EffectRow
<1>11. /\ attempt'[e][n].completion = a
       /\ attempt'[e][n].generation = attempt[e][n].generation
       /\ attempt'[e][n].fence = attempt[e][n].fence
  BY <1>3, <1>4, <1>9 DEF AttemptRow
<1>12. /\ run' \in [Worker -> RunRow] /\ run'[w].pc = "completed" /\ run'[w].effect = e
       /\ run'[w].generation = worker[w].generation /\ run'[w].fence = worker[w].fence
       /\ run'[w].state = a
       /\ \A v \in Worker : v # w => run'[v] = run[v] /\ worker'[v] = worker[v]
  BY <1>3, <1>4, <1>5, <1>9 DEF RunRow, WorkerRow
<1>13. MayCompleteBinding(w)'
  <2>1. /\ binding'[e].state = "queued"
        /\ binding'[e].generation = run'[w].generation /\ binding'[e].fence = run'[w].fence
        /\ effect'[e].state = run'[w].state
        /\ effect'[e].generation = run'[w].generation /\ effect'[e].fence = run'[w].fence
    BY <1>6, <1>8, <1>9, <1>10, <1>12
  <2>2. /\ attempt'[e][n].generation = run'[w].generation
        /\ attempt'[e][n].fence = run'[w].fence
        /\ attempt'[e][n].completion = run'[w].state
    BY <1>7, <1>11, <1>12
  <2>3. n \in Number /\ run'[w].effect = e
    BY <1>3, <1>12
  <2>4. QED
    BY <2>1, <2>2, <2>3 DEF MayCompleteBinding
<1>14. Holds(w)'
  BY <1>4, <1>9, <1>12 DEF Holds, Idle
<1>15. /\ effect[e].state \notin Outcome /\ effect'[e].state # "absent"
       /\ binding' \in [Effect -> BindingRow] /\ binding'[e].state = "queued"
       /\ \A d \in Effect : d # e => effect'[d] = effect[d] /\ binding'[d] = binding[d]
  BY <1>3, <1>4, <1>5, <1>8, <1>9, <1>10 DEF Outcome
<1>16. ASSUME NEW v \in Worker, v # w
       PROVE  Holds(v)'
  <2>1. worker'[v] = worker[v] /\ run'[v] = run[v]
    BY <1>12, <1>16
  <2>2. worker[v].effect = e => ClaimShown(v)'
    BY <1>5, <1>10, <2>1 DEF ClaimShown
  <2>3. QED
    BY <1>3, <1>10, <1>15, <2>1, <2>2, HoldsKept
<1>17. \A v \in Worker : Holds(v)'
  BY <1>14, <1>16
<1>18. \A v \in Worker : run'[v].pc = "completed" =>
         run'[v] = run[v] \/ (run'[v].effect = e /\ MayCompleteBinding(v)')
  BY <1>12, <1>13
<1>19. /\ run' \in [Worker -> RunRow]
       /\ \A u, v \in Worker : run'[u] # run[u] /\ run'[v] # run[v] => u = v
  BY <1>12
<1>20. QED
  BY <1>1, <1>3, <1>15, <1>17, <1>18, <1>19, OneKeeps

\* The row takes the result that waits for it; no other one does.
LEMMA CompleteBindingKeeps ==
  ASSUME ProfileInv, NEW w \in Worker, CompleteBinding(w)
  PROVE  ProfileInv'
<1> DEFINE e == run[w].effect
<1>1. /\ run[w].pc = "completed" /\ MayCompleteBinding(w) /\ UNCHANGED vars
      /\ binding' = [binding EXCEPT ![e].state = run[w].state]
      /\ run' = [run EXCEPT ![w] = NoRun]
  BY DEF CompleteBinding, CompletesBinding
<1>2. EffectsInv' /\ Finals
  BY <1>1, EffectsStep, StepMoves DEF ProfileInv
<1>3. e \in Effect /\ effect[e].state \in Outcome
  BY <1>1, WaitsSettled
<1>4. /\ binding \in [Effect -> BindingRow] /\ binding[e] \in BindingRow
      /\ run \in [Worker -> RunRow] /\ run[w] \in RunRow
      /\ NoRun \in RunRow
      /\ effect' = effect /\ worker' = worker
  BY <1>1, <1>3, ConstantsAssumption DEF ProfileInv, ProfileTypeOK, RunRow, NoRun, vars
<1>5. /\ run[w].state = effect[e].state /\ binding[e].state = "queued"
      /\ binding[e].generation = effect[e].generation /\ binding[e].fence = effect[e].fence
  BY <1>1 DEF MayCompleteBinding
<1>6. run[w].state \in {"executed", "outcome_unknown", "final_failed"}
  BY <1>3, <1>4, <1>5 DEF Outcome, RunRow
<1> HIDE DEF e
<1>7. /\ binding' \in [Effect -> BindingRow] /\ binding'[e].state = effect[e].state
      /\ binding'[e].generation = binding[e].generation
      /\ binding'[e].fence = binding[e].fence
      /\ \A d \in Effect : d # e => binding'[d] = binding[d]
  <2>1. [binding[e] EXCEPT !.state = run[w].state] \in BindingRow
    BY <1>4, <1>6 DEF BindingRow
  <2>2. binding' = [binding EXCEPT ![e] = [binding[e] EXCEPT !.state = run[w].state]]
    BY <1>1, <1>3, <1>4
  <2>3. QED
    BY <1>3, <1>4, <1>5, <2>1, <2>2 DEF BindingRow
<1>8. /\ run' \in [Worker -> RunRow] /\ run'[w].pc = "none"
      /\ \A v \in Worker : v # w => run'[v] = run[v]
  BY <1>1, <1>4 DEF NoRun
<1>9. ProfileTypeOK'
  BY <1>2, <1>7, <1>8 DEF ProfileTypeOK, EffectsInv
<1>10. BindingAgrees'
  BY <1>4, <1>5, <1>7 DEF ProfileInv, BindingAgrees
<1>11. RowsPaired'
  BY <1>3, <1>4, <1>7 DEF ProfileInv, RowsPaired, Outcome
<1>12. ASSUME NEW v \in Worker
       PROVE  Holds(v)'
  <2>1. Holds(v)
    BY DEF ProfileInv, RunsHeld
  <2>2. CASE v = w
    BY <1>1, <1>4, <1>8, <2>1, <2>2 DEF Holds
  <2>3. CASE v # w
    <3>1. run[v].pc = "recorded" /\ worker[v].effect = e => ClaimShown(v)'
      BY <1>3, <1>4, <1>7, <2>1 DEF Holds, ClaimShown, HoldsFence
    <3>2. effect[e].fence \in Nat
      BY <1>3 DEF ProfileInv, EffectsInv, TypeOK, EffectRow
    <3>3. QED
      BY <1>3, <1>4, <1>7, <1>8, <2>3, <3>1, <3>2, HoldsKept
  <2>4. QED
    BY <2>2, <2>3
<1>13. ASSUME NEW v \in Worker, run'[v].pc = "completed"
       PROVE  Waits(v)' /\ run'[v] = run[v]
  <2>1. v # w /\ run'[v] = run[v] /\ run[v].pc = "completed"
    BY <1>8, <1>13
  <2>2. run[v].effect \in Effect /\ run[v].effect # e
    BY <1>1, <2>1, WaitsSettled DEF ProfileInv, OneWaits, e
  <2>3. QED
    BY <1>2, <1>4, <1>7, <2>1, <2>2, WaitKeeps
<1>14. ResultsWait'
  BY <1>13 DEF ResultsWait, Waits
<1>15. OneWaits'
  BY <1>13 DEF ProfileInv, OneWaits
<1>16. QED
  BY <1>2, <1>9, <1>10, <1>11, <1>12, <1>14, <1>15 DEF ProfileInv, RunsHeld

\* An operator cancels the effect in the runtime: its row stays queued.
LEMMA CancelDirectlyKeeps ==
  ASSUME ProfileInv, NEW e \in Effect, NEW key \in Key, Cancel(e, key),
         UNCHANGED <<binding, run>>
  PROVE  ProfileInv'
<1>1. EffectsInv' /\ Finals
  BY CloseKeeps, CommandMoves DEF ProfileInv
<1>2. /\ effect \in [Effect -> EffectRow] /\ effect[e] \in EffectRow
      /\ binding \in [Effect -> BindingRow] /\ run \in [Worker -> RunRow]
  BY DEF ProfileInv, ProfileTypeOK, EffectsInv, TypeOK
<1>3. /\ effect[e].state \in {"accepted", "queued"}
      /\ worker' = worker /\ binding' = binding /\ run' = run
      /\ effect' = [effect EXCEPT ![e].state = "cancelled", ![e].lease = "none"]
  BY DEF Cancel
<1>4. /\ effect'[e].state = "cancelled" /\ effect'[e].generation = effect[e].generation
      /\ effect'[e].fence = effect[e].fence /\ effect[e].fence \in Nat
      /\ \A d \in Effect : d # e => effect'[d] = effect[d] /\ binding'[d] = binding[d]
  BY <1>2, <1>3 DEF EffectRow
<1>5. binding[e].state = "queued"
  BY <1>3, Unsettled DEF Outcome
<1>6. ASSUME NEW v \in Worker
      PROVE  Holds(v)'
  <2>1. worker[v].effect = e => ClaimShown(v)'
    BY <1>3, <1>4 DEF ClaimShown
  <2>2. worker'[v] = worker[v] /\ run'[v] = run[v]
    BY <1>3
  <2>3. effect'[e].state # "absent" /\ effect'[e].fence \in Nat
        /\ effect[e].fence <= effect'[e].fence
    BY <1>4
  <2>4. QED
    BY <1>4, <2>1, <2>2, <2>3, HoldsKept
<1>7. QED
  BY <1>1, <1>2, <1>3, <1>4, <1>5, <1>6, OneKeeps DEF Outcome

\* An operator decides an unknown outcome, with the row or without it.
LEMMA ReconcileKeeps ==
  ASSUME ProfileInv, NEW e \in Effect, NEW key \in Key, Reconcile(e, key), run' = run,
         \/ binding' = binding
         \/ /\ binding[e].state = "outcome_unknown"
            /\ binding' = [binding EXCEPT ![e].state = "reconciled"]
  PROVE  ProfileInv'
<1>1. EffectsInv' /\ Finals
  BY CloseKeeps, CommandMoves DEF ProfileInv
<1>2. /\ effect \in [Effect -> EffectRow] /\ effect[e] \in EffectRow
      /\ binding \in [Effect -> BindingRow] /\ binding[e] \in BindingRow
      /\ run \in [Worker -> RunRow]
  BY DEF ProfileInv, ProfileTypeOK, EffectsInv, TypeOK
<1>3. /\ effect[e].state = "outcome_unknown" /\ worker' = worker
      /\ effect' = [effect EXCEPT ![e].state = "reconciled"]
  BY DEF Reconcile
<1>4. /\ effect'[e].state = "reconciled" /\ effect'[e].generation = effect[e].generation
      /\ effect'[e].fence = effect[e].fence /\ effect[e].fence \in Nat
      /\ \A d \in Effect : d # e => effect'[d] = effect[d]
  BY <1>2, <1>3 DEF EffectRow
<1>5. /\ binding' \in [Effect -> BindingRow]
      /\ \A d \in Effect : d # e => binding'[d] = binding[d]
      /\ binding'[e].generation = binding[e].generation
      /\ binding'[e].fence = binding[e].fence
      /\ \/ binding'[e].state = binding[e].state
         \/ binding[e].state = "outcome_unknown" /\ binding'[e].state = "reconciled"
  <2>1. [binding[e] EXCEPT !.state = "reconciled"] \in BindingRow
    BY <1>2 DEF BindingRow
  <2>2. [binding EXCEPT ![e].state = "reconciled"]
          = [binding EXCEPT ![e] = [binding[e] EXCEPT !.state = "reconciled"]]
    BY <1>2
  <2>3. QED
    BY <1>2, <2>1, <2>2 DEF BindingRow
<1>6. ProfileTypeOK'
  BY <1>1, <1>2, <1>5 DEF ProfileTypeOK, EffectsInv
<1>7. BindingAgrees'
  BY <1>3, <1>4, <1>5 DEF ProfileInv, BindingAgrees
<1>8. RowsPaired'
  BY <1>3, <1>4, <1>5 DEF ProfileInv, RowsPaired
<1>9. ASSUME NEW v \in Worker
      PROVE  Holds(v)'
  <2>1. worker[v].effect = e => ClaimShown(v)'
    BY <1>3, <1>4 DEF ClaimShown
  <2>2. QED
    BY <1>3, <1>4, <1>5, <2>1, HoldsKept
<1>10. ASSUME NEW v \in Worker, run[v].pc = "completed"
       PROVE  Waits(v)'
  <2>1. run[v].effect \in Effect
    BY <1>10, WaitsSettled
  <2>2. CASE run[v].effect = e
    BY <1>4, <2>1, <2>2 DEF Waits
  <2>3. CASE run[v].effect # e
    BY <1>1, <1>4, <1>5, <1>10, <2>1, <2>3, WaitKeeps
  <2>4. QED
    BY <2>2, <2>3
<1>11. ResultsWait'
  BY <1>10 DEF ResultsWait, Waits
<1>12. OneWaits'
  BY DEF ProfileInv, OneWaits
<1>13. QED
  BY <1>1, <1>6, <1>7, <1>8, <1>9, <1>11, <1>12 DEF ProfileInv, RunsHeld

\* Time passes a lease, which the row does not show.
LEMMA ExpireLeaseKeeps ==
  ASSUME ProfileInv, NEW e \in Effect, ExpireLease(e)
  PROVE  ProfileInv'
<1>1. EffectsInv' /\ UNCHANGED <<attempt, worker, binding, run>>
  BY ExpireKeeps DEF ProfileInv, ExpireLease, Expire
<1>2. Finals
  BY <1>1 DEF Finals
<1>3. effect \in [Effect -> EffectRow] /\ run \in [Worker -> RunRow]
  BY DEF ProfileInv, ProfileTypeOK, EffectsInv, TypeOK
<1>4. \A d \in Effect : /\ effect'[d].state = effect[d].state
                        /\ effect'[d].generation = effect[d].generation
                        /\ effect'[d].fence = effect[d].fence
  BY <1>3 DEF ExpireLease, Expire, EffectRow
<1>5. ASSUME NEW v \in Worker
      PROVE  Holds(v)'
  <2>1. Holds(v)
    BY DEF ProfileInv, RunsHeld
  <2>2. worker[v].pc # "idle" => worker[v].effect \in Effect
    BY DEF ProfileInv, EffectsInv, WorkersKnow, Knows
  <2>3. QED
    BY <1>1, <1>4, <2>1, <2>2 DEF Holds, ClaimShown, HoldsFence
<1>6. QED
  BY <1>1, <1>2, <1>3, <1>4, <1>5, StillKeeps

-----------------------------------------------------------------------------
(* The theorems.                                                           *)

\* Every step of the owner and of its operators keeps the inductive invariant.
LEMMA ProfileStep == ProfileInv /\ [ProfileNext]_profileVars => ProfileInv'
<1> SUFFICES ASSUME ProfileInv, [ProfileNext]_profileVars
             PROVE  ProfileInv'
  OBVIOUS
<1>1. ASSUME NEW e \in Effect, ExpireLease(e)
      PROVE  ProfileInv'
  BY <1>1, ExpireLeaseKeeps
<1>2. ASSUME NEW e \in Effect, NEW key \in Key,
             QueueInTransaction(e, key) \/ ReconcileProfile(e, key) \/ ControlDirectly(e, key)
      PROVE  ProfileInv'
  <2>1. CASE QueueInTransaction(e, key)
    BY <2>1, QueueInTransactionKeeps
  <2>2. CASE ReconcileProfile(e, key)
    BY <2>2, ReconcileKeeps DEF ReconcileProfile
  <2>3. CASE ControlDirectly(e, key)
    BY <2>3, CancelDirectlyKeeps, ReconcileKeeps DEF ControlDirectly
  <2>4. QED
    BY <1>2, <2>1, <2>2, <2>3
<1>3. ASSUME NEW w \in Worker, NEW e \in Effect, ClaimEffect(w, e)
      PROVE  ProfileInv'
  BY <1>3, ClaimEffectKeeps
<1>4. ASSUME NEW w \in Worker, ExecuteStep(w)
      PROVE  ProfileInv'
  <2>1. CASE RunAttempt(w)
    BY <2>1, RunPersistKeeps, RunExecuteKeeps DEF RunAttempt
  <2>2. QED
    BY <1>4, <2>1, RecordClaimKeeps, RunEndsKeeps, AttemptCompletedKeeps, CompleteBindingKeeps
    DEF ExecuteStep
<1>5. ASSUME NEW w \in Worker, Die(w)
      PROVE  ProfileInv'
  BY <1>5, RunEndsKeeps
<1>6. CASE UNCHANGED profileVars
  <2>1. UNCHANGED vars /\ binding' = binding /\ run' = run
    BY <1>6 DEF profileVars, vars
  <2>2. EffectsInv' /\ Finals
    BY <2>1, EffectsStep, StepMoves DEF ProfileInv
  <2>3. \A v \in Worker : Holds(v)'
    BY <2>1 DEF vars, ProfileInv, RunsHeld, Holds, ClaimShown, HoldsFence
  <2>4. QED
    BY <2>1, <2>2, <2>3, StillKeeps DEF vars, ProfileInv, ProfileTypeOK
<1>7. QED
  BY <1>1, <1>2, <1>3, <1>4, <1>5, <1>6 DEF ProfileNext

\* In every reachable state the inductive invariant holds.
THEOREM ProfileInvariant == ProfileSpec => []ProfileInv
<1>1. ProfileSpec => ProfileInit /\ [][ProfileNext]_profileVars
  BY PTL DEF ProfileSpec
<1>2. QED
  BY <1>1, ProfileInitial, ProfileStep, PTL

\* The rows and what the workers hold keep their types.
THEOREM ProfileTyped == ProfileSpec => []ProfileTypeOK
<1>1. ProfileInv => ProfileTypeOK
  BY DEF ProfileInv
<1>2. QED
  BY <1>1, ProfileInvariant, PTL

\* A row shows a result only when the runtime has it, under the same claim, but
\* for an unknown one that operators have reconciled in the runtime alone.
THEOREM RowAgreesWithRuntime == ProfileSpec => []BindingAgrees
<1>1. ProfileInv => BindingAgrees
  BY DEF ProfileInv
<1>2. QED
  BY <1>1, ProfileInvariant, PTL

\* The six conditions of the row's last update never refuse a result, but when
\* operators were there first.
THEOREM ResultFitsRow == ProfileSpec => []CompletionFits
<1>1. ProfileInv => CompletionFits
  BY DEF ProfileInv, ResultsWait, Waits, CompletionFits
<1>2. QED
  BY <1>1, ProfileInvariant, PTL

\* An owner that queues in one transaction with its row, and claims no effect
\* but through it, leaves every outcome readable too.
THEOREM ProfileOutcomeReadable == ProfileSpec => []TerminalOutcomeReadable
<1>1. ProfileInv => TerminalOutcomeReadable
  BY OutcomeShows DEF ProfileInv
<1>2. QED
  BY <1>1, ProfileInvariant, PTL

-----------------------------------------------------------------------------
(* The promise of the runtime, kept for the owner.                         *)

\* The owner's steps that are none of the runtime's: its effect is queued at
\* once, or a worker lets go of a claim.
Aside ==
  /\ UNCHANGED <<recorded, executed>>
  /\ \A w \in Worker : \/ worker'[w] = worker[w]
                       \/ worker[w].pc = "claimed" /\ worker'[w] = Idle
  /\ \A e \in Effect : \/ effect'[e] = effect[e]
                       \/ effect[e].state = "absent" /\ effect'[e].state = "queued"

\* The runtime sees its own steps or none it would notice.
LEMMA RuntimeSees ==
  ASSUME ProfileInv, [ProfileNext]_profileVars
  PROVE  [Next]_vars \/ Aside
<1>1. /\ effect \in [Effect -> EffectRow] /\ worker \in [Worker -> WorkerRow]
  BY DEF ProfileInv, EffectsInv, TypeOK
<1>2. CASE \E e \in Effect : ExpireLease(e)
  BY <1>2 DEF ExpireLease, Next
<1>3. CASE \E e \in Effect, key \in Key : ReconcileProfile(e, key) \/ ControlDirectly(e, key)
  BY <1>3 DEF ReconcileProfile, ControlDirectly, Next
<1>4. ASSUME NEW e \in Effect, NEW key \in Key, QueueInTransaction(e, key)
      PROVE  Aside
  <2>1. effect' = [effect EXCEPT ![e] =
          Requeued([effect[e] EXCEPT !.state = "accepted", !.generation = 1])]
    BY <1>4 DEF QueueInTransaction
  <2>2. effect[e] \in EffectRow
    BY <1>1
  <2>3. Requeued([effect[e] EXCEPT !.state = "accepted", !.generation = 1]).state = "queued"
    BY <2>2 DEF Requeued, EffectRow
  <2>4. \A d \in Effect : effect'[d] = effect[d] \/ (d = e /\ effect'[d].state = "queued")
    BY <1>1, <2>1, <2>3
  <2>5. effect[e].state = "absent" /\ UNCHANGED <<recorded, executed, worker>>
    BY <1>4 DEF QueueInTransaction
  <2>6. QED
    BY <2>4, <2>5 DEF Aside
<1>5. CASE \E w \in Worker, e \in Effect : ClaimEffect(w, e)
  BY <1>5 DEF ClaimEffect, Next
<1>6. ASSUME NEW w \in Worker, ExecuteStep(w)
      PROVE  [Next]_vars \/ Aside
  <2>1. CASE RecordClaim(w) \/ CompleteBinding(w)
    BY <2>1 DEF RecordClaim, CompleteBinding
  <2>2. CASE BindingRefused(w)
    BY <2>2 DEF BindingRefused, vars
  <2>3. CASE RunAttempt(w) \/ AttemptRejected(w) \/ AttemptCompleted(w)
    BY <2>3 DEF RunAttempt, AttemptRejected, AttemptCompleted, Next, WorkerStep
  <2>4. CASE ClaimOvertaken(w)
    <3>1. worker[w].pc = "claimed"
      BY <2>4 DEF ProfileInv, RunsHeld, Holds, ClaimOvertaken
    <3>2. QED
      BY <1>1, <2>4, <3>1 DEF ClaimOvertaken, Aside
  <2>5. QED
    BY <1>6, <2>1, <2>2, <2>3, <2>4 DEF ExecuteStep
<1>7. ASSUME NEW w \in Worker, Die(w)
      PROVE  [Next]_vars \/ Aside
  <2>1. CASE Abandon(w)
    BY <2>1 DEF Next
  <2>2. CASE ~Abandon(w)
    BY <1>7, <2>2 DEF Die, Aside
  <2>3. QED
    BY <2>1, <2>2
<1>8. CASE UNCHANGED profileVars
  BY <1>8 DEF profileVars, vars
<1>9. QED
  BY <1>2, <1>3, <1>4, <1>5, <1>6, <1>7, <1>8 DEF ProfileNext

\* What the runtime shows, records and holds stays true under the owner's steps.
LEMMA ProfileTruthStep == ProfileInv /\ TruthInv /\ [ProfileNext]_profileVars => TruthInv'
<1> SUFFICES ASSUME ProfileInv, TruthInv, [ProfileNext]_profileVars
             PROVE  TruthInv'
  OBVIOUS
<1>1. EffectsInv'
  BY ProfileStep DEF ProfileInv
<1>2. CASE [Next]_vars
  BY <1>2, TruthStep
<1>3. CASE Aside
  <2>1. \A w \in Worker : worker'[w] = worker[w] \/ ~Successful(w)'
    BY <1>3 DEF Aside, Idle, Successful
  <2>2. \A e \in Effect : effect'[e].state = "executed" => effect[e].state = "executed"
    BY <1>3 DEF Aside
  <2>3. QED
    BY <1>1, <1>3, <2>1, <2>2, TruthKept DEF Aside
<1>4. QED
  BY <1>2, <1>3, RuntimeSees

\* In every state of the owner's what the runtime shows is true.
LEMMA ProfileTruth == ProfileSpec => []TruthInv
<1>1. ProfileSpec => ProfileInit /\ [][ProfileNext]_profileVars
  BY PTL DEF ProfileSpec
<1>2. ProfileInit => TruthInv
  BY TruthInit DEF ProfileInit
<1>3. QED
  BY <1>1, <1>2, ProfileInvariant, ProfileTruthStep, PTL

\* A step of the owner is one of the promise's, or is not seen.
LEMMA ProfileStepPromised ==
  ProfileInv /\ TruthInv /\ [ProfileNext]_profileVars => [Promise!Next]_(Promise!pvars)
<1> SUFFICES ASSUME ProfileInv, TruthInv, [ProfileNext]_profileVars
             PROVE  [Promise!Next]_(Promise!pvars)
  OBVIOUS
<1>1. CASE [Next]_vars
  BY <1>1, StepPromised
<1>2. CASE Aside
  <2>1. PhaseOf' = PhaseOf
    BY <1>2, PhaseStays DEF Aside, BeforeAttempt
  <2>2. ArmedOf' = ArmedOf
    BY <1>2, ArmedStays DEF Aside, Idle
  <2>3. QED
    BY <1>2, <2>1, <2>2, SeenSame DEF Aside
<1>3. QED
  BY <1>1, <1>2, RuntimeSees

\* With the owner's rows, transactions and dying workers on top, an effect is
\* still what the runtime promises: none is attempted twice without a refusal in
\* between, and every outcome the row can take over is true.
THEOREM ProfileKeepsPromise == ProfileSpec => ImplementsPromise
<1>1. ProfileSpec => ProfileInit /\ [][ProfileNext]_profileVars
  BY PTL DEF ProfileSpec
<1>2. ProfileInit => Promise!Init
  BY PromiseInit DEF ProfileInit
<1>3. QED
  BY <1>1, <1>2, ProfileInvariant, ProfileTruth, ProfileStepPromised, PTL
  DEF ImplementsPromise, Promise!Spec

\* What operators read in the owner's row is true of WeCom: executed only if the
\* write was, final_failed only if it was not.
RowTrue ==
  \A e \in Effect : /\ binding[e].state = "executed" => executed[e] = 1
                    /\ binding[e].state = "final_failed" => executed[e] = 0

\* The row follows the runtime, and the runtime is true.
THEOREM RowShowsTruth == ProfileSpec => []RowTrue
<1>1. ProfileInv /\ TruthInv => RowTrue
  <2>1. SUFFICES ASSUME ProfileInv, TruthInv, NEW e \in Effect,
                        binding[e].state \in {"executed", "final_failed"}
                 PROVE  /\ binding[e].state = "executed" => executed[e] = 1
                        /\ binding[e].state = "final_failed" => executed[e] = 0
    BY DEF RowTrue
  <2>2. effect[e].state = binding[e].state
    BY <2>1 DEF ProfileInv, BindingAgrees
  <2>3. effect[e].state = "final_failed" => executed[e] = 0
    BY <2>1 DEF TruthInv, EffectsInv, ExecutedShown, Uncertain
  <2>4. QED
    BY <2>1, <2>2, <2>3 DEF TruthInv
<1>2. QED
  BY <1>1, ProfileInvariant, ProfileTruth, PTL
=============================================================================
