------------------------ MODULE ExternalEffects_proofs ------------------------
(***************************************************************************)
(* The runtime's safety properties for any effects, workers, keys and      *)
(* bounds, and for every kind of owner, from two inductive invariants,     *)
(* and that it implements EffectPromise.                                   *)
(***************************************************************************)
EXTENDS ExternalEffects, FiniteSetTheorems, TLAPS

-----------------------------------------------------------------------------
(* The inductive invariant, by parts.                                      *)

\* Attempts are numbered without gaps, and each belongs to a later generation
\* than the one before it.
RowsOrdered ==
  \A e \in Effect :
    /\ \A n \in Number : attempt[e][n].completion = "absent" <=> n > effect[e].count
    /\ \A n \in Number : n <= effect[e].count
         => attempt[e][n].generation <= effect[e].generation
    /\ \A m, n \in Number : m < n /\ n <= effect[e].count
         => attempt[e][m].generation < attempt[e][n].generation

\* Generation 1 is the accepted one, which is never attempted, and a queued
\* generation is not attempted yet.
CountBehind ==
  \A e \in Effect :
    /\ effect[e].state = "absent" => effect[e].generation = 0 /\ effect[e].count = 0
    /\ effect[e].state = "accepted" => effect[e].generation = 1 /\ effect[e].count = 0
    /\ effect[e].state = "queued" =>
         /\ effect[e].count + 1 < effect[e].generation
         /\ \A n \in Number : n <= effect[e].count
              => attempt[e][n].generation < effect[e].generation
    /\ effect[e].state # "absent" => effect[e].count < effect[e].generation

\* The last attempt of an attempted effect is open, a settled effect shows its
\* completion, and a completed attempt has the receipt that completed it.
Shown(s) == CASE s = "attempted" -> "open"
              [] s = "reconciled" -> "outcome_unknown"
              [] OTHER -> s

OutcomeShown ==
  \A e \in Effect :
    effect[e].state \in Settled \union {"attempted"} =>
      /\ effect[e].count > 0
      /\ attempt[e][effect[e].count].completion = Shown(effect[e].state)

ReceiptStored(e, n) ==
  \E r \in receipts : /\ r.op \in {"complete_attempt", "recover_attempted"}
                      /\ r.effect = e
                      /\ r.key = attempt[e][n].digest

CompletionsReceipted ==
  \A e \in Effect : \A n \in Number :
    attempt[e][n].completion \in Completion => ReceiptStored(e, n)

\* The queue and retry commands an effect has had.
Openings(e) == {r \in receipts : r.effect = e /\ r.op \in {"queue", "retry"}}

ReceiptsCounted ==
  /\ IsFiniteSet(receipts)
  /\ \A e \in Effect : effect[e].state = "absent" => Openings(e) = {}
  /\ GenerationsReceipted

\* A worker that may call the provider, or holds its answer.
Live(w) == worker[w].pc \in {"calling", "answered", "returned"}

\* What a worker's phase says of the attempt it holds.
Knows(w) ==
  /\ worker[w].pc # "idle" => worker[w].effect \in Effect
  /\ worker[w].pc \in {"answered", "returned"} => worker[w].answer \in Completion
  /\ worker[w].pc = "recovering" => worker[w].answer \in {"executed", "outcome_unknown"}
  /\ Live(w) \/ worker[w].pc = "recovering" =>
       /\ worker[w].number \in 1..effect[worker[w].effect].count
       /\ attempt[worker[w].effect][worker[w].number].generation = worker[w].generation

WorkersKnow == \A w \in Worker : Knows(w)

\* The states of an effect that may have been executed; none is ever retried.
Uncertain == {"attempted", "executed", "outcome_unknown", "reconciled"}

\* A live worker holds the effect's last attempt, and is the only one.
LiveLast ==
  \A w \in Worker :
    Live(w) => /\ worker[w].number = effect[worker[w].effect].count
               /\ effect[worker[w].effect].state \in Uncertain

OneLive ==
  \A v, w \in Worker :
    Live(v) /\ Live(w) /\ worker[v].effect = worker[w].effect => v = w

\* What was executed can only be attempted, executed or unknown; while a call is
\* under way, or was refused, nothing was executed.
ExecutedShown ==
  /\ \A e \in Effect :
       /\ executed[e] \in {0, 1}
       /\ executed[e] = 1 => effect[e].state \in Uncertain
  /\ \A w \in Worker :
       \/ worker[w].pc = "calling"
       \/ Live(w) /\ worker[w].answer \in {"retryable_failed", "final_failed"}
       => executed[worker[w].effect] = 0

EffectsInv ==
  /\ TypeOK
  /\ RowsOrdered
  /\ CountBehind
  /\ OpenAttemptIsCurrent
  /\ OutcomeShown
  /\ CompletionsReceipted
  /\ ReceiptsCounted
  /\ WorkersKnow
  /\ LiveLast
  /\ OneLive
  /\ ExecutedShown

-----------------------------------------------------------------------------
(* Initial states.                                                         *)

\* The initial states satisfy the inductive invariant.
LEMMA EffectsInit == Init => EffectsInv
<1> SUFFICES ASSUME Init
             PROVE  EffectsInv
  OBVIOUS
<1> USE ConstantsAssumption DEF Init
<1>1. TypeOK
  BY DEF TypeOK, EffectRow, State, Lease, AttemptRow, Digest, NoDigest, Completion,
         Number, WorkerRow, Idle
<1>2. RowsOrdered /\ CountBehind
  BY DEF RowsOrdered, CountBehind, Number
<1>3. OpenAttemptIsCurrent /\ OutcomeShown /\ CompletionsReceipted
  BY DEF OpenAttemptIsCurrent, OutcomeShown, CompletionsReceipted, Settled, Completion, Number
<1>4. ReceiptsCounted
  BY FS_EmptySet DEF ReceiptsCounted, Openings, GenerationsReceipted
<1>5. WorkersKnow /\ LiveLast /\ OneLive
  BY DEF WorkersKnow, Knows, LiveLast, OneLive, Live, Idle
<1>6. ExecutedShown
  BY DEF ExecutedShown, Live, Idle
<1>7. QED
  BY <1>1, <1>2, <1>3, <1>4, <1>5, <1>6 DEF EffectsInv

-----------------------------------------------------------------------------
(* Types.                                                                  *)

\* A new row makes a table.
LEMMA RowTypes ==
  ASSUME TypeOK
  PROVE  /\ \A e \in Effect, r \in EffectRow :
              [effect EXCEPT ![e] = r] \in [Effect -> EffectRow]
         /\ \A e \in Effect, n \in Number, r \in AttemptRow :
              [attempt EXCEPT ![e][n] = r] \in [Effect -> [Number -> AttemptRow]]
         /\ \A w \in Worker, r \in WorkerRow :
              [worker EXCEPT ![w] = r] \in [Worker -> WorkerRow]
  BY DEF TypeOK

\* A worker that lets go is typed.
LEMMA IdleType == Idle \in WorkerRow
  BY ConstantsAssumption DEF WorkerRow, Idle, Digest, NoDigest, Completion

\* A new state, with or without the lease, keeps the table's type.
LEMMA StateTypes ==
  ASSUME TypeOK, NEW e \in Effect, NEW s \in State, NEW l \in Lease
  PROVE  /\ [effect EXCEPT ![e].state = s] \in [Effect -> EffectRow]
         /\ [effect EXCEPT ![e].lease = l] \in [Effect -> EffectRow]
         /\ [effect EXCEPT ![e].state = s, ![e].lease = l] \in [Effect -> EffectRow]
<1> USE DEF TypeOK, EffectRow
<1>1. [effect EXCEPT ![e].state = s] \in [Effect -> EffectRow]
  OBVIOUS
<1>2. [effect EXCEPT ![e].lease = l] \in [Effect -> EffectRow]
  OBVIOUS
<1>3. [effect EXCEPT ![e].state = s, ![e].lease = l] \in [Effect -> EffectRow]
  OBVIOUS
<1>4. QED
  BY <1>1, <1>2, <1>3

\* A new generation is typed as long as the bound admits it.
LEMMA RequeuedTypes ==
  ASSUME TypeOK, NEW e \in Effect, NEW row \in EffectRow, row.generation < MaxGeneration
  PROVE  [effect EXCEPT ![e] = Requeued(row)] \in [Effect -> EffectRow]
<1>1. row.generation + 1 \in 0..MaxGeneration /\ 0 \in 0..MaxFence
  BY ConstantsAssumption DEF EffectRow
<1>2. Requeued(row) \in EffectRow
  BY <1>1 DEF Requeued, EffectRow, State, Lease
<1>3. QED
  BY <1>2 DEF TypeOK

\* A completed attempt is typed.
LEMMA CompletedTypes ==
  ASSUME TypeOK, NEW e \in Effect, NEW n \in Number, NEW a \in Completion, NEW d \in Digest
  PROVE  [attempt EXCEPT ![e][n].completion = a, ![e][n].digest = d]
           \in [Effect -> [Number -> AttemptRow]]
<1>1. attempt[e][n] \in AttemptRow
  BY DEF TypeOK
<1>2. [attempt[e][n] EXCEPT !.completion = a, !.digest = d] \in AttemptRow
  BY <1>1 DEF AttemptRow
<1>3. [attempt EXCEPT ![e][n].completion = a, ![e][n].digest = d]
        = [attempt EXCEPT ![e][n] = [attempt[e][n] EXCEPT !.completion = a, !.digest = d]]
  BY DEF TypeOK
<1>4. \A r \in AttemptRow : [attempt EXCEPT ![e][n] = r] \in [Effect -> [Number -> AttemptRow]]
  BY DEF TypeOK
<1>5. QED
  BY <1>2, <1>3, <1>4

\* A worker with an answer is typed.
LEMMA AnswerTypes ==
  ASSUME TypeOK, NEW w \in Worker, NEW q \in {"answered", "returned"},
         NEW a \in Completion, NEW d \in Digest
  PROVE  [worker[w] EXCEPT !.answer = a, !.digest = d, !.pc = q] \in WorkerRow
<1>1. worker[w] \in WorkerRow
  BY DEF TypeOK
<1>2. QED
  BY <1>1 DEF WorkerRow

\* A digest names its attempt, or no effect at all.
LEMMA DigestTypes ==
  ASSUME NEW e \in Effect, NEW n \in 0..MaxGeneration, NEW a \in Completion
  PROVE  DigestOf(e, n, a) \in Digest /\ <<e, n, "lost">> \in Digest
  BY ConstantsAssumption DEF DigestOf, Digest

\* A control receipt and an attempt's are receipts.
LEMMA ReceiptTypes ==
  ASSUME NEW e \in Effect
  PROVE  /\ \A op \in Control, key \in Key :
              [op |-> op, effect |-> e, key |-> key] \in Receipt
         /\ \A op \in {"complete_attempt", "recover_attempted"}, d \in Digest :
              [op |-> op, effect |-> e, key |-> d] \in Receipt
  BY DEF Receipt

-----------------------------------------------------------------------------
(* Receipts.                                                               *)

\* A new receipt counts for its effect if it opens a generation, and for no
\* other effect.
LEMMA ReceiptCounts ==
  ASSUME IsFiniteSet(receipts), NEW r, r \notin receipts,
         receipts' = receipts \union {r}
  PROVE  /\ IsFiniteSet(receipts')
         /\ \A d \in Effect :
              IF r.effect = d /\ r.op \in {"queue", "retry"}
              THEN Cardinality(Openings(d)') = Cardinality(Openings(d)) + 1
              ELSE Openings(d)' = Openings(d)
<1>1. IsFiniteSet(receipts')
  BY FS_AddElement
<1>2. ASSUME NEW d \in Effect, r.effect = d /\ r.op \in {"queue", "retry"}
      PROVE  Cardinality(Openings(d)') = Cardinality(Openings(d)) + 1
  <2>1. Openings(d)' = Openings(d) \union {r} /\ r \notin Openings(d)
    BY <1>2 DEF Openings
  <2>2. IsFiniteSet(Openings(d))
    BY FS_Subset DEF Openings
  <2>3. QED
    BY <2>1, <2>2, FS_AddElement
<1>3. ASSUME NEW d \in Effect, ~(r.effect = d /\ r.op \in {"queue", "retry"})
      PROVE  Openings(d)' = Openings(d)
  BY <1>3 DEF Openings
<1>4. QED
  BY <1>1, <1>2, <1>3

\* The openings of every effect that kept its state and generation still count.
LEMMA CountsKept ==
  ASSUME EffectsInv, IsFiniteSet(receipts'),
         \A e \in Effect : /\ Openings(e)' = Openings(e)
                           /\ effect'[e].generation = effect[e].generation
                           /\ effect'[e].state = "absent" <=> effect[e].state = "absent"
  PROVE  ReceiptsCounted'
<1> USE DEF EffectsInv, ReceiptsCounted, GenerationsReceipted
<1>1. \A e \in Effect :
        effect'[e].state # "absent" => effect'[e].generation = 1 + Cardinality(Openings(e)')
  BY DEF Openings
<1>2. QED
  BY <1>1 DEF Openings

-----------------------------------------------------------------------------
(* Commands and claims: an effect that is not attempted changes its row.   *)

\* Whatever its new state and generation, what is known of rows and workers
\* stays, if an effect that may have been executed stays one.
LEMMA ControlKeeps ==
  ASSUME EffectsInv, NEW e \in Effect,
         effect' \in [Effect -> EffectRow],
         \A d \in Effect : d # e => effect'[d] = effect[d],
         effect[e].state # "attempted", effect'[e].state # "attempted",
         effect'[e].count = effect[e].count,
         effect[e].generation <= effect'[e].generation,
         effect[e].state \in Uncertain => effect'[e].state \in Uncertain,
         receipts \subseteq receipts',
         UNCHANGED <<attempt, executed>>,
         \A v \in Worker : \/ worker'[v] = worker[v]
                           \/ worker'[v].pc = "claimed" /\ worker'[v].effect \in Effect
  PROVE  /\ RowsOrdered' /\ OpenAttemptIsCurrent' /\ CompletionsReceipted'
         /\ WorkersKnow' /\ LiveLast' /\ OneLive' /\ ExecutedShown'
<1> USE DEF EffectsInv
<1>1. RowsOrdered'
  <2>1. ASSUME NEW d \in Effect
        PROVE  /\ effect'[d].count = effect[d].count
               /\ effect[d].generation <= effect'[d].generation
               /\ effect[d].generation \in Nat /\ effect'[d].generation \in Nat
    <3>1. effect[d] \in EffectRow /\ effect'[d] \in EffectRow
      BY DEF TypeOK
    <3>2. effect[d].generation \in Nat /\ effect'[d].generation \in Nat
      BY <3>1 DEF EffectRow
    <3>3. CASE d = e
      BY <3>2, <3>3
    <3>4. CASE d # e
      BY <3>2, <3>4
    <3>5. QED
      BY <3>3, <3>4
  <2>2. \A d \in Effect : \A n \in Number : attempt[d][n].generation \in Nat
    BY DEF TypeOK, AttemptRow
  <2>3. QED
    BY <2>1, <2>2 DEF RowsOrdered
<1>2. OpenAttemptIsCurrent'
  <2>1. \A n \in Number : attempt[e][n].completion # "open"
    BY DEF OpenAttemptIsCurrent
  <2>2. QED
    BY <2>1 DEF OpenAttemptIsCurrent
<1>3. CompletionsReceipted'
  BY DEF CompletionsReceipted, ReceiptStored
<1>4. \A d \in Effect : effect'[d].count = effect[d].count
  OBVIOUS
<1>5. WorkersKnow'
  BY <1>4 DEF WorkersKnow, Knows, Live
<1>6. \A v \in Worker : Live(v)' => Live(v) /\ worker'[v] = worker[v]
  BY DEF Live
<1>7. \A d \in Effect : effect[d].state \in Uncertain => effect'[d].state \in Uncertain
  OBVIOUS
<1>8. \A v \in Worker : Live(v) => worker[v].effect \in Effect
  BY DEF WorkersKnow, Knows, Live
<1>9. LiveLast' /\ OneLive'
  BY <1>4, <1>6, <1>7, <1>8 DEF LiveLast, OneLive
<1>10. ExecutedShown'
  BY <1>6, <1>7 DEF ExecutedShown, Live
<1>11. QED
  BY <1>1, <1>2, <1>3, <1>5, <1>9, <1>10

\* Accepting an effect for the first time.
LEMMA AcceptKeeps ==
  ASSUME EffectsInv, NEW e \in Effect, Accept(e)
  PROVE  EffectsInv'
<1>1. TypeOK'
  <2>1. effect[e] \in EffectRow /\ 1 \in 0..MaxGeneration /\ "accepted" \in State
    BY ConstantsAssumption DEF EffectsInv, TypeOK, State
  <2>2. [effect[e] EXCEPT !.state = "accepted", !.generation = 1] \in EffectRow
    BY <2>1 DEF EffectRow
  <2>3. effect' = [effect EXCEPT ![e] = [effect[e] EXCEPT !.state = "accepted", !.generation = 1]]
    BY DEF EffectsInv, TypeOK, Accept
  <2>4. QED
    BY <2>2, <2>3 DEF EffectsInv, TypeOK, Accept
<1>2. /\ \A d \in Effect : d # e => effect'[d] = effect[d]
      /\ effect[e].state = "absent"
      /\ effect'[e].state = "accepted" /\ effect'[e].generation = 1
      /\ effect'[e].count = effect[e].count
      /\ UNCHANGED <<attempt, receipts, executed, worker>>
  BY DEF EffectsInv, TypeOK, EffectRow, Accept
<1>3. effect[e].generation = 0 /\ effect[e].count = 0 /\ Openings(e) = {}
  BY <1>2 DEF EffectsInv, CountBehind, ReceiptsCounted
<1>4. CountBehind'
  BY <1>2, <1>3 DEF EffectsInv, CountBehind
<1>5. OutcomeShown'
  BY <1>2 DEF EffectsInv, OutcomeShown, Settled, Completion
<1>6. ReceiptsCounted'
  <2>1. \A d \in Effect : Openings(d)' = Openings(d)
    BY <1>2 DEF Openings
  <2>2. Cardinality(Openings(e)') = 0
    BY <1>3, <2>1, FS_EmptySet
  <2>3. \A d \in Effect : effect[d].state # "absent"
          => effect[d].generation = 1 + Cardinality(Openings(d))
    BY DEF EffectsInv, ReceiptsCounted, GenerationsReceipted, Openings
  <2>4. \A d \in Effect : effect'[d].state # "absent"
          => effect'[d].generation = 1 + Cardinality(Openings(d)')
    BY <1>2, <2>1, <2>2, <2>3
  <2>5. GenerationsReceipted'
    BY <2>4 DEF GenerationsReceipted, Openings
  <2>6. QED
    BY <1>2, <2>1, <2>5 DEF EffectsInv, ReceiptsCounted
<1>7. /\ RowsOrdered' /\ OpenAttemptIsCurrent' /\ CompletionsReceipted'
      /\ WorkersKnow' /\ LiveLast' /\ OneLive' /\ ExecutedShown'
  <2>1. effect[e].state \notin Uncertain
    BY <1>2 DEF Uncertain
  <2>2. effect' \in [Effect -> EffectRow]
    BY <1>1 DEF TypeOK
  <2>3. QED
    BY <1>2, <1>3, <2>1, <2>2, ControlKeeps
<1>8. QED
  BY <1>1, <1>4, <1>5, <1>6, <1>7 DEF EffectsInv

\* Opening the next generation of an effect, under a receipt of its own. An effect
\* accepted in the same transaction is queued from the accepted row.
LEMMA RequeueKeeps ==
  ASSUME EffectsInv, NEW e \in Effect, NEW key \in Key, NEW op \in {"queue", "retry"},
         NEW row \in EffectRow,
         \/ effect[e].state \in {"accepted", "retryable_failed"} /\ row = effect[e]
         \/ effect[e].state = "absent" /\ row.generation = 1 /\ row.count = effect[e].count,
         row.generation < MaxGeneration,
         WriteReceipt(op, e, key),
         effect' = [effect EXCEPT ![e] = Requeued(row)],
         UNCHANGED <<attempt, evidence, recorded, worker, executed, abandons>>
  PROVE  EffectsInv'
<1> DEFINE new == [op |-> op, effect |-> e, key |-> key]
<1>1. /\ new \notin receipts /\ receipts' = receipts \union {new}
      /\ new.op = op /\ new.effect = e
  BY DEF WriteReceipt, Receipted
<1>2. new \in Receipt
  BY DEF Receipt, Control
<1>3. effect' \in [Effect -> EffectRow]
  BY RequeuedTypes DEF EffectsInv
<1>4. TypeOK'
  BY <1>1, <1>2, <1>3 DEF EffectsInv, TypeOK
<1>5. /\ \A d \in Effect : d # e => effect'[d] = effect[d]
      /\ effect'[e].state = "queued" /\ effect'[e].generation = row.generation + 1
      /\ effect'[e].count = effect[e].count
  BY DEF EffectsInv, TypeOK, EffectRow, Requeued
<1>6. /\ row.generation \in Nat /\ effect[e].generation \in Nat /\ effect[e].count \in Nat
      /\ \A n \in Number : attempt[e][n].generation \in Nat
  <2>1. effect[e] \in EffectRow /\ \A n \in Number : attempt[e][n] \in AttemptRow
    BY DEF EffectsInv, TypeOK
  <2>2. QED
    BY <2>1 DEF EffectRow, AttemptRow
<1>7. /\ effect[e].count < row.generation /\ effect[e].generation <= row.generation
      /\ \A n \in Number : n <= effect[e].count
           => attempt[e][n].generation <= row.generation
  <2>1. CASE row = effect[e] /\ effect[e].state # "absent"
    BY <1>6, <2>1 DEF EffectsInv, CountBehind, RowsOrdered
  <2>2. CASE effect[e].state = "absent" /\ row.generation = 1
    <3>1. effect[e].generation = 0 /\ effect[e].count = 0
      BY <2>2 DEF EffectsInv, CountBehind
    <3>2. QED
      BY <2>2, <3>1 DEF Number
  <2>3. QED
    BY <2>1, <2>2
<1>8. CountBehind'
  BY <1>5, <1>6, <1>7 DEF EffectsInv, CountBehind
<1>9. OutcomeShown'
  BY <1>5 DEF EffectsInv, OutcomeShown, Settled, Completion
<1>10. ReceiptsCounted'
  <2>1. IsFiniteSet(receipts)
    BY DEF EffectsInv, ReceiptsCounted
  <2>2. /\ IsFiniteSet(receipts')
        /\ Cardinality(Openings(e)') = Cardinality(Openings(e)) + 1
        /\ \A d \in Effect : d # e => Openings(d)' = Openings(d)
    BY <1>1, <2>1, ReceiptCounts
  <2>3. \A d \in Effect : effect[d].state # "absent"
          => effect[d].generation = 1 + Cardinality(Openings(d))
    BY DEF EffectsInv, ReceiptsCounted, GenerationsReceipted, Openings
  <2>4. IsFiniteSet(Openings(e))
    BY <2>1, FS_Subset DEF Openings
  <2>5. Cardinality(Openings(e)) \in Nat
    BY <2>4, FS_CardinalityType
  <2>6. row.generation = 1 + Cardinality(Openings(e))
    <3>1. CASE row = effect[e] /\ effect[e].state # "absent"
      BY <2>3, <3>1
    <3>2. CASE effect[e].state = "absent" /\ row.generation = 1
      <4>1. Openings(e) = {}
        BY <3>2 DEF EffectsInv, ReceiptsCounted
      <4>2. QED
        BY <3>2, <4>1, FS_EmptySet
    <3>3. QED
      BY <3>1, <3>2
  <2>7. \A d \in Effect : effect'[d].state # "absent"
          => effect'[d].generation = 1 + Cardinality(Openings(d)')
    BY <1>5, <2>2, <2>3, <2>5, <2>6
  <2>8. GenerationsReceipted'
    BY <2>7 DEF GenerationsReceipted, Openings
  <2>9. QED
    BY <1>5, <2>2, <2>8 DEF EffectsInv, ReceiptsCounted
<1>11. /\ RowsOrdered' /\ OpenAttemptIsCurrent' /\ CompletionsReceipted'
       /\ WorkersKnow' /\ LiveLast' /\ OneLive' /\ ExecutedShown'
  <2>1. effect[e].state \notin Uncertain /\ effect[e].state # "attempted"
    BY DEF Uncertain
  <2>2. effect[e].generation <= effect'[e].generation
    BY <1>5, <1>6, <1>7
  <2>3. receipts \subseteq receipts'
    BY <1>1
  <2>4. effect'[e].state # "attempted"
    BY <1>5
  <2>5. QED
    BY <1>3, <1>5, <2>1, <2>2, <2>3, <2>4, ControlKeeps
<1>12. QED
  BY <1>4, <1>8, <1>9, <1>10, <1>11 DEF EffectsInv

\* A first generation, or one more after a failure the provider may retry.
LEMMA OpenKeeps ==
  ASSUME EffectsInv, NEW e \in Effect, NEW key \in Key, Queue(e, key) \/ Retry(e, key)
  PROVE  EffectsInv'
<1>1. effect[e] \in EffectRow
  BY DEF EffectsInv, TypeOK
<1>2. CASE Queue(e, key)
  BY <1>1, <1>2, RequeueKeeps DEF Queue
<1>3. CASE Retry(e, key)
  BY <1>1, <1>3, RequeueKeeps DEF Retry
<1>4. QED
  BY <1>2, <1>3

\* A receipt that opens nothing leaves every count as it is.
LEMMA ClosingReceiptCounts ==
  ASSUME EffectsInv, NEW r, r \notin receipts, r.op \notin {"queue", "retry"},
         receipts' = receipts \union {r},
         \A e \in Effect : /\ effect'[e].generation = effect[e].generation
                           /\ effect'[e].state = "absent" <=> effect[e].state = "absent"
  PROVE  ReceiptsCounted'
<1>1. IsFiniteSet(receipts)
  BY DEF EffectsInv, ReceiptsCounted
<1>2. IsFiniteSet(receipts') /\ \A d \in Effect : Openings(d)' = Openings(d)
  BY <1>1, ReceiptCounts
<1>3. QED
  BY <1>2, CountsKept

\* Cancelling what is accepted or queued, and reconciling what is unknown.
LEMMA CloseKeeps ==
  ASSUME EffectsInv, NEW e \in Effect, NEW key \in Key,
         Cancel(e, key) \/ Reconcile(e, key)
  PROVE  EffectsInv'
<1> DEFINE op == IF Cancel(e, key) THEN "cancel" ELSE "reconcile"
           new == [op |-> op, effect |-> e, key |-> key]
<1>1. /\ new \notin receipts /\ receipts' = receipts \union {new}
      /\ new.op = op /\ new.op \in {"cancel", "reconcile"}
  BY DEF WriteReceipt, Receipted, Cancel, Reconcile
<1>2. new \in Receipt
  BY DEF Receipt, Control
<1>3. effect' \in [Effect -> EffectRow]
  <2>1. CASE Cancel(e, key)
    <3>1. "cancelled" \in State /\ "none" \in Lease
      BY DEF State, Lease
    <3>2. QED
      BY <2>1, <3>1, StateTypes DEF EffectsInv, Cancel
  <2>2. CASE Reconcile(e, key)
    <3>1. "reconciled" \in State
      BY DEF State
    <3>2. QED
      BY <2>2, <3>1, StateTypes DEF EffectsInv, Reconcile, Lease
  <2>3. QED
    BY <2>1, <2>2
<1>4. evidence' \subseteq Effect \X (0..MaxGeneration) \X (0..MaxFence)
  <2>1. effect[e].generation \in 0..MaxGeneration /\ effect[e].fence \in 0..MaxFence
    BY DEF EffectsInv, TypeOK, EffectRow
  <2>2. QED
    BY <2>1 DEF EffectsInv, TypeOK, Cancel, Reconcile
<1>5. UNCHANGED <<attempt, recorded, worker, executed, abandons>>
  BY DEF Cancel, Reconcile
<1>6. TypeOK'
  BY <1>1, <1>2, <1>3, <1>4, <1>5 DEF EffectsInv, TypeOK
<1>7. /\ \A d \in Effect : d # e => effect'[d] = effect[d]
      /\ effect'[e].generation = effect[e].generation
      /\ effect'[e].count = effect[e].count
      /\ \/ effect[e].state \in {"accepted", "queued"} /\ effect'[e].state = "cancelled"
         \/ effect[e].state = "outcome_unknown" /\ effect'[e].state = "reconciled"
  BY DEF EffectsInv, TypeOK, EffectRow, Cancel, Reconcile
<1> HIDE DEF op, new
<1>8. CountBehind'
  BY <1>5, <1>7 DEF EffectsInv, CountBehind
<1>9. OutcomeShown'
  <2>1. \A d \in Effect : d # e => /\ effect'[d] = effect[d]
                                   /\ attempt'[d] = attempt[d]
    BY <1>5, <1>7
  <2>2. effect'[e].state \in Settled
          => effect[e].state = "outcome_unknown" /\ effect'[e].state = "reconciled"
    BY <1>7 DEF Settled, Completion
  <2>3. QED
    BY <1>5, <1>7, <2>1, <2>2 DEF EffectsInv, OutcomeShown, Settled, Completion, Shown
<1>10. ReceiptsCounted'
  BY <1>1, <1>7, ClosingReceiptCounts
<1>11. /\ RowsOrdered' /\ OpenAttemptIsCurrent' /\ CompletionsReceipted'
       /\ WorkersKnow' /\ LiveLast' /\ OneLive' /\ ExecutedShown'
  <2>1. effect[e].state \in Uncertain => effect'[e].state \in Uncertain
    BY <1>7 DEF Uncertain
  <2>2. effect[e].generation <= effect'[e].generation
    BY <1>7 DEF EffectsInv, TypeOK, EffectRow
  <2>3. receipts \subseteq receipts'
    BY <1>1
  <2>4. effect[e].state # "attempted" /\ effect'[e].state # "attempted"
    BY <1>7
  <2>5. QED
    BY <1>3, <1>5, <1>7, <2>1, <2>2, <2>3, <2>4, ControlKeeps
<1>12. QED
  BY <1>6, <1>8, <1>9, <1>10, <1>11 DEF EffectsInv

\* A claim takes a queued effect's next fence.
LEMMA ClaimKeeps ==
  ASSUME EffectsInv, NEW w \in Worker, NEW e \in Effect, Claim(w, e)
  PROVE  EffectsInv'
<1>1. effect[e] \in EffectRow /\ effect[e].fence < MaxFence
  BY DEF EffectsInv, TypeOK, Claim
<1>2. effect[e].fence + 1 \in 0..MaxFence /\ effect[e].generation \in 0..MaxGeneration
  BY <1>1, ConstantsAssumption DEF EffectRow
<1>3. effect' \in [Effect -> EffectRow]
  <2>1. [effect[e] EXCEPT !.fence = effect[e].fence + 1, !.lease = "live"] \in EffectRow
    BY <1>1, <1>2 DEF EffectRow, Lease
  <2>2. effect' = [effect EXCEPT ![e] =
                     [effect[e] EXCEPT !.fence = effect[e].fence + 1, !.lease = "live"]]
    BY DEF EffectsInv, TypeOK, Claim
  <2>3. QED
    BY <2>1, <2>2 DEF EffectsInv, TypeOK
<1>4. worker' \in [Worker -> WorkerRow]
  <2>1. [Idle EXCEPT !.pc = "claimed", !.effect = e, !.generation = effect[e].generation,
                     !.fence = effect[e].fence + 1] \in WorkerRow
    BY <1>2, IdleType DEF WorkerRow
  <2>2. QED
    BY <2>1 DEF EffectsInv, TypeOK, Claim
<1>5. UNCHANGED <<attempt, receipts, evidence, recorded, executed, abandons>>
  BY DEF Claim
<1>6. TypeOK'
  BY <1>3, <1>4, <1>5 DEF EffectsInv, TypeOK
<1>7. /\ \A d \in Effect : d # e => effect'[d] = effect[d]
      /\ effect[e].state = "queued" /\ effect'[e].state = "queued"
      /\ effect'[e].generation = effect[e].generation
      /\ effect'[e].count = effect[e].count
  BY DEF EffectsInv, TypeOK, EffectRow, Claim
<1>8. \A v \in Worker : \/ worker'[v] = worker[v]
                        \/ worker'[v].pc = "claimed" /\ worker'[v].effect \in Effect
  BY DEF EffectsInv, TypeOK, Claim, Idle
<1>9. CountBehind'
  BY <1>5, <1>7 DEF EffectsInv, CountBehind
<1>10. OutcomeShown'
  BY <1>5, <1>7 DEF EffectsInv, OutcomeShown, Settled, Completion
<1>11. ReceiptsCounted'
  <2>1. \A d \in Effect : /\ Openings(d)' = Openings(d)
                          /\ effect'[d].generation = effect[d].generation
                          /\ effect'[d].state = "absent" <=> effect[d].state = "absent"
    BY <1>5, <1>7 DEF Openings
  <2>2. IsFiniteSet(receipts')
    BY <1>5 DEF EffectsInv, ReceiptsCounted
  <2>3. QED
    BY <2>1, <2>2, CountsKept
<1>12. /\ RowsOrdered' /\ OpenAttemptIsCurrent' /\ CompletionsReceipted'
       /\ WorkersKnow' /\ LiveLast' /\ OneLive' /\ ExecutedShown'
  <2>1. effect[e].generation <= effect'[e].generation
    BY <1>2, <1>7
  <2>2. effect[e].state \notin Uncertain
    BY <1>7 DEF Uncertain
  <2>3. QED
    BY <1>3, <1>5, <1>7, <1>8, <2>1, <2>2, ControlKeeps
<1>13. QED
  BY <1>6, <1>9, <1>10, <1>11, <1>12 DEF EffectsInv

-----------------------------------------------------------------------------
(* Time and workers that give up.                                          *)

\* A lease expires; nothing else is known of leases.
LEMMA ExpireKeeps ==
  ASSUME EffectsInv, NEW e \in Effect, Expire(e)
  PROVE  EffectsInv'
<1>1. effect' \in [Effect -> EffectRow]
  <2>1. "expired" \in Lease
    BY DEF Lease
  <2>2. QED
    BY <2>1, StateTypes DEF EffectsInv, Expire, State
<1>2. UNCHANGED <<attempt, receipts, evidence, recorded, worker, executed, abandons>>
  BY DEF Expire
<1>3. TypeOK'
  BY <1>1, <1>2 DEF EffectsInv, TypeOK
<1>4. \A d \in Effect : /\ effect'[d].state = effect[d].state
                        /\ effect'[d].generation = effect[d].generation
                        /\ effect'[d].fence = effect[d].fence
                        /\ effect'[d].count = effect[d].count
  BY DEF EffectsInv, TypeOK, EffectRow, Expire
<1>5. RowsOrdered' /\ CountBehind'
  BY <1>2, <1>4 DEF EffectsInv, RowsOrdered, CountBehind
<1>6. OpenAttemptIsCurrent' /\ OutcomeShown' /\ CompletionsReceipted'
  BY <1>2, <1>4 DEF EffectsInv, OpenAttemptIsCurrent, OutcomeShown, CompletionsReceipted,
                    ReceiptStored
<1>7. ReceiptsCounted'
  BY <1>2, <1>4, CountsKept DEF EffectsInv, ReceiptsCounted, Openings
<1>8. WorkersKnow'
  BY <1>2, <1>4 DEF EffectsInv, WorkersKnow, Knows, Live
<1>9. LiveLast' /\ OneLive'
  <2>1. \A w \in Worker : Live(w) => worker[w].effect \in Effect
    BY DEF EffectsInv, WorkersKnow, Knows, Live
  <2>2. QED
    BY <1>2, <1>4, <2>1 DEF EffectsInv, LiveLast, OneLive, Live
<1>10. ExecutedShown'
  BY <1>2, <1>4 DEF EffectsInv, ExecutedShown, Live
<1>11. QED
  BY <1>3, <1>5, <1>6, <1>7, <1>8, <1>9, <1>10 DEF EffectsInv

\* What is known of the tables needs no worker.
LEMMA TablesKeep ==
  ASSUME EffectsInv, UNCHANGED <<effect, attempt, receipts>>
  PROVE  /\ RowsOrdered' /\ CountBehind' /\ OpenAttemptIsCurrent' /\ OutcomeShown'
         /\ CompletionsReceipted' /\ ReceiptsCounted'
<1>1. RowsOrdered' /\ CountBehind' /\ OpenAttemptIsCurrent' /\ OutcomeShown'
  BY DEF EffectsInv, RowsOrdered, CountBehind, OpenAttemptIsCurrent, OutcomeShown
<1>2. CompletionsReceipted' /\ ReceiptsCounted'
  BY DEF EffectsInv, CompletionsReceipted, ReceiptStored, ReceiptsCounted,
         GenerationsReceipted, Openings
<1>3. QED
  BY <1>1, <1>2

\* A worker that lets go forgets what it held.
LEMMA LetGoKeeps ==
  ASSUME EffectsInv, NEW w \in Worker, worker' = [worker EXCEPT ![w] = Idle],
         UNCHANGED <<effect, attempt, receipts, evidence, recorded, executed>>,
         abandons' \in 0..MaxAbandons
  PROVE  EffectsInv'
<1>1. TypeOK'
  BY IdleType DEF EffectsInv, TypeOK
<1>2. \A v \in Worker : \/ worker'[v] = worker[v]
                        \/ worker'[v].pc = "idle"
  BY DEF EffectsInv, TypeOK, Idle
<1>3. WorkersKnow'
  BY <1>2 DEF EffectsInv, WorkersKnow, Knows, Live
<1>4. LiveLast' /\ OneLive'
  BY <1>2 DEF EffectsInv, LiveLast, OneLive, Live
<1>5. ExecutedShown'
  BY <1>2 DEF EffectsInv, ExecutedShown, Live
<1>6. QED
  BY <1>1, <1>3, <1>4, <1>5, TablesKeep DEF EffectsInv

\* A worker whose transaction is refused, or that is killed, lets go.
LEMMA ReleaseKeeps ==
  ASSUME EffectsInv, NEW w \in Worker,
         PersistRejected(w) \/ CompleteRejected(w) \/ RecoveryRejected(w) \/ Abandon(w)
  PROVE  EffectsInv'
<1>1. /\ worker' = [worker EXCEPT ![w] = Idle]
      /\ UNCHANGED <<effect, attempt, receipts, evidence, recorded, executed>>
  BY DEF PersistRejected, CompleteRejected, RecoveryRejected, Abandon
<1>2. abandons' \in 0..MaxAbandons
  BY ConstantsAssumption
  DEF EffectsInv, TypeOK, PersistRejected, CompleteRejected, RecoveryRejected, Abandon
<1>3. QED
  BY <1>1, <1>2, LetGoKeeps

-----------------------------------------------------------------------------
(* The attempt.                                                            *)

\* The claimed worker opens the attempt of a generation that has none.
LEMMA PersistAttemptKeeps ==
  ASSUME EffectsInv, NEW w \in Worker, PersistAttempt(w)
  PROVE  EffectsInv'
<1> DEFINE e == worker[w].effect
           n == effect[e].count + 1
           row == [generation |-> worker[w].generation, fence |-> worker[w].fence,
                   completion |-> "open", digest |-> NoDigest]
<1>1. /\ worker[w].pc = "claimed" /\ effect[e].state = "queued"
      /\ effect[e].generation = worker[w].generation
      /\ effect[e].fence = worker[w].fence
      /\ effect' = [effect EXCEPT ![e].state = "attempted", ![e].count = n]
      /\ attempt' = [attempt EXCEPT ![e][n] = row]
      /\ worker' = [worker EXCEPT ![w].pc = "calling", ![w].number = n]
      /\ UNCHANGED <<receipts, evidence, recorded, executed, abandons>>
  BY DEF PersistAttempt, MayPersist, HoldsFence
<1>2. e \in Effect
  BY <1>1 DEF EffectsInv, WorkersKnow, Knows
<1>3. effect[e] \in EffectRow /\ worker[w] \in WorkerRow
  BY <1>2 DEF EffectsInv, TypeOK
<1>4. n < effect[e].generation
  BY <1>1, <1>2 DEF EffectsInv, CountBehind
<1>5. n \in Number /\ effect[e].count \in Nat
  BY <1>3, <1>4, ConstantsAssumption DEF EffectRow, Number
<1> HIDE DEF e, n
<1>6. row \in AttemptRow
  BY <1>3, ConstantsAssumption DEF AttemptRow, WorkerRow, Digest, NoDigest
<1>7. effect' \in [Effect -> EffectRow]
  <2>1. [effect[e] EXCEPT !.state = "attempted", !.count = n] \in EffectRow
    <3>1. "attempted" \in State /\ n \in 0..MaxGeneration
      BY <1>5, ConstantsAssumption DEF State, Number
    <3>2. QED
      BY <1>3, <3>1 DEF EffectRow
  <2>2. effect' = [effect EXCEPT ![e] = [effect[e] EXCEPT !.state = "attempted", !.count = n]]
    BY <1>1 DEF EffectsInv, TypeOK
  <2>3. QED
    BY <2>1, <2>2 DEF EffectsInv, TypeOK
<1>8. worker' \in [Worker -> WorkerRow]
  <2>1. [worker[w] EXCEPT !.pc = "calling", !.number = n] \in WorkerRow
    <3>1. n \in 0..MaxGeneration
      BY <1>5, ConstantsAssumption DEF Number
    <3>2. QED
      BY <1>3, <3>1 DEF WorkerRow
  <2>2. worker' = [worker EXCEPT ![w] = [worker[w] EXCEPT !.pc = "calling", !.number = n]]
    BY <1>1 DEF EffectsInv, TypeOK
  <2>3. QED
    BY <2>1, <2>2 DEF EffectsInv, TypeOK
<1>9. TypeOK'
  BY <1>1, <1>2, <1>5, <1>6, <1>7, <1>8 DEF EffectsInv, TypeOK
<1>10. /\ \A d \in Effect : d # e => effect'[d] = effect[d] /\ attempt'[d] = attempt[d]
       /\ effect'[e].state = "attempted" /\ effect'[e].count = n
       /\ effect'[e].generation = effect[e].generation
       /\ effect'[e].fence = effect[e].fence
       /\ \A m \in Number : m # n => attempt'[e][m] = attempt[e][m]
       /\ attempt'[e][n] = row
  BY <1>1, <1>2, <1>3, <1>5 DEF EffectsInv, TypeOK, EffectRow
<1>11. /\ \A v \in Worker : v # w => worker'[v] = worker[v]
       /\ worker'[w].pc = "calling" /\ worker'[w].number = n /\ worker'[w].effect = e
       /\ worker'[w].generation = worker[w].generation
  BY <1>1, <1>3 DEF EffectsInv, TypeOK, WorkerRow, e
<1>12. \A m \in Number : m <= effect[e].count
         => attempt[e][m].generation < effect[e].generation
  BY <1>1, <1>2 DEF EffectsInv, CountBehind
<1>13. /\ \A m \in Number : m < n <=> m <= effect[e].count
       /\ \A m \in Number : m <= n <=> m <= effect[e].count \/ m = n
       /\ \A m \in Number : m > n => m > effect[e].count
       /\ \A m \in Number : m \in Nat
  BY <1>5 DEF n, Number
<1>14. RowsOrdered'
  <2>1. ASSUME NEW d \in Effect, d # e
        PROVE  /\ \A m \in Number : attempt'[d][m].completion = "absent" <=> m > effect'[d].count
               /\ \A m \in Number : m <= effect'[d].count
                    => attempt'[d][m].generation <= effect'[d].generation
               /\ \A k, m \in Number : k < m /\ m <= effect'[d].count
                    => attempt'[d][k].generation < attempt'[d][m].generation
    BY <1>10, <2>1 DEF EffectsInv, RowsOrdered
  <2>2. \A m \in Number : attempt'[e][m].completion = "absent" <=> m > effect'[e].count
    <3>1. \A m \in Number : m # n => (m > n <=> m > effect[e].count)
      BY <1>5, <1>13
    <3>2. ~(n > n)
      BY <1>5, <1>13
    <3>3. QED
      BY <1>2, <1>10, <3>1, <3>2 DEF EffectsInv, RowsOrdered
  <2>3. \A m \in Number : m <= effect'[e].count
          => attempt'[e][m].generation <= effect'[e].generation
    <3>1. effect[e].generation <= effect[e].generation
      BY <1>3 DEF EffectRow
    <3>2. QED
      BY <1>1, <1>2, <1>10, <1>13, <3>1 DEF EffectsInv, RowsOrdered
  <2>4. ASSUME NEW k \in Number, NEW m \in Number, k < m, m <= effect'[e].count
        PROVE  attempt'[e][k].generation < attempt'[e][m].generation
    <3>1. k # n /\ k <= effect[e].count
      BY <1>5, <1>10, <1>13, <2>4
    <3>2. CASE m = n
      BY <1>1, <1>10, <1>12, <3>1, <3>2
    <3>3. CASE m # n
      BY <1>2, <1>10, <1>13, <2>4, <3>1, <3>3 DEF EffectsInv, RowsOrdered
    <3>4. QED
      BY <3>2, <3>3
  <2>5. QED
    BY <2>1, <2>2, <2>3, <2>4 DEF RowsOrdered
<1>15. CountBehind'
  BY <1>4, <1>10 DEF EffectsInv, CountBehind
<1>16. OpenAttemptIsCurrent'
  <2>1. \A m \in Number : attempt[e][m].completion # "open"
    BY <1>1, <1>2 DEF EffectsInv, OpenAttemptIsCurrent
  <2>2. QED
    <3>1. /\ attempt'[e][n].completion = "open"
          /\ attempt'[e][n].generation = effect'[e].generation
          /\ attempt'[e][n].fence = effect'[e].fence
      BY <1>1, <1>10
    <3>2. \A m \in Number : attempt'[e][m].completion = "open" <=> m = n
      BY <1>10, <2>1, <3>1
    <3>3. \A d \in Effect : d # e => effect'[d] = effect[d] /\ attempt'[d] = attempt[d]
      BY <1>10
    <3>4. effect'[e].state = "attempted" /\ effect'[e].count = n
      BY <1>10
    <3>5. QED
      BY <3>1, <3>2, <3>3, <3>4 DEF EffectsInv, OpenAttemptIsCurrent
<1>17. OutcomeShown'
  BY <1>5, <1>10, <1>13 DEF EffectsInv, OutcomeShown, Shown, n
<1>18. CompletionsReceipted'
  BY <1>1, <1>10 DEF EffectsInv, CompletionsReceipted, ReceiptStored, Completion
<1>19. ReceiptsCounted'
  <2>1. \A d \in Effect : /\ Openings(d)' = Openings(d)
                          /\ effect'[d].generation = effect[d].generation
                          /\ effect'[d].state = "absent" <=> effect[d].state = "absent"
    BY <1>1, <1>10 DEF Openings
  <2>2. QED
    BY <1>1, <2>1, CountsKept DEF EffectsInv, ReceiptsCounted
<1>20. \A v \in Worker : Live(v) => worker[v].effect \in Effect /\ worker[v].effect # e
  BY <1>1 DEF EffectsInv, WorkersKnow, Knows, LiveLast, Live, Uncertain
<1>21. WorkersKnow'
  <2>1. Knows(w)'
    <3>1. n \in 1..n
      BY <1>5, <1>13 DEF Number
    <3>2. attempt'[e][n].generation = worker'[w].generation /\ effect'[e].count = n
      BY <1>10, <1>11
    <3>3. QED
      BY <1>2, <1>11, <3>1, <3>2 DEF Knows, Live
  <2>2. ASSUME NEW v \in Worker, v # w
        PROVE  Knows(v)'
    <3>1. worker'[v] = worker[v] /\ Knows(v)
      BY <1>11, <2>2 DEF EffectsInv, WorkersKnow
    <3>2. CASE worker[v].effect = e
      <4>1. ASSUME Live(v) \/ worker[v].pc = "recovering"
            PROVE  /\ worker[v].number \in 1..n
                   /\ attempt'[e][worker[v].number] = attempt[e][worker[v].number]
        <5>1. worker[v].number \in 1..effect[e].count
          BY <3>1, <3>2, <4>1 DEF Knows
        <5>2. worker[v].number \in Number /\ worker[v].number # n /\ worker[v].number \in 1..n
          BY <1>3, <1>5, <5>1, ConstantsAssumption DEF Number, EffectRow, n
        <5>3. QED
          BY <1>10, <5>2
      <4>2. QED
        BY <1>10, <3>1, <3>2, <4>1 DEF Knows, Live
    <3>3. CASE worker[v].effect # e
      BY <1>10, <3>1, <3>3 DEF Knows, Live
    <3>4. QED
      BY <3>2, <3>3
  <2>3. QED
    BY <2>1, <2>2 DEF WorkersKnow
<1>22. LiveLast' /\ OneLive'
  BY <1>10, <1>11, <1>20 DEF EffectsInv, LiveLast, OneLive, Live, Uncertain
<1>23. ExecutedShown'
  <2>1. executed[e] = 0
    BY <1>1, <1>2 DEF EffectsInv, ExecutedShown, Uncertain
  <2>2. \A d \in Effect : executed'[d] = executed[d] /\ (d # e => effect'[d] = effect[d])
    BY <1>1, <1>10
  <2>3. \A d \in Effect : /\ executed'[d] \in {0, 1}
                          /\ executed'[d] = 1 => effect'[d].state \in Uncertain
    BY <2>1, <2>2 DEF EffectsInv, ExecutedShown
  <2>4. \A v \in Worker : v # w => worker'[v] = worker[v]
    BY <1>11
  <2>5. worker'[w].effect = e /\ executed' = executed
    BY <1>1, <1>11
  <2>6. QED
    BY <2>1, <2>3, <2>4, <2>5 DEF EffectsInv, ExecutedShown, Live
<1>24. QED
  BY <1>9, <1>14, <1>15, <1>16, <1>17, <1>18, <1>19, <1>21, <1>22, <1>23 DEF EffectsInv

\* The adapter answers, and the provider has executed the call accordingly.
LEMMA ExecuteKeeps ==
  ASSUME EffectsInv, NEW w \in Worker, Execute(w)
  PROVE  EffectsInv'
<1> DEFINE e == worker[w].effect
           n == worker[w].number
<1>1. worker[w].pc = "calling"
  BY DEF Execute
<1>2. /\ e \in Effect /\ worker[w] \in WorkerRow
      /\ n \in 0..MaxGeneration
  BY <1>1 DEF EffectsInv, TypeOK, WorkerRow, WorkersKnow, Knows
<1>3. PICK a \in Answers(e, n) \union {Lost(e, n)} : \E x \in Executions(a.answer) :
        /\ worker' = [worker EXCEPT ![w].answer = a.answer, ![w].digest = a.digest,
             ![w].pc = IF Records /\ a # Lost(e, n) THEN "answered" ELSE "returned"]
        /\ executed' = [executed EXCEPT ![e] = @ + x]
  BY DEF Execute
<1>4. PICK x \in Executions(a.answer) :
        /\ worker' = [worker EXCEPT ![w].answer = a.answer, ![w].digest = a.digest,
             ![w].pc = IF Records /\ a # Lost(e, n) THEN "answered" ELSE "returned"]
        /\ executed' = [executed EXCEPT ![e] = @ + x]
  BY <1>3
<1>5. UNCHANGED <<effect, attempt, receipts, evidence, recorded, abandons>>
  BY DEF Execute
<1>6. a.answer \in Completion /\ a.digest \in Digest
  <2>1. "outcome_unknown" \in Completion
    BY DEF Completion
  <2>2. CASE a \in Answers(e, n)
    <3>1. PICK b \in Completion : a = [answer |-> b, digest |-> DigestOf(e, n, b)]
      BY <2>2 DEF Answers
    <3>2. DigestOf(e, n, b) \in Digest
      BY <1>2, DigestTypes
    <3>3. QED
      BY <3>1, <3>2
  <2>3. CASE a = Lost(e, n)
    BY <1>2, <2>1, <2>3, DigestTypes DEF Lost
  <2>4. QED
    BY <1>3, <2>2, <2>3
<1>7. x \in {0, 1} /\ (a.answer \in {"retryable_failed", "final_failed"} => x = 0)
  BY <1>4 DEF Executions
<1> DEFINE q == IF Records /\ a # Lost(e, n) THEN "answered" ELSE "returned"
<1>8. /\ \A v \in Worker : v # w => worker'[v] = worker[v]
      /\ worker'[w] = [worker[w] EXCEPT !.answer = a.answer, !.digest = a.digest, !.pc = q]
      /\ worker' = [worker EXCEPT ![w] = worker'[w]]
  BY <1>4 DEF EffectsInv, TypeOK
<1>9. q \in {"answered", "returned"}
  OBVIOUS
<1>10. executed[e] = 0
  BY <1>1 DEF EffectsInv, ExecutedShown
<1>11. \A d \in Effect : executed'[d] = IF d = e THEN x ELSE executed[d]
  BY <1>4, <1>7, <1>10 DEF EffectsInv, TypeOK
<1> HIDE DEF q
<1>12. TypeOK'
  <2>1. worker'[w] \in WorkerRow
    <3>1. [worker[w] EXCEPT !.answer = a.answer, !.digest = a.digest, !.pc = q] \in WorkerRow
      BY <1>2, <1>6, <1>9 DEF WorkerRow
    <3>2. QED
      BY <1>8, <3>1
  <2>2. worker' \in [Worker -> WorkerRow]
    BY <1>8, <2>1 DEF EffectsInv, TypeOK
  <2>3. executed' \in [Effect -> Nat]
    <3>1. executed' = [executed EXCEPT ![e] = executed[e] + x]
      BY <1>4
    <3>2. executed[e] + x \in Nat
      BY <1>7, <1>10
    <3>3. QED
      BY <3>1, <3>2 DEF EffectsInv, TypeOK
  <2>4. QED
    BY <1>5, <2>2, <2>3 DEF EffectsInv, TypeOK
<1> HIDE DEF e, n
<1>13. /\ worker'[w].pc \in {"answered", "returned"} /\ worker'[w].answer = a.answer
       /\ worker'[w].effect = e /\ worker'[w].number = worker[w].number
       /\ worker'[w].generation = worker[w].generation
  BY <1>2, <1>8, <1>9 DEF WorkerRow, e
<1>14. worker[w].effect = e
  BY DEF e
<1>15. WorkersKnow'
  <2>1. Knows(w)'
    BY <1>1, <1>2, <1>5, <1>6, <1>13, <1>14 DEF EffectsInv, WorkersKnow, Knows, Live
  <2>2. \A v \in Worker : v # w => Knows(v)'
    BY <1>5, <1>8 DEF EffectsInv, WorkersKnow, Knows, Live
  <2>3. QED
    BY <2>1, <2>2 DEF WorkersKnow
<1>16. /\ Live(w) /\ \A v \in Worker : Live(v)' => Live(v)
       /\ \A v \in Worker : /\ worker'[v].effect = worker[v].effect
                            /\ worker'[v].number = worker[v].number
  BY <1>1, <1>8, <1>13, <1>14 DEF Live
<1>17. LiveLast' /\ OneLive'
  BY <1>5, <1>16 DEF EffectsInv, LiveLast, OneLive
<1>18. ExecutedShown'
  <2>1. effect[e].state \in Uncertain
    BY <1>14, <1>16 DEF EffectsInv, LiveLast
  <2>2. \A d \in Effect : /\ executed'[d] \in {0, 1}
                          /\ executed'[d] = 1 => effect'[d].state \in Uncertain
    BY <1>5, <1>7, <1>11, <2>1 DEF EffectsInv, ExecutedShown
  <2>3. \A v \in Worker : v # w /\ Live(v) => worker[v].effect \in Effect /\ worker[v].effect # e
    BY <1>14, <1>16 DEF EffectsInv, OneLive, WorkersKnow, Knows, Live
  <2>4. ASSUME NEW v \in Worker,
               \/ worker'[v].pc = "calling"
               \/ Live(v)' /\ worker'[v].answer \in {"retryable_failed", "final_failed"}
        PROVE  executed'[worker'[v].effect] = 0
    <3>1. CASE v = w
      BY <1>2, <1>7, <1>11, <1>13, <2>4, <3>1
    <3>2. CASE v # w
      <4>1. worker'[v] = worker[v] /\ Live(v)
        BY <1>8, <2>4, <3>2 DEF Live
      <4>2. worker[v].effect \in Effect /\ executed'[worker[v].effect] = executed[worker[v].effect]
        BY <1>11, <2>3, <3>2, <4>1
      <4>3. QED
        BY <2>4, <4>1, <4>2 DEF EffectsInv, ExecutedShown
    <3>3. QED
      BY <3>1, <3>2
  <2>5. QED
    BY <2>2, <2>4 DEF ExecutedShown
<1>19. QED
  BY <1>5, <1>12, <1>15, <1>17, <1>18, TablesKeep DEF EffectsInv

\* The owner's record of an answer, or its failure, changes no table of the
\* runtime.
LEMMA RecordKeeps ==
  ASSUME EffectsInv, NEW w \in Worker, RecordAnswer(w) \/ RecordFails(w)
  PROVE  EffectsInv'
<1> DEFINE e == worker[w].effect
           n == worker[w].number
<1>1. /\ worker[w].pc = "answered"
      /\ UNCHANGED <<effect, attempt, receipts, evidence, executed>>
  BY DEF RecordAnswer, RecordFails
<1>2. Knows(w) /\ Live(w) /\ worker[w] \in WorkerRow /\ worker[w].answer \in Completion
  BY <1>1 DEF EffectsInv, TypeOK, WorkersKnow, Knows, Live
<1>3. e \in Effect /\ n \in Number
  <2>1. e \in Effect /\ n \in 1..effect[e].count
    BY <1>1, <1>2 DEF Knows
  <2>2. effect[e].count \in 0..MaxGeneration
    BY <2>1 DEF EffectsInv, TypeOK, EffectRow
  <2>3. QED
    BY <2>1, <2>2, ConstantsAssumption DEF Number
<1>4. \E a \in Completion, d \in Digest :
        /\ worker' = [worker EXCEPT ![w] =
             [worker[w] EXCEPT !.answer = a, !.digest = d, !.pc = "returned"]]
        /\ a \in {worker[w].answer, "outcome_unknown"}
  <2>1. CASE RecordAnswer(w)
    <3>1. worker[w].digest \in Digest
      BY <1>2 DEF WorkerRow
    <3>2. worker' = [worker EXCEPT ![w] = [worker[w] EXCEPT !.answer = worker[w].answer,
                       !.digest = worker[w].digest, !.pc = "returned"]]
      BY <1>2, <2>1 DEF EffectsInv, TypeOK, RecordAnswer, WorkerRow
    <3>3. QED
      BY <1>2, <3>1, <3>2
  <2>2. CASE RecordFails(w)
    <3>1. "outcome_unknown" \in Completion
      BY DEF Completion
    <3>2. n \in 0..MaxGeneration
      BY <1>3, ConstantsAssumption DEF Number
    <3>3. <<e, n, "lost">> \in Digest
      BY <1>3, <3>1, <3>2, DigestTypes
    <3>4. worker' = [worker EXCEPT ![w] = [worker[w] EXCEPT !.answer = "outcome_unknown",
                       !.digest = <<e, n, "lost">>, !.pc = "returned"]]
      BY <1>2, <2>2 DEF EffectsInv, TypeOK, RecordFails, WorkerRow, Lost
    <3>5. QED
      BY <3>1, <3>3, <3>4
  <2>3. QED
    BY <2>1, <2>2
<1>5. PICK a \in Completion, d \in Digest :
        /\ worker' = [worker EXCEPT ![w] =
             [worker[w] EXCEPT !.answer = a, !.digest = d, !.pc = "returned"]]
        /\ a \in {worker[w].answer, "outcome_unknown"}
  BY <1>4
<1> HIDE DEF e, n
<1>6. /\ \A v \in Worker : v # w => worker'[v] = worker[v]
      /\ worker'[w].pc = "returned" /\ worker'[w].answer = a
      /\ worker'[w].effect = worker[w].effect /\ worker'[w].number = worker[w].number
      /\ worker'[w].generation = worker[w].generation
  BY <1>2, <1>5 DEF EffectsInv, TypeOK, WorkerRow
<1>7. TypeOK'
  <2>1. worker' \in [Worker -> WorkerRow]
    BY <1>5, AnswerTypes, RowTypes DEF EffectsInv
  <2>2. abandons' \in 0..MaxAbandons
    BY ConstantsAssumption DEF EffectsInv, TypeOK, RecordAnswer, RecordFails
  <2>3. recorded' \in [Effect -> [Number -> Completion \union {"none"}]]
    <3>1. CASE RecordAnswer(w)
      <4>1. recorded' = [recorded EXCEPT ![e][n] = worker[w].answer]
        BY <3>1 DEF RecordAnswer, e, n
      <4>2. QED
        BY <1>2, <1>3, <4>1 DEF EffectsInv, TypeOK
    <3>2. CASE RecordFails(w)
      BY <3>2 DEF EffectsInv, TypeOK, RecordFails
    <3>3. QED
      BY <3>1, <3>2
  <2>4. QED
    BY <1>1, <2>1, <2>2, <2>3 DEF EffectsInv, TypeOK
<1>8. WorkersKnow'
  BY <1>1, <1>2, <1>6 DEF EffectsInv, WorkersKnow, Knows, Live
<1>9. \A v \in Worker : /\ Live(v)' => Live(v)
                        /\ worker'[v].effect = worker[v].effect
                        /\ worker'[v].number = worker[v].number
  BY <1>2, <1>6 DEF Live
<1>10. LiveLast' /\ OneLive'
  BY <1>1, <1>9 DEF EffectsInv, LiveLast, OneLive
<1>11. ExecutedShown'
  <2>1. a \in {"retryable_failed", "final_failed"} => a = worker[w].answer
    BY <1>5
  <2>2. QED
    BY <1>1, <1>2, <1>6, <2>1 DEF EffectsInv, ExecutedShown, Live
<1>12. QED
  BY <1>1, <1>7, <1>8, <1>10, <1>11, TablesKeep DEF EffectsInv

\* A recovery starts from an open attempt: the last one.
LEMMA LoadRecoveryKeeps ==
  ASSUME EffectsInv, NEW w \in Worker, NEW e \in Effect, LoadRecovery(w, e)
  PROVE  EffectsInv'
<1> DEFINE n == effect[e].count
<1>1. /\ effect[e].state = "attempted"
      /\ UNCHANGED <<effect, attempt, receipts, evidence, recorded, executed, abandons>>
  BY DEF LoadRecovery
<1>2. n \in Number /\ n \in 0..MaxGeneration /\ n \in 1..n /\ n > 0
  <2>1. n > 0
    BY <1>1 DEF EffectsInv, OutcomeShown
  <2>2. n \in 0..MaxGeneration
    BY DEF EffectsInv, TypeOK, EffectRow
  <2>3. QED
    BY <2>1, <2>2, ConstantsAssumption DEF Number
<1>3. attempt[e][n].completion = "open"
  BY <1>1, <1>2 DEF EffectsInv, OutcomeShown, Shown
<1>4. attempt[e][n].generation = effect[e].generation
  BY <1>2, <1>3 DEF EffectsInv, OpenAttemptIsCurrent
<1>5. \E a \in {"executed", "outcome_unknown"}, d \in Digest :
        worker' = [worker EXCEPT ![w] =
          [pc |-> "recovering", effect |-> e, generation |-> effect[e].generation,
           fence |-> effect[e].fence, number |-> n, answer |-> a, digest |-> d]]
  <2>1. "executed" \in Completion
    BY DEF Completion
  <2>2. DigestOf(e, n, "executed") \in Digest /\ <<e, n, "lost">> \in Digest
    BY <1>2, <2>1, DigestTypes
  <2>3. RecoveredAs(e, n) \subseteq {"executed", "outcome_unknown"}
    BY DEF RecoveredAs
  <2>4. PICK a \in RecoveredAs(e, n) :
          worker' = [worker EXCEPT ![w] =
            [pc |-> "recovering", effect |-> e, generation |-> effect[e].generation,
             fence |-> effect[e].fence, number |-> n, answer |-> a,
             digest |-> IF a = "executed" THEN DigestOf(e, n, a) ELSE <<e, n, "lost">>]]
    BY DEF LoadRecovery
  <2>5. (IF a = "executed" THEN DigestOf(e, n, a) ELSE <<e, n, "lost">>) \in Digest
    BY <2>2
  <2>6. QED
    BY <2>3, <2>4, <2>5
<1>6. PICK a \in {"executed", "outcome_unknown"}, d \in Digest :
        worker' = [worker EXCEPT ![w] =
          [pc |-> "recovering", effect |-> e, generation |-> effect[e].generation,
           fence |-> effect[e].fence, number |-> n, answer |-> a, digest |-> d]]
  BY <1>5
<1>7. TypeOK'
  <2>1. /\ effect[e].generation \in 0..MaxGeneration /\ effect[e].fence \in 0..MaxFence
        /\ a \in Completion
    BY DEF EffectsInv, TypeOK, EffectRow, Completion
  <2>2. [pc |-> "recovering", effect |-> e, generation |-> effect[e].generation,
         fence |-> effect[e].fence, number |-> n, answer |-> a, digest |-> d] \in WorkerRow
    BY <1>2, <2>1 DEF WorkerRow
  <2>3. QED
    BY <1>1, <1>6, <2>2 DEF EffectsInv, TypeOK
<1>8. /\ \A v \in Worker : v # w => worker'[v] = worker[v]
      /\ worker'[w].pc = "recovering" /\ worker'[w].answer = a
      /\ worker'[w].effect = e /\ worker'[w].number = n
      /\ worker'[w].generation = effect[e].generation
  BY <1>6 DEF EffectsInv, TypeOK
<1> HIDE DEF n
<1>9. WorkersKnow'
  <2>1. Knows(w)'
    <3>1. n = effect'[e].count
      BY <1>1 DEF n
    <3>2. QED
      BY <1>1, <1>2, <1>4, <1>8, <3>1 DEF Knows, Live
  <2>2. \A v \in Worker : v # w => Knows(v)'
    BY <1>1, <1>8 DEF EffectsInv, WorkersKnow, Knows, Live
  <2>3. QED
    BY <2>1, <2>2 DEF WorkersKnow
<1>10. \A v \in Worker : Live(v)' => Live(v) /\ worker'[v] = worker[v]
  BY <1>8 DEF Live
<1>11. LiveLast' /\ OneLive' /\ ExecutedShown'
  BY <1>1, <1>10 DEF EffectsInv, LiveLast, OneLive, ExecutedShown, Live
<1>12. QED
  BY <1>1, <1>7, <1>9, <1>11, TablesKeep DEF EffectsInv

-----------------------------------------------------------------------------
(* Completion: the answering worker, a recorded success or a recovery.     *)

\* A worker with the generation and fence of an attempted effect holds the open
\* attempt.
LEMMA HeldAttempt ==
  ASSUME EffectsInv, NEW w \in Worker, worker[w].pc \in {"returned", "recovering"},
         MayComplete(w)
  PROVE  LET e == worker[w].effect
             n == worker[w].number
         IN /\ e \in Effect /\ n \in Number /\ n = effect[e].count /\ n > 0
            /\ effect[e].state = "attempted"
            /\ attempt[e][n].completion = "open"
<1> DEFINE e == worker[w].effect
           n == worker[w].number
<1>1. effect[e].state = "attempted" /\ effect[e].generation = worker[w].generation
  BY DEF MayComplete, HoldsFence
<1>2. /\ e \in Effect /\ n \in 1..effect[e].count
      /\ attempt[e][n].generation = worker[w].generation
  BY DEF EffectsInv, WorkersKnow, Knows, Live
<1> HIDE DEF e, n
<1>3. effect[e].count \in Number /\ effect[e].count > 0 /\ effect[e].generation \in Nat
  <2>1. effect[e] \in EffectRow
    BY <1>2 DEF EffectsInv, TypeOK
  <2>2. QED
    BY <1>2, <2>1, ConstantsAssumption DEF EffectRow, Number
<1>4. n \in Number
  BY <1>2, <1>3, ConstantsAssumption DEF Number
<1>5. attempt[e][effect[e].count].completion = "open"
  BY <1>1, <1>2 DEF EffectsInv, OutcomeShown, Shown
<1>6. attempt[e][effect[e].count].generation = effect[e].generation
  BY <1>2, <1>3, <1>5 DEF EffectsInv, OpenAttemptIsCurrent
<1>7. n = effect[e].count
  <2>1. SUFFICES ASSUME n # effect[e].count
                 PROVE  FALSE
    OBVIOUS
  <2>2. n < effect[e].count /\ effect[e].count <= effect[e].count
    BY <1>2, <1>3, <2>1 DEF Number
  <2>3. attempt[e][n].generation < attempt[e][effect[e].count].generation
    BY <1>2, <1>3, <1>4, <2>2 DEF EffectsInv, RowsOrdered
  <2>4. QED
    BY <1>1, <1>2, <1>3, <1>6, <2>3
<1>8. QED
  BY <1>1, <1>2, <1>3, <1>4, <1>5, <1>7 DEF e, n

\* The one transaction that settles an effect.
LEMMA CompletesKeeps ==
  ASSUME EffectsInv, NEW w \in Worker, worker[w].pc \in {"returned", "recovering"},
         MayComplete(w),
         NEW a \in Completion, NEW op \in {"complete_attempt", "recover_attempted"},
         worker[w].answer = a,
         CompletesAttempt(worker[w].effect, worker[w].number, worker[w].digest, a, op),
         worker' = [worker EXCEPT ![w] = Idle],
         UNCHANGED <<evidence, recorded, executed, abandons>>
  PROVE  EffectsInv'
<1> DEFINE e == worker[w].effect
           n == worker[w].number
           d == worker[w].digest
           new == [op |-> op, effect |-> e, key |-> d]
<1>1. /\ e \in Effect /\ n \in Number /\ n = effect[e].count /\ n > 0
      /\ effect[e].state = "attempted"
      /\ attempt[e][n].completion = "open"
  BY HeldAttempt
<1>2. d \in Digest
  BY DEF EffectsInv, TypeOK, WorkerRow
<1>3. /\ new \notin receipts /\ receipts' = receipts \union {new} /\ new.op = op
      /\ new.effect = e /\ new.key = d
  BY DEF CompletesAttempt, FreshDigest
<1>4. /\ attempt' = [attempt EXCEPT ![e][n].completion = a, ![e][n].digest = d]
      /\ effect' = [effect EXCEPT ![e].state = a, ![e].lease = "none"]
  BY <1>1 DEF CompletesAttempt
<1>5. new \in Receipt
  BY <1>1, <1>2 DEF Receipt
<1> HIDE DEF e, n, d, new
<1>6. TypeOK'
  <2>1. a \in State /\ "none" \in Lease
    BY DEF State, Lease
  <2>2. effect' \in [Effect -> EffectRow]
    BY <1>1, <1>4, <2>1, StateTypes DEF EffectsInv
  <2>3. attempt' \in [Effect -> [Number -> AttemptRow]]
    <3>1. [attempt EXCEPT ![e][n].completion = a, ![e][n].digest = d]
            \in [Effect -> [Number -> AttemptRow]]
      BY <1>1, <1>2, CompletedTypes DEF EffectsInv
    <3>2. QED
      BY <1>4, <3>1
  <2>4. worker' \in [Worker -> WorkerRow]
    BY IdleType, RowTypes DEF EffectsInv
  <2>5. receipts' \subseteq Receipt
    BY <1>3, <1>5 DEF EffectsInv, TypeOK
  <2>6. QED
    BY <2>2, <2>3, <2>4, <2>5 DEF EffectsInv, TypeOK
<1>7. /\ \A c \in Effect : c # e => effect'[c] = effect[c] /\ attempt'[c] = attempt[c]
      /\ effect'[e].state = a /\ effect'[e].count = effect[e].count
      /\ effect'[e].generation = effect[e].generation
      /\ effect'[e].fence = effect[e].fence
  <2>1. /\ effect \in [Effect -> EffectRow] /\ effect[e] \in EffectRow
        /\ attempt \in [Effect -> [Number -> AttemptRow]]
    BY <1>1 DEF EffectsInv, TypeOK
  <2>2. \A c \in Effect : c # e => effect'[c] = effect[c] /\ attempt'[c] = attempt[c]
    BY <1>4, <2>1
  <2>3. effect'[e] = [effect[e] EXCEPT !.state = a, !.lease = "none"]
    BY <1>1, <1>4, <2>1
  <2>4. QED
    BY <2>1, <2>2, <2>3 DEF EffectRow
<1>8. /\ \A m \in Number : m # n => attempt'[e][m] = attempt[e][m]
      /\ attempt'[e][n].completion = a /\ attempt'[e][n].digest = d
      /\ attempt'[e][n].generation = attempt[e][n].generation
  <2>1. attempt[e][n] \in AttemptRow
    BY <1>1 DEF EffectsInv, TypeOK
  <2>2. attempt' = [attempt EXCEPT ![e][n] =
                      [attempt[e][n] EXCEPT !.completion = a, !.digest = d]]
    BY <1>1, <1>4 DEF EffectsInv, TypeOK
  <2>3. attempt'[e][n] = [attempt[e][n] EXCEPT !.completion = a, !.digest = d]
    BY <1>1, <2>2 DEF EffectsInv, TypeOK
  <2>4. QED
    BY <1>1, <2>1, <2>2, <2>3 DEF EffectsInv, TypeOK, AttemptRow
<1>9. \A c \in Effect : \A m \in Number :
        /\ attempt'[c][m].generation = attempt[c][m].generation
        /\ attempt'[c][m].completion = "absent" <=> attempt[c][m].completion = "absent"
  BY <1>1, <1>7, <1>8 DEF Completion
<1>10. \A v \in Worker : \/ v # w /\ worker'[v] = worker[v]
                         \/ v = w /\ worker'[v].pc = "idle"
  BY DEF EffectsInv, TypeOK, Idle
<1>11. \A c \in Effect : /\ effect'[c].count = effect[c].count
                         /\ effect'[c].generation = effect[c].generation
                         /\ effect'[c].state = "absent" <=> effect[c].state = "absent"
  BY <1>1, <1>7 DEF Completion
<1>12. RowsOrdered'
  BY <1>9, <1>11 DEF EffectsInv, RowsOrdered
<1>13. CountBehind'
  <2>1. a \notin {"absent", "accepted", "queued"}
    BY DEF Completion
  <2>2. effect[e].count < effect[e].generation
    BY <1>1 DEF EffectsInv, CountBehind
  <2>3. QED
    BY <1>7, <1>9, <1>11, <2>1, <2>2 DEF EffectsInv, CountBehind
<1>14. OpenAttemptIsCurrent'
  <2>1. \A m \in Number : attempt'[e][m].completion # "open"
    BY <1>1, <1>8 DEF EffectsInv, OpenAttemptIsCurrent, Completion
  <2>2. effect'[e].state # "attempted"
    BY <1>7 DEF Completion
  <2>3. \A c \in Effect : c # e => effect'[c] = effect[c] /\ attempt'[c] = attempt[c]
    BY <1>7
  <2>4. QED
    BY <2>1, <2>2, <2>3 DEF EffectsInv, OpenAttemptIsCurrent
<1>15. OutcomeShown'
  <2>1. \A c \in Effect : c # e => effect'[c] = effect[c] /\ attempt'[c] = attempt[c]
    BY <1>7
  <2>2. /\ effect'[e].count > 0
        /\ attempt'[e][effect'[e].count].completion = Shown(effect'[e].state)
    BY <1>1, <1>7, <1>8 DEF Shown, Completion
  <2>3. QED
    BY <2>1, <2>2 DEF EffectsInv, OutcomeShown
<1>16. CompletionsReceipted'
  <2>1. \E r \in receipts' : /\ r.op \in {"complete_attempt", "recover_attempted"}
                             /\ r.effect = e
                             /\ r.key = attempt'[e][n].digest
    <3>1. /\ new \in receipts' /\ new.op \in {"complete_attempt", "recover_attempted"}
          /\ new.effect = e /\ new.key = attempt'[e][n].digest
      BY <1>3, <1>8
    <3>2. QED
      BY <3>1
  <2>2. ASSUME NEW c \in Effect, NEW m \in Number, ~(c = e /\ m = n)
        PROVE  attempt'[c][m] = attempt[c][m]
    BY <1>7, <1>8, <2>2
  <2>3. ASSUME NEW c \in Effect, NEW m \in Number, ~(c = e /\ m = n),
               attempt'[c][m].completion \in Completion
        PROVE  ReceiptStored(c, m)'
    BY <1>3, <2>2, <2>3 DEF EffectsInv, CompletionsReceipted, ReceiptStored
  <2>4. QED
    BY <2>1, <2>3 DEF CompletionsReceipted, ReceiptStored
<1>17. ReceiptsCounted'
  BY <1>3, <1>11, ClosingReceiptCounts
<1>18. WorkersKnow'
  <2>1. ASSUME NEW v \in Worker, v # w
        PROVE  Knows(v)'
    <3>1. worker'[v] = worker[v] /\ Knows(v)
      BY <1>10, <2>1 DEF EffectsInv, WorkersKnow
    <3>2. ASSUME Live(v) \/ worker[v].pc = "recovering"
          PROVE  worker[v].effect \in Effect /\ worker[v].number \in Number
      <4>1. worker[v].effect \in Effect /\ worker[v].number \in 1..effect[worker[v].effect].count
        BY <3>1, <3>2 DEF Knows, Live
      <4>2. effect[worker[v].effect].count \in 0..MaxGeneration
        BY <4>1 DEF EffectsInv, TypeOK, EffectRow
      <4>3. QED
        BY <4>1, <4>2, ConstantsAssumption DEF Number
    <3>3. QED
      BY <1>9, <1>11, <3>1, <3>2 DEF Knows, Live
  <2>2. Knows(w)'
    BY <1>10 DEF Knows, Live
  <2>3. QED
    BY <2>1, <2>2 DEF WorkersKnow
<1>19. \A v \in Worker : Live(v)' => v # w /\ Live(v) /\ worker'[v] = worker[v]
  BY <1>10 DEF Live
<1>20. \A v \in Worker : Live(v) => worker[v].effect \in Effect
  BY DEF EffectsInv, WorkersKnow, Knows, Live
\* A refusal is the answer of the one live worker, which is gone now.
<1>21. \A v \in Worker : Live(v)' /\ worker[v].effect = e => a \in Uncertain
  <2>1. CASE worker[w].pc = "returned"
    BY <1>19, <2>1 DEF EffectsInv, OneLive, Live, e
  <2>2. CASE worker[w].pc = "recovering"
    BY <2>2 DEF EffectsInv, WorkersKnow, Knows, Uncertain
  <2>3. QED
    BY <2>1, <2>2
<1>22. LiveLast' /\ OneLive'
  BY <1>7, <1>11, <1>19, <1>20, <1>21 DEF EffectsInv, LiveLast, OneLive
<1>23. ExecutedShown'
  <2>1. executed[e] = 1 => a \in Uncertain
    <3>1. CASE worker[w].pc = "returned"
      BY <3>1 DEF EffectsInv, ExecutedShown, Live, Completion, Uncertain, e
    <3>2. CASE worker[w].pc = "recovering"
      BY <3>2 DEF EffectsInv, WorkersKnow, Knows, Uncertain
    <3>3. QED
      BY <3>1, <3>2
  <2>2. \A c \in Effect : /\ executed'[c] \in {0, 1}
                          /\ executed'[c] = 1 => effect'[c].state \in Uncertain
    BY <1>7, <2>1 DEF EffectsInv, ExecutedShown
  <2>3. QED
    BY <1>19, <2>2 DEF EffectsInv, ExecutedShown, Live
<1>24. QED
  BY <1>6, <1>12, <1>13, <1>14, <1>15, <1>16, <1>17, <1>18, <1>22, <1>23 DEF EffectsInv

\* Whoever writes the outcome.
LEMMA WriterKeeps ==
  ASSUME EffectsInv, NEW w \in Worker,
         CompleteAttempt(w) \/ CompleteRecorded(w) \/ Recover(w)
  PROVE  EffectsInv'
<1>1. CASE CompleteAttempt(w)
  <2>1. worker[w].answer \in Completion
    BY <1>1 DEF EffectsInv, WorkersKnow, Knows, CompleteAttempt
  <2>2. QED
    BY <1>1, <2>1, CompletesKeeps DEF CompleteAttempt
<1>2. CASE CompleteRecorded(w)
  <2>1. "executed" \in Completion
    BY DEF Completion
  <2>2. QED
    BY <1>2, <2>1, CompletesKeeps DEF CompleteRecorded
<1>3. CASE Recover(w)
  <2>1. "outcome_unknown" \in Completion
    BY DEF Completion
  <2>2. QED
    BY <1>3, <2>1, CompletesKeeps DEF Recover, MayRecover
<1>4. QED
  BY <1>1, <1>2, <1>3

-----------------------------------------------------------------------------
(* The theorems.                                                           *)

\* The invariant does not look at the number of abandoned attempts.
LEMMA RestKeeps ==
  ASSUME EffectsInv, abandons' \in 0..MaxAbandons,
         UNCHANGED <<effect, attempt, receipts, evidence, recorded, worker, executed>>
  PROVE  EffectsInv'
<1>1. TypeOK'
  BY DEF EffectsInv, TypeOK
<1>2. RowsOrdered' /\ CountBehind' /\ OpenAttemptIsCurrent' /\ OutcomeShown'
  BY DEF EffectsInv, RowsOrdered, CountBehind, OpenAttemptIsCurrent, OutcomeShown
<1>3. CompletionsReceipted'
  BY DEF EffectsInv, CompletionsReceipted, ReceiptStored
<1>4. ReceiptsCounted'
  BY DEF EffectsInv, ReceiptsCounted, GenerationsReceipted, Openings
<1>5. WorkersKnow' /\ LiveLast' /\ OneLive'
  BY DEF EffectsInv, WorkersKnow, Knows, LiveLast, OneLive, Live
<1>6. ExecutedShown'
  BY DEF EffectsInv, ExecutedShown, Live
<1>7. QED
  BY <1>1, <1>2, <1>3, <1>4, <1>5, <1>6 DEF EffectsInv

\* Every step of the runtime keeps the inductive invariant.
LEMMA EffectsStep == EffectsInv /\ [Next]_vars => EffectsInv'
<1> SUFFICES ASSUME EffectsInv, [Next]_vars
             PROVE  EffectsInv'
  OBVIOUS
<1>1. ASSUME NEW e \in Effect, Accept(e) \/ Expire(e)
      PROVE  EffectsInv'
  BY <1>1, AcceptKeeps, ExpireKeeps
<1>2. ASSUME NEW e \in Effect, NEW key \in Key,
             Queue(e, key) \/ Retry(e, key) \/ Cancel(e, key) \/ Reconcile(e, key)
      PROVE  EffectsInv'
  BY <1>2, OpenKeeps, CloseKeeps
<1>3. ASSUME NEW w \in Worker, NEW e \in Effect, Claim(w, e) \/ LoadRecovery(w, e)
      PROVE  EffectsInv'
  BY <1>3, ClaimKeeps, LoadRecoveryKeeps
<1>4. ASSUME NEW w \in Worker, WorkerStep(w) \/ RecordFails(w) \/ Abandon(w)
      PROVE  EffectsInv'
  BY <1>4, PersistAttemptKeeps, ExecuteKeeps, RecordKeeps, WriterKeeps, ReleaseKeeps
  DEF WorkerStep
<1>5. CASE UNCHANGED vars
  BY <1>5, RestKeeps DEF vars, EffectsInv, TypeOK
<1>6. QED
  BY <1>1, <1>2, <1>3, <1>4, <1>5 DEF Next

\* In every reachable state the inductive invariant holds.
THEOREM EffectsInvariant == Spec => []EffectsInv
  BY EffectsInit, EffectsStep, PTL DEF Spec

\* Every table of the runtime keeps its type, whatever the constants.
THEOREM EffectsTyped == Spec => []TypeOK
<1>1. EffectsInv => TypeOK
  BY DEF EffectsInv
<1>2. QED
  BY <1>1, EffectsInvariant, PTL

\* The provider executes no effect twice: RunAttempt calls it only under an open
\* attempt, of which there is one, and what may have been executed is not retried.
THEOREM NoEffectTwice == Spec => []ExecutedOnce
<1>1. EffectsInv => ExecutedOnce
  BY DEF EffectsInv, ExecutedShown, ExecutedOnce
<1>2. QED
  BY <1>1, EffectsInvariant, PTL

\* The open attempt row is the last one, under the effect's generation and fence:
\* what PersistAttempt wrote is what CompleteAttempt's conditions select.
THEOREM OpenAttemptCurrent == Spec => []OpenAttemptIsCurrent
<1>1. EffectsInv => OpenAttemptIsCurrent
  BY DEF EffectsInv
<1>2. QED
  BY <1>1, EffectsInvariant, PTL

\* However many claims race for a queued generation, PersistAttempt inserts one
\* attempt of it.
THEOREM GenerationAttemptedOnce == Spec => []OneAttemptPerGeneration
<1>1. ASSUME EffectsInv
      PROVE  OneAttemptPerGeneration
  <2>1. SUFFICES ASSUME NEW e \in Effect,
                        NEW m \in 1..effect[e].count, NEW n \in 1..effect[e].count,
                        attempt[e][m].generation = attempt[e][n].generation
                 PROVE  m = n
    BY DEF OneAttemptPerGeneration
  <2>2. effect[e].count \in 0..MaxGeneration
    BY <1>1 DEF EffectsInv, TypeOK, EffectRow
  <2>3. m \in Number /\ n \in Number /\ m <= effect[e].count /\ n <= effect[e].count
    BY <2>2, ConstantsAssumption DEF Number
  <2>4. attempt[e][m].generation \in Nat /\ attempt[e][n].generation \in Nat
    BY <1>1, <2>3 DEF EffectsInv, TypeOK, AttemptRow
  <2>5. ~(m < n) /\ ~(n < m)
    BY <1>1, <2>1, <2>3, <2>4 DEF EffectsInv, RowsOrdered
  <2>6. QED
    BY <2>3, <2>5, ConstantsAssumption DEF Number
<1>2. QED
  BY <1>1, EffectsInvariant, PTL

\* An outcome that is shown, with its receipt, can be read.
LEMMA OutcomeShows ==
  ASSUME EffectsInv
  PROVE  TerminalOutcomeReadable
<1>1. SUFFICES ASSUME NEW e \in Effect, effect[e].state \in Settled
               PROVE  LET last == attempt[e][effect[e].count]
                      IN /\ effect[e].count > 0
                         /\ last.completion = IF effect[e].state = "reconciled"
                                              THEN "outcome_unknown" ELSE effect[e].state
                         /\ \E r \in receipts :
                              /\ r.op \in {"complete_attempt", "recover_attempted"}
                              /\ r.effect = e
                              /\ r.key = last.digest
  BY DEF TerminalOutcomeReadable
<1>2. /\ effect[e].count > 0
      /\ attempt[e][effect[e].count].completion
           = IF effect[e].state = "reconciled" THEN "outcome_unknown" ELSE effect[e].state
  BY <1>1 DEF EffectsInv, OutcomeShown, Shown, Settled, Completion
<1>3. effect[e].count \in Number
  BY <1>2, ConstantsAssumption DEF EffectsInv, TypeOK, EffectRow, Number
<1>4. attempt[e][effect[e].count].completion \in Completion
  BY <1>1, <1>2 DEF Settled, Completion
<1>5. QED
  BY <1>2, <1>3, <1>4 DEF EffectsInv, CompletionsReceipted, ReceiptStored

\* GetTerminalOutcome never finds a settled effect without its attempt, its
\* completion and the receipt that stored it.
THEOREM OutcomeReadable == Spec => []TerminalOutcomeReadable
<1>1. EffectsInv => TerminalOutcomeReadable
  BY OutcomeShows
<1>2. QED
  BY <1>1, EffectsInvariant, PTL

\* A generation is paid for by a queue or retry receipt, and each by one.
THEOREM GenerationsHaveReceipts == Spec => []GenerationsReceipted
<1>1. EffectsInv => GenerationsReceipted
  BY DEF EffectsInv, ReceiptsCounted
<1>2. QED
  BY <1>1, EffectsInvariant, PTL

-----------------------------------------------------------------------------
(* What no step does.                                                      *)

\* A state that changes goes where CanTransition lets it.
Moves == \A e \in Effect : effect'[e].state # effect[e].state
           => CanTransition(effect[e].state, effect'[e].state)

\* A completed attempt is never written again.
Finals == \A e \in Effect : \A n \in Number :
            attempt[e][n].completion \in Completion => attempt'[e][n] = attempt[e][n]

\* The commands under a receipt.
LEMMA CommandMoves ==
  ASSUME EffectsInv, NEW e \in Effect, NEW key \in Key,
         \/ Queue(e, key) \/ Retry(e, key) \/ Cancel(e, key) \/ Reconcile(e, key)
  PROVE  Moves /\ Finals
<1>1. effect \in [Effect -> EffectRow] /\ effect[e] \in EffectRow
  BY DEF EffectsInv, TypeOK
<1>2. /\ attempt' = attempt
      /\ \A d \in Effect : d # e => effect'[d] = effect[d]
  BY <1>1 DEF Queue, Retry, Cancel, Reconcile
<1>3. CASE Queue(e, key) \/ Retry(e, key)
  <2>1. effect'[e].state = "queued"
    BY <1>1, <1>3 DEF EffectRow, Queue, Retry, Requeued
  <2>2. effect[e].state \in {"accepted", "retryable_failed"}
    BY <1>3 DEF Queue, Retry
  <2>3. QED
    BY <1>2, <2>1, <2>2 DEF Moves, Finals, CanTransition
<1>4. CASE Cancel(e, key)
  BY <1>1, <1>2, <1>4 DEF Moves, Finals, CanTransition, EffectRow, Cancel
<1>5. CASE Reconcile(e, key)
  BY <1>1, <1>2, <1>5 DEF Moves, Finals, CanTransition, EffectRow, Reconcile
<1>6. QED
  BY <1>3, <1>4, <1>5

\* A worker opens an attempt that was absent.
LEMMA PersistMoves ==
  ASSUME EffectsInv, NEW w \in Worker, PersistAttempt(w)
  PROVE  Moves /\ Finals
<1> DEFINE e == worker[w].effect
           n == effect[e].count + 1
<1>1. e \in Effect /\ effect[e].state = "queued"
  BY DEF EffectsInv, WorkersKnow, Knows, PersistAttempt, MayPersist
<1>2. effect \in [Effect -> EffectRow] /\ effect[e] \in EffectRow
  BY <1>1 DEF EffectsInv, TypeOK
<1>3. n \in Number /\ n > effect[e].count
  <2>1. n < effect[e].generation
    BY <1>1 DEF EffectsInv, CountBehind
  <2>2. QED
    BY <1>2, <2>1, ConstantsAssumption DEF EffectRow, Number
<1>4. attempt[e][n].completion = "absent"
  BY <1>1, <1>3 DEF EffectsInv, RowsOrdered
<1>5. /\ effect' = [effect EXCEPT ![e].state = "attempted", ![e].count = n]
      /\ attempt' = [attempt EXCEPT ![e][n] =
           [generation |-> worker[w].generation, fence |-> worker[w].fence,
            completion |-> "open", digest |-> NoDigest]]
  BY DEF PersistAttempt
<1> HIDE DEF e, n
<1>6. Moves
  BY <1>1, <1>2, <1>5 DEF Moves, CanTransition, EffectRow
<1>7. Finals
  <2>1. \A d \in Effect : \A m \in Number : ~(d = e /\ m = n) => attempt'[d][m] = attempt[d][m]
    BY <1>5 DEF EffectsInv, TypeOK
  <2>2. QED
    BY <1>4, <2>1 DEF Finals, Completion
<1>8. QED
  BY <1>6, <1>7

\* Whoever completes an attempt finds it open.
LEMMA WriterMoves ==
  ASSUME EffectsInv, NEW w \in Worker,
         CompleteAttempt(w) \/ CompleteRecorded(w) \/ Recover(w)
  PROVE  Moves /\ Finals
<1> DEFINE e == worker[w].effect
           n == worker[w].number
<1>1. worker[w].pc \in {"returned", "recovering"} /\ MayComplete(w)
  BY DEF CompleteAttempt, CompleteRecorded, Recover, MayRecover
<1>2. /\ e \in Effect /\ n \in Number /\ effect[e].state = "attempted"
      /\ attempt[e][n].completion = "open"
  BY <1>1, HeldAttempt
<1>3. \E a \in Completion, d \in Digest :
        /\ attempt' = [attempt EXCEPT ![e][n].completion = a, ![e][n].digest = d]
        /\ effect' = [effect EXCEPT ![e].state = a, ![e].lease = "none"]
  <2>1. worker[w].digest \in Digest
    BY DEF EffectsInv, TypeOK, WorkerRow
  <2>2. "executed" \in Completion /\ "outcome_unknown" \in Completion
    BY DEF Completion
  <2>3. CompleteAttempt(w) => worker[w].answer \in Completion
    BY DEF EffectsInv, WorkersKnow, Knows, CompleteAttempt
  <2>4. QED
    BY <1>2, <2>1, <2>2, <2>3
    DEF CompleteAttempt, CompleteRecorded, Recover, CompletesAttempt
<1>4. PICK a \in Completion, d \in Digest :
        /\ attempt' = [attempt EXCEPT ![e][n].completion = a, ![e][n].digest = d]
        /\ effect' = [effect EXCEPT ![e].state = a, ![e].lease = "none"]
  BY <1>3
<1> HIDE DEF e, n
<1>5. effect \in [Effect -> EffectRow] /\ effect[e] \in EffectRow
  BY <1>2 DEF EffectsInv, TypeOK
<1>6. Moves
  BY <1>2, <1>4, <1>5 DEF Moves, CanTransition, EffectRow
<1>7. Finals
  <2>1. \A c \in Effect : \A m \in Number : ~(c = e /\ m = n) => attempt'[c][m] = attempt[c][m]
    BY <1>4 DEF EffectsInv, TypeOK
  <2>2. QED
    BY <1>2, <2>1 DEF Finals, Completion
<1>8. QED
  BY <1>6, <1>7

\* Every other step leaves states and attempts alone.
LEMMA StepMoves == EffectsInv /\ [Next]_vars => Moves /\ Finals
<1> SUFFICES ASSUME EffectsInv, [Next]_vars
             PROVE  Moves /\ Finals
  OBVIOUS
<1>1. ASSUME NEW e \in Effect, Accept(e) \/ Expire(e)
      PROVE  Moves /\ Finals
  <2>1. effect \in [Effect -> EffectRow] /\ effect[e] \in EffectRow
    BY DEF EffectsInv, TypeOK
  <2>2. QED
    BY <1>1, <2>1 DEF Moves, Finals, CanTransition, EffectRow, Accept, Expire
<1>2. ASSUME NEW e \in Effect, NEW key \in Key,
             Queue(e, key) \/ Retry(e, key) \/ Cancel(e, key) \/ Reconcile(e, key)
      PROVE  Moves /\ Finals
  BY <1>2, CommandMoves
<1>3. ASSUME NEW w \in Worker, NEW e \in Effect, Claim(w, e)
      PROVE  Moves /\ Finals
  <2>1. effect \in [Effect -> EffectRow] /\ effect[e] \in EffectRow
    BY DEF EffectsInv, TypeOK
  <2>2. QED
    BY <1>3, <2>1 DEF Moves, Finals, EffectRow, Claim
<1>4. ASSUME NEW w \in Worker, NEW e \in Effect, LoadRecovery(w, e)
      PROVE  Moves /\ Finals
  BY <1>4 DEF Moves, Finals, LoadRecovery
<1>5. ASSUME NEW w \in Worker, WorkerStep(w)
      PROVE  Moves /\ Finals
  <2>1. CASE \/ PersistRejected(w) \/ Execute(w) \/ RecordAnswer(w)
             \/ CompleteRejected(w) \/ RecoveryRejected(w)
    BY <2>1 DEF Moves, Finals, PersistRejected, Execute, RecordAnswer, CompleteRejected,
                RecoveryRejected
  <2>2. QED
    BY <1>5, <2>1, PersistMoves, WriterMoves DEF WorkerStep
<1>6. ASSUME NEW w \in Worker, RecordFails(w) \/ Abandon(w)
      PROVE  Moves /\ Finals
  BY <1>6 DEF Moves, Finals, RecordFails, Abandon
<1>7. CASE UNCHANGED vars
  BY <1>7 DEF vars, Moves, Finals
<1>8. QED
  BY <1>1, <1>2, <1>3, <1>4, <1>5, <1>6, <1>7 DEF Next

\* The store's conditions enforce the state machine that CanTransition declares
\* and the store never calls.
THEOREM TransitionsEnforced == Spec => TransitionsAllowed
<1>1. EffectsInv /\ [Next]_vars
        => [\A e \in Effect : effect'[e].state # effect[e].state
              => CanTransition(effect[e].state, effect'[e].state)]_vars
  BY StepMoves DEF Moves
<1>2. QED
  BY <1>1, EffectsInvariant, PTL DEF Spec, TransitionsAllowed

\* Worker, recorded completion and recovery: the first to write an outcome is
\* the last.
THEOREM OutcomesFinal == Spec => CompletedAttemptsFinal
<1>1. EffectsInv /\ [Next]_vars
        => [\A e \in Effect : \A n \in Number :
              attempt[e][n].completion \in Completion => attempt'[e][n] = attempt[e][n]]_vars
  BY StepMoves DEF Finals
<1>2. QED
  BY <1>1, EffectsInvariant, PTL DEF Spec, CompletedAttemptsFinal

-----------------------------------------------------------------------------
(* What is shown is true: a second invariant, on top of the first.         *)

\* A worker that holds a success, from the provider or from the owner's record.
Successful(w) ==
  worker[w].pc \in {"answered", "returned", "recovering"} /\ worker[w].answer = "executed"

TruthInv ==
  /\ EffectsInv
  /\ \A w \in Worker : Successful(w) => executed[worker[w].effect] = 1
  /\ \A e \in Effect : \A n \in Number : recorded[e][n] = "executed" => executed[e] = 1
  /\ \A e \in Effect : effect[e].state = "executed" => executed[e] = 1

\* Nothing is shown, recorded or held at first.
LEMMA TruthInit == Init => TruthInv
<1> SUFFICES ASSUME Init
             PROVE  TruthInv
  OBVIOUS
<1>1. EffectsInv
  BY EffectsInit
<1>2. \A w \in Worker : ~Successful(w)
  BY DEF Init, Idle, Successful
<1>3. \A e \in Effect : effect[e].state # "executed" /\ \A n \in Number : recorded[e][n] = "none"
  BY DEF Init
<1>4. QED
  BY <1>1, <1>2, <1>3 DEF TruthInv

\* A step in which no success comes up keeps what is true.
LEMMA TruthKept ==
  ASSUME TruthInv, EffectsInv', UNCHANGED <<recorded, executed>>,
         \A w \in Worker : worker'[w] = worker[w] \/ ~Successful(w)',
         \A e \in Effect : effect'[e].state = "executed" => effect[e].state = "executed"
  PROVE  TruthInv'
<1>1. \A w \in Worker : Successful(w)' => Successful(w) /\ worker'[w] = worker[w]
  BY DEF Successful
<1>2. QED
  BY <1>1 DEF TruthInv

\* The commands, the passing of time and the claims.
LEMMA TruthCommands ==
  ASSUME TruthInv, EffectsInv', NEW e \in Effect,
         \/ Accept(e) \/ Expire(e)
         \/ \E key \in Key : Queue(e, key) \/ Retry(e, key) \/ Cancel(e, key) \/ Reconcile(e, key)
         \/ \E w \in Worker : Claim(w, e)
  PROVE  TruthInv'
<1>1. effect \in [Effect -> EffectRow] /\ effect[e] \in EffectRow /\ worker \in [Worker -> WorkerRow]
  BY DEF TruthInv, EffectsInv, TypeOK
<1>2. /\ \A d \in Effect \ {e} : effect'[d] = effect[d]
      /\ effect'[e].state = "executed" => effect[e].state = "executed"
      /\ UNCHANGED <<recorded, executed>>
  <2>1. CASE Accept(e)
    BY <1>1, <2>1 DEF Accept, EffectRow
  <2>2. CASE Expire(e)
    BY <1>1, <2>2 DEF Expire, EffectRow
  <2>3. CASE \E key \in Key : Queue(e, key) \/ Retry(e, key)
    BY <1>1, <2>3 DEF Queue, Retry, Requeued, EffectRow
  <2>4. CASE \E key \in Key : Cancel(e, key) \/ Reconcile(e, key)
    BY <1>1, <2>4 DEF Cancel, Reconcile, EffectRow
  <2>5. CASE \E w \in Worker : Claim(w, e)
    BY <1>1, <2>5 DEF Claim, EffectRow
  <2>6. QED
    BY <2>1, <2>2, <2>3, <2>4, <2>5
<1>3. ASSUME NEW v \in Worker
      PROVE  worker'[v] = worker[v] \/ ~Successful(v)'
  <2>1. CASE \E w \in Worker : Claim(w, e)
    BY <1>1, <2>1 DEF Claim, Idle, Successful
  <2>2. CASE UNCHANGED worker
    BY <2>2
  <2>3. QED
    BY <2>1, <2>2 DEF Accept, Expire, Queue, Retry, Cancel, Reconcile
<1>4. QED
  BY <1>2, <1>3, TruthKept

\* A worker that lets go, opens an attempt or fails to record its answer.
LEMMA TruthReleases ==
  ASSUME TruthInv, EffectsInv', NEW w \in Worker,
         \/ PersistAttempt(w) \/ PersistRejected(w) \/ RecordFails(w)
         \/ CompleteRejected(w) \/ RecoveryRejected(w) \/ Abandon(w)
  PROVE  TruthInv'
<1> DEFINE d == worker[w].effect
<1>1. effect \in [Effect -> EffectRow] /\ worker \in [Worker -> WorkerRow]
  BY DEF TruthInv, EffectsInv, TypeOK
<1>2. \A e \in Effect : effect'[e].state = "executed" => effect[e].state = "executed"
  <2>1. CASE PersistAttempt(w)
    <3>1. effect' = [effect EXCEPT ![d].state = "attempted", ![d].count = effect[d].count + 1]
      BY <2>1 DEF PersistAttempt
    <3>2. \A e \in Effect : effect'[e] = effect[e] \/ effect'[e].state = "attempted"
      BY <1>1, <3>1 DEF EffectRow
    <3>3. QED
      BY <3>2
  <2>2. QED
    BY <2>1 DEF PersistRejected, RecordFails, CompleteRejected, RecoveryRejected, Abandon
<1>3. \A v \in Worker : worker'[v] = worker[v] \/ ~Successful(v)'
  <2>1. \A v \in Worker \ {w} : worker'[v] = worker[v]
    BY <1>1 DEF PersistAttempt, PersistRejected, RecordFails, CompleteRejected,
                RecoveryRejected, Abandon
  <2>2. CASE PersistAttempt(w)
    <3>1. worker'[w].pc = "calling"
      BY <1>1, <2>2 DEF PersistAttempt, WorkerRow
    <3>2. QED
      BY <2>1, <3>1 DEF Successful
  <2>3. CASE RecordFails(w)
    <3>1. worker'[w].answer = "outcome_unknown"
      BY <1>1, <2>3 DEF RecordFails, WorkerRow
    <3>2. QED
      BY <2>1, <3>1 DEF Successful
  <2>4. CASE PersistRejected(w) \/ CompleteRejected(w) \/ RecoveryRejected(w) \/ Abandon(w)
    <3>1. worker'[w] = Idle
      BY <1>1, <2>4 DEF PersistRejected, CompleteRejected, RecoveryRejected, Abandon
    <3>2. QED
      BY <2>1, <3>1 DEF Successful, Idle
  <2>5. QED
    BY <2>2, <2>3, <2>4
<1>4. UNCHANGED <<recorded, executed>>
  BY DEF PersistAttempt, PersistRejected, RecordFails, CompleteRejected, RecoveryRejected, Abandon
<1>5. QED
  BY <1>2, <1>3, <1>4, TruthKept

\* The one live worker of an effect hears of its call.
LEMMA TruthExecute ==
  ASSUME TruthInv, EffectsInv', NEW w \in Worker, Execute(w)
  PROVE  TruthInv'
<1> DEFINE e == worker[w].effect
           n == worker[w].number
<1>1. /\ worker[w].pc = "calling" /\ e \in Effect
      /\ executed[e] = 0
  BY DEF TruthInv, EffectsInv, WorkersKnow, Knows, ExecutedShown, Execute
<1>2. /\ worker \in [Worker -> WorkerRow] /\ executed \in [Effect -> Nat]
      /\ UNCHANGED <<effect, recorded>>
  BY DEF TruthInv, EffectsInv, TypeOK, Execute
<1>3. PICK a \in Answers(e, n) \union {Lost(e, n)} : \E x \in Executions(a.answer) :
        /\ worker' = [worker EXCEPT ![w].answer = a.answer, ![w].digest = a.digest,
             ![w].pc = IF Records /\ a # Lost(e, n) THEN "answered" ELSE "returned"]
        /\ executed' = [executed EXCEPT ![e] = @ + x]
  BY DEF Execute
<1>4. PICK x \in Executions(a.answer) :
        /\ worker' = [worker EXCEPT ![w].answer = a.answer, ![w].digest = a.digest,
             ![w].pc = IF Records /\ a # Lost(e, n) THEN "answered" ELSE "returned"]
        /\ executed' = [executed EXCEPT ![e] = @ + x]
  BY <1>3
<1>5. x \in {0, 1} /\ (a.answer = "executed" => x = 1)
  BY DEF Executions
<1> HIDE DEF e, n
<1>6. /\ \A v \in Worker \ {w} : worker'[v] = worker[v]
      /\ worker'[w].effect = e /\ worker'[w].answer = a.answer
  BY <1>2, <1>4 DEF WorkerRow, e
<1>7. /\ \A d \in Effect \ {e} : executed'[d] = executed[d]
      /\ executed'[e] = x
  BY <1>1, <1>2, <1>4, <1>5
<1>8. \A d \in Effect : executed[d] = 1 => executed'[d] = 1
  BY <1>1, <1>7
<1>9. \A v \in Worker : Successful(v)' => executed'[worker'[v].effect] = 1
  <2>1. Successful(w)' => executed'[worker'[w].effect] = 1
    BY <1>5, <1>6, <1>7 DEF Successful
  <2>2. ASSUME NEW v \in Worker \ {w}, Successful(v)'
        PROVE  executed'[worker'[v].effect] = 1
    <3>1. Successful(v) /\ worker'[v].effect = worker[v].effect
      BY <1>6, <2>2 DEF Successful
    <3>2. worker[v].effect \in Effect
      BY <3>1 DEF TruthInv, EffectsInv, WorkersKnow, Knows, Successful
    <3>3. QED
      BY <1>8, <3>1, <3>2 DEF TruthInv
  <2>3. QED
    BY <2>1, <2>2
<1>10. QED
  BY <1>2, <1>8, <1>9 DEF TruthInv

\* What is recorded is what the worker holds.
LEMMA TruthRecord ==
  ASSUME TruthInv, EffectsInv', NEW w \in Worker, RecordAnswer(w)
  PROVE  TruthInv'
<1> DEFINE e == worker[w].effect
           n == worker[w].number
<1>1. /\ worker[w].pc = "answered" /\ e \in Effect
      /\ worker[w].answer = "executed" => executed[e] = 1
  BY DEF TruthInv, EffectsInv, WorkersKnow, Knows, Successful, RecordAnswer
<1>2. /\ worker \in [Worker -> WorkerRow]
      /\ recorded \in [Effect -> [Number -> Completion \union {"none"}]]
      /\ UNCHANGED <<effect, executed>>
      /\ recorded' = [recorded EXCEPT ![e][n] = worker[w].answer]
      /\ worker' = [worker EXCEPT ![w].pc = "returned"]
  BY DEF TruthInv, EffectsInv, TypeOK, RecordAnswer
<1> HIDE DEF e, n
<1>3. \A v \in Worker : Successful(v)' => Successful(v) /\ worker'[v].effect = worker[v].effect
  BY <1>1, <1>2 DEF WorkerRow, Successful
<1>4. \A d \in Effect : \A m \in Number :
        recorded'[d][m] = recorded[d][m] \/ (d = e /\ recorded'[d][m] = worker[w].answer)
  <2>1. recorded' = [recorded EXCEPT ![e] = [recorded[e] EXCEPT ![n] = worker[w].answer]]
    BY <1>2
  <2>2. recorded[e] \in [Number -> Completion \union {"none"}]
    BY <1>1, <1>2
  <2>3. recorded'[e] = [recorded[e] EXCEPT ![n] = worker[w].answer]
    BY <1>1, <1>2, <2>1
  <2>4. \A m \in Number : recorded'[e][m] = recorded[e][m] \/ recorded'[e][m] = worker[w].answer
    BY <2>2, <2>3
  <2>5. \A d \in Effect \ {e} : recorded'[d] = recorded[d]
    BY <1>2, <2>1
  <2>6. QED
    BY <2>4, <2>5
<1>5. \A d \in Effect : \A m \in Number : recorded'[d][m] = "executed" => executed'[d] = 1
  BY <1>1, <1>2, <1>4 DEF TruthInv
<1>6. QED
  BY <1>2, <1>3, <1>5 DEF TruthInv

\* A recovery takes up what is recorded.
LEMMA TruthLoads ==
  ASSUME TruthInv, EffectsInv', NEW w \in Worker, NEW e \in Effect, LoadRecovery(w, e)
  PROVE  TruthInv'
<1> DEFINE n == effect[e].count
<1>1. /\ worker \in [Worker -> WorkerRow]
      /\ effect[e].state = "attempted"
      /\ UNCHANGED <<effect, recorded, executed>>
  BY DEF TruthInv, EffectsInv, TypeOK, LoadRecovery
<1>2. n \in Number
  <2>1. n > 0 /\ n \in 0..MaxGeneration
    BY <1>1 DEF TruthInv, EffectsInv, TypeOK, EffectRow, OutcomeShown
  <2>2. QED
    BY <2>1, ConstantsAssumption DEF Number
<1>3. PICK a \in RecoveredAs(e, n) :
        worker' = [worker EXCEPT ![w] =
          [pc |-> "recovering", effect |-> e, generation |-> effect[e].generation,
           fence |-> effect[e].fence, number |-> n, answer |-> a,
           digest |-> IF a = "executed" THEN DigestOf(e, n, a) ELSE <<e, n, "lost">>]]
  BY DEF LoadRecovery
<1>4. a = "executed" => executed[e] = 1
  <2>1. a = "executed" => recorded[e][n] = "executed"
    BY DEF RecoveredAs
  <2>2. QED
    BY <1>2, <2>1 DEF TruthInv
<1> HIDE DEF n
<1>5. /\ \A v \in Worker \ {w} : worker'[v] = worker[v]
      /\ worker'[w].effect = e /\ worker'[w].answer = a
  BY <1>1, <1>3
<1>6. \A v \in Worker : Successful(v)' => executed'[worker'[v].effect] = 1
  BY <1>1, <1>4, <1>5 DEF TruthInv, Successful
<1>7. QED
  BY <1>1, <1>6 DEF TruthInv

\* Who completes an attempt writes what it holds.
LEMMA Writes ==
  ASSUME EffectsInv, NEW w \in Worker,
         CompleteAttempt(w) \/ CompleteRecorded(w) \/ Recover(w)
  PROVE  /\ worker[w].pc \in {"returned", "recovering"}
         /\ worker[w].effect \in Effect
         /\ effect[worker[w].effect].state = "attempted"
         /\ worker[w].answer \in Completion
         /\ effect' = [effect EXCEPT ![worker[w].effect].state = worker[w].answer,
                                     ![worker[w].effect].lease = "none"]
         /\ worker' = [worker EXCEPT ![w] = Idle]
         /\ UNCHANGED <<recorded, executed>>
<1>1. worker[w].pc \in {"returned", "recovering"} /\ MayComplete(w)
  BY DEF CompleteAttempt, CompleteRecorded, Recover, MayRecover
<1>2. worker[w].effect \in Effect /\ effect[worker[w].effect].state = "attempted"
  BY <1>1, HeldAttempt
<1>3. worker[w].answer \in Completion
  BY <1>1 DEF EffectsInv, WorkersKnow, Knows, Completion
<1>4. effect' = [effect EXCEPT ![worker[w].effect].state = worker[w].answer,
                               ![worker[w].effect].lease = "none"]
  BY DEF CompleteAttempt, CompleteRecorded, Recover, CompletesAttempt
<1>5. worker' = [worker EXCEPT ![w] = Idle] /\ UNCHANGED <<recorded, executed>>
  BY DEF CompleteAttempt, CompleteRecorded, Recover
<1>6. QED
  BY <1>1, <1>2, <1>3, <1>4, <1>5

\* What it holds is true of the provider.
LEMMA TruthWrites ==
  ASSUME TruthInv, EffectsInv', NEW w \in Worker,
         CompleteAttempt(w) \/ CompleteRecorded(w) \/ Recover(w)
  PROVE  TruthInv'
<1> DEFINE e == worker[w].effect
           a == worker[w].answer
<1>1. /\ worker[w].pc \in {"returned", "recovering"} /\ e \in Effect
      /\ effect' = [effect EXCEPT ![e].state = a, ![e].lease = "none"]
      /\ worker' = [worker EXCEPT ![w] = Idle]
      /\ UNCHANGED <<recorded, executed>>
  BY Writes DEF TruthInv
<1>2. a = "executed" => executed[e] = 1
  BY <1>1 DEF TruthInv, Successful
<1>3. effect \in [Effect -> EffectRow] /\ worker \in [Worker -> WorkerRow]
  BY DEF TruthInv, EffectsInv, TypeOK
<1> HIDE DEF e, a
<1>4. \A d \in Effect : effect'[d] = effect[d] \/ (d = e /\ effect'[d].state = a)
  <2>1. \A d \in Effect \ {e} : effect'[d] = effect[d]
    BY <1>1, <1>3
  <2>2. effect[e] \in EffectRow
    BY <1>1, <1>3
  <2>3. effect'[e] = [effect[e] EXCEPT !.state = a, !.lease = "none"]
    BY <1>1, <1>3
  <2>4. effect'[e].state = a
    BY <2>2, <2>3 DEF EffectRow
  <2>5. QED
    BY <2>1, <2>4
<1>5. \A v \in Worker : worker'[v] = worker[v] \/ worker'[v] = Idle
  BY <1>1, <1>3
<1>6. \A v \in Worker : Successful(v)' => Successful(v) /\ worker'[v] = worker[v]
  BY <1>5 DEF Successful, Idle
<1>7. \A d \in Effect : effect'[d].state = "executed" => executed'[d] = 1
  BY <1>1, <1>2, <1>4 DEF TruthInv
<1>8. \A v \in Worker : Successful(v)' => executed'[worker'[v].effect] = 1
  BY <1>1, <1>6 DEF TruthInv
<1>9. \A d \in Effect : \A m \in Number : recorded'[d][m] = "executed" => executed'[d] = 1
  BY <1>1 DEF TruthInv
<1>10. QED
  BY <1>7, <1>8, <1>9 DEF TruthInv

\* Every step keeps what is shown true.
LEMMA TruthStep == TruthInv /\ [Next]_vars => TruthInv'
<1> SUFFICES ASSUME TruthInv, [Next]_vars
             PROVE  TruthInv'
  OBVIOUS
<1>1. EffectsInv'
  BY EffectsStep DEF TruthInv
<1>2. CASE \E e \in Effect :
             \/ Accept(e) \/ Expire(e)
             \/ \E key \in Key :
                  Queue(e, key) \/ Retry(e, key) \/ Cancel(e, key) \/ Reconcile(e, key)
             \/ \E w \in Worker : Claim(w, e)
  BY <1>1, <1>2, TruthCommands
<1>3. CASE \E w \in Worker, e \in Effect : LoadRecovery(w, e)
  BY <1>1, <1>3, TruthLoads
<1>4. CASE \E w \in Worker : WorkerStep(w) \/ RecordFails(w) \/ Abandon(w)
  BY <1>1, <1>4, TruthReleases, TruthExecute, TruthRecord, TruthWrites DEF WorkerStep
<1>5. CASE UNCHANGED vars
  BY <1>1, <1>5, TruthKept DEF vars
<1>6. QED
  BY <1>2, <1>3, <1>4, <1>5 DEF Next

\* In every reachable state the records, the held answers and the shown outcomes
\* of an effect are true of the provider.
THEOREM TruthInvariant == Spec => []TruthInv
  BY TruthInit, TruthStep, PTL DEF Spec

\* What the runtime shows as executed was executed, and what it shows as refused,
\* cancelled or to be attempted was not, whoever wrote it.
THEOREM OutcomesTrue == Spec => []OutcomeTrue
<1>1. TruthInv => OutcomeTrue
  BY DEF TruthInv, EffectsInv, ExecutedShown, Uncertain, OutcomeTrue
<1>2. QED
  BY <1>1, TruthInvariant, PTL

-----------------------------------------------------------------------------
(* The runtime implements EffectPromise.                                   *)

\* Nothing is attempted, armed or executed at first.
LEMMA PromiseInit == Init => Promise!Init
<1> SUFFICES ASSUME Init
             PROVE  Promise!Init
  OBVIOUS
<1>1. PhaseOf = [e \in Effect |-> "ready"]
  BY DEF Init, PhaseOf, BeforeAttempt
<1>2. ArmedOf = {}
  BY DEF Init, Idle, ArmedOf
<1>3. QED
  BY <1>1, <1>2 DEF Init, Promise!Init

\* The phases after a step that changes one effect.
LEMMA PhaseMoves ==
  ASSUME NEW e \in Effect, \A d \in Effect \ {e} : effect'[d] = effect[d]
  PROVE  PhaseOf' = [PhaseOf EXCEPT ![e] =
           IF effect'[e].state \in BeforeAttempt THEN "ready" ELSE effect'[e].state]
  BY DEF PhaseOf

\* A step that keeps every effect in its phase.
LEMMA PhaseStays ==
  ASSUME \A e \in Effect : \/ effect'[e].state = effect[e].state
                           \/ effect'[e].state \in BeforeAttempt /\ effect[e].state \in BeforeAttempt
  PROVE  PhaseOf' = PhaseOf
  BY DEF PhaseOf

\* Only workers that may call are seen.
LEMMA ArmedStays ==
  ASSUME \A w \in Worker : \/ worker'[w] = worker[w]
                           \/ worker'[w].pc # "calling" /\ worker[w].pc # "calling"
  PROVE  ArmedOf' = ArmedOf
  BY DEF ArmedOf

\* A worker that stops calling disarms its effect, whose one live worker it was.
LEMMA Disarms ==
  ASSUME EffectsInv, NEW w \in Worker, worker[w].pc = "calling",
         worker'[w].pc # "calling", \A v \in Worker \ {w} : worker'[v] = worker[v]
  PROVE  /\ worker[w].effect \in ArmedOf
         /\ ArmedOf' = ArmedOf \ {worker[w].effect}
<1>1. worker[w].effect \in Effect
  BY DEF EffectsInv, WorkersKnow, Knows
<1>2. \A v \in Worker \ {w} : worker[v].pc = "calling" => worker[v].effect # worker[w].effect
  BY DEF EffectsInv, OneLive, Live
<1>3. QED
  BY <1>1, <1>2 DEF ArmedOf

\* Steps the promise does not speak of.
LEMMA SeenSame ==
  ASSUME PhaseOf' = PhaseOf, ArmedOf' = ArmedOf, UNCHANGED executed
  PROVE  [Promise!Next]_(Promise!pvars)
  BY DEF Promise!pvars

\* The owner's and the operators' commands, and the passing of time.
LEMMA CommandsImplement ==
  ASSUME EffectsInv, NEW e \in Effect,
         \/ Accept(e) \/ Expire(e)
         \/ \E key \in Key : Queue(e, key) \/ Retry(e, key) \/ Cancel(e, key) \/ Reconcile(e, key)
  PROVE  [Promise!Next]_(Promise!pvars)
<1>1. effect \in [Effect -> EffectRow] /\ effect[e] \in EffectRow
  BY DEF EffectsInv, TypeOK
<1>2. UNCHANGED <<worker, executed>> /\ \A d \in Effect \ {e} : effect'[d] = effect[d]
  BY <1>1 DEF Accept, Expire, Queue, Retry, Cancel, Reconcile
<1>3. ArmedOf' = ArmedOf
  BY <1>2, ArmedStays
<1>4. CASE Accept(e) \/ Expire(e) \/ \E key \in Key : Queue(e, key)
  <2>1. \/ effect'[e].state = effect[e].state
        \/ effect'[e].state \in BeforeAttempt /\ effect[e].state \in BeforeAttempt
    <3>1. CASE Accept(e)
      BY <1>1, <3>1 DEF Accept, EffectRow, BeforeAttempt
    <3>2. CASE Expire(e)
      BY <1>1, <3>2 DEF Expire, EffectRow
    <3>3. CASE \E key \in Key : Queue(e, key)
      BY <1>1, <3>3 DEF Queue, Requeued, EffectRow, BeforeAttempt
    <3>4. QED
      BY <1>4, <3>1, <3>2, <3>3
  <2>2. PhaseOf' = PhaseOf
    BY <1>2, <2>1, PhaseStays
  <2>3. QED
    BY <1>2, <1>3, <2>2, SeenSame
<1>5. CASE \E key \in Key : Retry(e, key)
  <2>1. effect[e].state = "retryable_failed" /\ effect'[e].state = "queued"
    BY <1>1, <1>5 DEF Retry, Requeued, EffectRow
  <2>2. PhaseOf[e] = "retryable_failed" /\ PhaseOf' = [PhaseOf EXCEPT ![e] = "ready"]
    BY <1>2, <2>1, PhaseMoves DEF PhaseOf, BeforeAttempt
  <2>3. Promise!Retry(e)
    BY <1>2, <1>3, <2>2 DEF Promise!Retry
  <2>4. QED
    BY <2>3 DEF Promise!Next
<1>6. CASE \E key \in Key : Cancel(e, key)
  <2>1. effect[e].state \in {"accepted", "queued"} /\ effect'[e].state = "cancelled"
    BY <1>1, <1>6 DEF Cancel, EffectRow
  <2>2. PhaseOf[e] = "ready" /\ PhaseOf' = [PhaseOf EXCEPT ![e] = "cancelled"]
    BY <1>2, <2>1, PhaseMoves DEF PhaseOf, BeforeAttempt
  <2>3. Promise!Cancel(e)
    BY <1>2, <1>3, <2>2 DEF Promise!Cancel
  <2>4. QED
    BY <2>3 DEF Promise!Next
<1>7. CASE \E key \in Key : Reconcile(e, key)
  <2>1. effect[e].state = "outcome_unknown" /\ effect'[e].state = "reconciled"
    BY <1>1, <1>7 DEF Reconcile, EffectRow
  <2>2. PhaseOf[e] = "outcome_unknown" /\ PhaseOf' = [PhaseOf EXCEPT ![e] = "reconciled"]
    BY <1>2, <2>1, PhaseMoves DEF PhaseOf, BeforeAttempt
  <2>3. Promise!Reconcile(e)
    BY <1>2, <1>3, <2>2 DEF Promise!Reconcile
  <2>4. QED
    BY <2>3 DEF Promise!Next
<1>8. QED
  BY <1>4, <1>5, <1>6, <1>7

\* A worker opens an attempt: its effect had no call to come.
LEMMA PersistImplements ==
  ASSUME EffectsInv, NEW w \in Worker, PersistAttempt(w)
  PROVE  Promise!Next
<1> DEFINE e == worker[w].effect
           n == effect[e].count + 1
<1>1. /\ e \in Effect /\ effect[e].state = "queued" /\ worker[w].pc = "claimed"
      /\ effect' = [effect EXCEPT ![e].state = "attempted", ![e].count = n]
      /\ worker' = [worker EXCEPT ![w].pc = "calling", ![w].number = n]
      /\ UNCHANGED executed
  BY DEF EffectsInv, WorkersKnow, Knows, PersistAttempt, MayPersist
<1>2. /\ effect \in [Effect -> EffectRow] /\ effect[e] \in EffectRow
      /\ worker \in [Worker -> WorkerRow] /\ worker[w] \in WorkerRow
  BY <1>1 DEF EffectsInv, TypeOK
<1>3. \A v \in Worker : worker[v].pc = "calling" => worker[v].effect # e
  BY <1>1 DEF EffectsInv, LiveLast, Live, Uncertain
<1> HIDE DEF e, n
<1>4. (\A d \in Effect \ {e} : effect'[d] = effect[d]) /\ effect'[e].state = "attempted"
  BY <1>1, <1>2 DEF EffectRow
<1>5. PhaseOf[e] = "ready" /\ PhaseOf' = [PhaseOf EXCEPT ![e] = "attempted"]
  BY <1>1, <1>4, PhaseMoves DEF PhaseOf, BeforeAttempt
<1>6. e \notin ArmedOf
  BY <1>3 DEF ArmedOf
<1>7. /\ \A v \in Worker \ {w} : worker'[v] = worker[v]
      /\ worker'[w].pc = "calling" /\ worker'[w].effect = e
  BY <1>1, <1>2 DEF WorkerRow, e
<1>8. ArmedOf' = ArmedOf \union {e}
  <2>1. \A v \in Worker : worker'[v].pc = "calling"
          <=> v = w \/ worker[v].pc = "calling"
    BY <1>7
  <2>2. \A v \in Worker : worker[v].pc = "calling" => v # w /\ worker'[v] = worker[v]
    BY <1>1, <1>7
  <2>3. \A d \in Effect : d \in ArmedOf' <=> d \in ArmedOf \/ d = e
    BY <1>7, <2>1, <2>2 DEF ArmedOf
  <2>4. ArmedOf \subseteq Effect /\ ArmedOf' \subseteq Effect
    BY DEF ArmedOf
  <2>5. QED
    BY <1>1, <2>3, <2>4
<1>9. Promise!Begin(e)
  BY <1>1, <1>5, <1>6, <1>8 DEF Promise!Begin
<1>10. QED
  BY <1>1, <1>9 DEF Promise!Next

\* The adapter returns, however late.
LEMMA ExecuteImplements ==
  ASSUME EffectsInv, NEW w \in Worker, Execute(w)
  PROVE  Promise!Next
<1> DEFINE e == worker[w].effect
           n == worker[w].number
<1>1. worker[w].pc = "calling" /\ e \in Effect /\ UNCHANGED effect
  BY DEF EffectsInv, WorkersKnow, Knows, Execute
<1>2. worker \in [Worker -> WorkerRow] /\ executed \in [Effect -> Nat]
  BY DEF EffectsInv, TypeOK
<1>3. PICK a \in Answers(e, n) \union {Lost(e, n)} : \E x \in Executions(a.answer) :
        /\ worker' = [worker EXCEPT ![w].answer = a.answer, ![w].digest = a.digest,
             ![w].pc = IF Records /\ a # Lost(e, n) THEN "answered" ELSE "returned"]
        /\ executed' = [executed EXCEPT ![e] = @ + x]
  BY DEF Execute
<1>4. PICK x \in Executions(a.answer) : executed' = [executed EXCEPT ![e] = @ + x]
  BY <1>3
<1>5. x \in {0, 1}
  BY DEF Executions
<1> HIDE DEF e, n
<1>6. executed' \in {executed, [executed EXCEPT ![e] = @ + 1]}
  <2>1. executed[e] + 0 = executed[e]
    BY <1>1, <1>2
  <2>2. CASE x = 0
    BY <1>2, <1>4, <2>1, <2>2
  <2>3. CASE x = 1
    BY <1>4, <2>3
  <2>4. QED
    BY <1>5, <2>2, <2>3
<1>7. worker'[w].pc # "calling" /\ \A v \in Worker \ {w} : worker'[v] = worker[v]
  BY <1>2, <1>3 DEF WorkerRow
<1>8. e \in ArmedOf /\ ArmedOf' = ArmedOf \ {e}
  BY <1>1, <1>7, Disarms DEF e
<1>9. PhaseOf' = PhaseOf
  BY <1>1, PhaseStays
<1>10. Promise!Call(e)
  BY <1>6, <1>8, <1>9 DEF Promise!Call
<1>11. QED
  BY <1>1, <1>10 DEF Promise!Next

\* What is written of an attempt is true, and only an unknown outcome is written
\* while another worker may still call.
LEMMA WriterImplements ==
  ASSUME TruthInv, NEW w \in Worker,
         CompleteAttempt(w) \/ CompleteRecorded(w) \/ Recover(w)
  PROVE  Promise!Next
<1> DEFINE e == worker[w].effect
           a == worker[w].answer
<1>1. /\ worker[w].pc \in {"returned", "recovering"} /\ e \in Effect
      /\ effect[e].state = "attempted" /\ a \in Completion
      /\ effect' = [effect EXCEPT ![e].state = a, ![e].lease = "none"]
      /\ worker' = [worker EXCEPT ![w] = Idle]
      /\ UNCHANGED <<recorded, executed>>
  BY Writes DEF TruthInv
<1>2. /\ effect \in [Effect -> EffectRow] /\ effect[e] \in EffectRow
      /\ worker \in [Worker -> WorkerRow] /\ executed[e] \in {0, 1}
  BY <1>1 DEF TruthInv, EffectsInv, TypeOK, ExecutedShown
<1>3. a = "executed" => executed[e] = 1
  BY <1>1 DEF TruthInv, Successful
<1>4. worker[w].pc = "returned" =>
        \A v \in Worker : worker[v].pc = "calling" => worker[v].effect # e
  BY DEF TruthInv, EffectsInv, OneLive, Live
<1>5. worker[w].pc = "recovering" => a \in {"executed", "outcome_unknown"}
  BY DEF TruthInv, EffectsInv, WorkersKnow, Knows
<1>6. a \in {"retryable_failed", "final_failed"} => worker[w].pc = "returned" /\ executed[e] = 0
  BY <1>1, <1>5 DEF TruthInv, EffectsInv, ExecutedShown, Live
<1>7. executed[e] = 1 => \A v \in Worker : worker[v].pc = "calling" => worker[v].effect # e
  BY DEF TruthInv, EffectsInv, ExecutedShown
<1> HIDE DEF e, a
<1>8. (\A d \in Effect \ {e} : effect'[d] = effect[d]) /\ effect'[e].state = a
  <2>1. effect'[e] = [effect[e] EXCEPT !.state = a, !.lease = "none"]
    BY <1>1, <1>2
  <2>2. effect'[e].state = a
    BY <1>2, <2>1 DEF EffectRow
  <2>3. QED
    BY <1>1, <1>2, <2>2
<1>9. PhaseOf[e] = "attempted" /\ PhaseOf' = [PhaseOf EXCEPT ![e] = a]
  BY <1>1, <1>8, PhaseMoves DEF PhaseOf, BeforeAttempt, Completion
<1>10. ArmedOf' = ArmedOf
  <2>1. \A v \in Worker : \/ worker'[v] = worker[v]
                          \/ worker'[v].pc # "calling" /\ worker[v].pc # "calling"
    BY <1>1, <1>2 DEF Idle
  <2>2. QED
    BY <2>1, ArmedStays
<1>11. CASE a = "outcome_unknown"
  <2>1. Promise!SettleUnknown(e)
    BY <1>1, <1>9, <1>10, <1>11 DEF Promise!SettleUnknown
  <2>2. QED
    BY <1>1, <2>1 DEF Promise!Next
<1>12. CASE a # "outcome_unknown"
  <2>1. a \in Promise!Refusals \union {"executed"}
    BY <1>1, <1>12 DEF Completion, Promise!Refusals
  <2>2. e \notin ArmedOf
    BY <1>3, <1>4, <1>6, <1>7, <2>1 DEF ArmedOf, Promise!Refusals
  <2>3. \/ a = "executed" /\ executed[e] = 1
        \/ a \in Promise!Refusals /\ executed[e] = 0
    BY <1>3, <1>6, <2>1 DEF Promise!Refusals
  <2>4. Promise!SettleKnown(e, a)
    BY <1>1, <1>9, <1>10, <2>2, <2>3 DEF Promise!SettleKnown
  <2>5. QED
    BY <1>1, <2>1, <2>4 DEF Promise!Next
<1>13. QED
  BY <1>11, <1>12

\* A worker that gives up before its call disarms the effect; claims, records
\* and rejections are not seen.
LEMMA ReleaseImplements ==
  ASSUME EffectsInv, NEW w \in Worker,
         \/ PersistRejected(w) \/ RecordAnswer(w) \/ RecordFails(w)
         \/ CompleteRejected(w) \/ RecoveryRejected(w) \/ Abandon(w)
         \/ \E e \in Effect : LoadRecovery(w, e)
  PROVE  [Promise!Next]_(Promise!pvars)
<1>1. worker \in [Worker -> WorkerRow] /\ worker[w] \in WorkerRow
  BY DEF EffectsInv, TypeOK
<1>2. UNCHANGED <<effect, executed>> /\ \A v \in Worker \ {w} : worker'[v] = worker[v]
  BY <1>1 DEF PersistRejected, RecordAnswer, RecordFails, CompleteRejected,
              RecoveryRejected, Abandon, LoadRecovery
<1>3. worker'[w].pc # "calling"
  <2>1. CASE RecordAnswer(w) \/ RecordFails(w)
    BY <1>1, <2>1 DEF RecordAnswer, RecordFails, WorkerRow
  <2>2. CASE \E e \in Effect : LoadRecovery(w, e)
    BY <1>1, <2>2 DEF LoadRecovery
  <2>3. CASE PersistRejected(w) \/ CompleteRejected(w) \/ RecoveryRejected(w) \/ Abandon(w)
    BY <1>1, <2>3 DEF PersistRejected, CompleteRejected, RecoveryRejected, Abandon, Idle
  <2>4. QED
    BY <2>1, <2>2, <2>3
<1>4. PhaseOf' = PhaseOf
  BY <1>2, PhaseStays
<1>5. CASE worker[w].pc = "calling"
  <2>1. /\ worker[w].effect \in Effect
        /\ worker[w].effect \in ArmedOf
        /\ ArmedOf' = ArmedOf \ {worker[w].effect}
    BY <1>2, <1>3, <1>5, Disarms DEF ArmedOf
  <2>2. Promise!Disarm(worker[w].effect)
    BY <1>2, <1>4, <2>1 DEF Promise!Disarm
  <2>3. QED
    BY <2>1, <2>2 DEF Promise!Next
<1>6. CASE worker[w].pc # "calling"
  <2>1. ArmedOf' = ArmedOf
    BY <1>2, <1>3, <1>6, ArmedStays
  <2>2. QED
    BY <1>2, <1>4, <2>1, SeenSame
<1>7. QED
  BY <1>5, <1>6

\* A claim changes fence and lease only.
LEMMA ClaimImplements ==
  ASSUME EffectsInv, NEW w \in Worker, NEW e \in Effect, Claim(w, e)
  PROVE  [Promise!Next]_(Promise!pvars)
<1>1. /\ effect \in [Effect -> EffectRow] /\ effect[e] \in EffectRow
      /\ worker \in [Worker -> WorkerRow] /\ UNCHANGED executed
  BY DEF EffectsInv, TypeOK, Claim
<1>2. \A d \in Effect : effect'[d].state = effect[d].state
  BY <1>1 DEF Claim, EffectRow
<1>3. \A v \in Worker : \/ worker'[v] = worker[v]
                        \/ worker'[v].pc # "calling" /\ worker[v].pc # "calling"
  BY <1>1 DEF Claim, Idle
<1>4. QED
  BY <1>1, <1>2, <1>3, PhaseStays, ArmedStays, SeenSame

\* Every step of the runtime is one of the promise's or leaves what it speaks of.
LEMMA StepPromised == TruthInv /\ [Next]_vars => [Promise!Next]_(Promise!pvars)
<1> SUFFICES ASSUME TruthInv, [Next]_vars
             PROVE  [Promise!Next]_(Promise!pvars)
  OBVIOUS
<1>1. EffectsInv
  BY DEF TruthInv
<1>2. CASE \E e \in Effect :
             \/ Accept(e) \/ Expire(e)
             \/ \E key \in Key :
                  Queue(e, key) \/ Retry(e, key) \/ Cancel(e, key) \/ Reconcile(e, key)
  BY <1>1, <1>2, CommandsImplement
<1>3. CASE \E w \in Worker, e \in Effect : Claim(w, e)
  BY <1>1, <1>3, ClaimImplements
<1>4. CASE \E w \in Worker : \/ PersistRejected(w) \/ RecordAnswer(w) \/ RecordFails(w)
                             \/ CompleteRejected(w) \/ RecoveryRejected(w) \/ Abandon(w)
                             \/ \E e \in Effect : LoadRecovery(w, e)
  BY <1>1, <1>4, ReleaseImplements
<1>5. CASE \E w \in Worker : PersistAttempt(w) \/ Execute(w)
  BY <1>1, <1>5, PersistImplements, ExecuteImplements
<1>6. CASE \E w \in Worker : CompleteAttempt(w) \/ CompleteRecorded(w) \/ Recover(w)
  BY <1>6, WriterImplements
<1>7. CASE UNCHANGED vars
  <2>1. PhaseOf' = PhaseOf /\ ArmedOf' = ArmedOf /\ UNCHANGED executed
    BY <1>7 DEF vars, PhaseOf, ArmedOf
  <2>2. QED
    BY <2>1, SeenSame
<1>8. QED
  BY <1>2, <1>3, <1>4, <1>5, <1>6, <1>7 DEF Next, WorkerStep

\* The runtime keeps what it promises the owner of an effect: claims, fences and
\* recoveries show as attempts that arm one call each and end truthfully.
THEOREM EffectsKeepPromise == Spec => ImplementsPromise
  BY PromiseInit, StepPromised, TruthInvariant, PTL DEF Spec, ImplementsPromise, Promise!Spec
=============================================================================
