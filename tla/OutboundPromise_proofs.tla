----------------------- MODULE OutboundPromise_proofs -----------------------
(***************************************************************************)
(* The promise keeps its point: whatever is dispatched, answered, given up *)
(* and retried, no message is delivered twice.                             *)
(***************************************************************************)
EXTENDS OutboundPromise, TLAPS

\* The initial states satisfy the inductive invariant.
LEMMA PromiseInit == Init => PromiseInv
  BY DEF Init, PromiseInv, TypeOK, Phases, Answers

\* Every step keeps the inductive invariant, so that nothing the abstract
\* sender does can dispatch a task that may have been delivered.
LEMMA PromiseStep == PromiseInv /\ [Next]_pvars => PromiseInv'
<1> SUFFICES ASSUME PromiseInv, [Next]_pvars
             PROVE  PromiseInv'
  OBVIOUS
<1> USE DEF PromiseInv, TypeOK, Phases, Answers
<1>1. ASSUME NEW t \in Task, Accept(t)
      PROVE  PromiseInv'
  BY <1>1 DEF Accept
<1>2. ASSUME NEW t \in Task, Dispatch(t)
      PROVE  PromiseInv'
  BY <1>2 DEF Dispatch
<1>3. ASSUME NEW t \in Task, Call(t)
      PROVE  PromiseInv'
  <2>1. PICK a \in Answers, d \in {0, 1} :
          /\ a = "succeeded" => d = 1
          /\ a \in {"retryable_failed", "final_failed"} => d = 0
          /\ heard' = [heard EXCEPT ![t] = a]
          /\ delivered' = [delivered EXCEPT ![t] = @ + d]
    BY <1>3 DEF Call
  <2>2. /\ armed[t]
        /\ armed' = [armed EXCEPT ![t] = FALSE]
        /\ phase' = phase
    BY <1>3 DEF Call
  <2>3. delivered[t] = 0 /\ phase[t] \in {"sending", "outcome_unknown"}
    BY <2>2
  <2>4. TypeOK'
    BY <2>1, <2>2
  <2>5. QED
    BY <2>1, <2>2, <2>3, <2>4
<1>4. ASSUME NEW t \in Task, Forget(t)
      PROVE  PromiseInv'
  BY <1>4 DEF Forget
<1>5. ASSUME NEW t \in Task, Store(t)
      PROVE  PromiseInv'
  BY <1>5 DEF Store, Shown
<1>6. ASSUME NEW t \in Task, GiveUp(t)
      PROVE  PromiseInv'
  BY <1>6 DEF GiveUp
<1>7. ASSUME NEW t \in Task, Cancel(t)
      PROVE  PromiseInv'
  BY <1>7 DEF Cancel
<1>8. ASSUME NEW t \in Task, ManualRetry(t)
      PROVE  PromiseInv'
  BY <1>8 DEF ManualRetry
<1>9. CASE UNCHANGED pvars
  BY <1>9 DEF pvars
<1>10. QED
  BY <1>1, <1>2, <1>3, <1>4, <1>5, <1>6, <1>7, <1>8, <1>9 DEF Next

\* The inductive invariant holds throughout every behaviour of the promise.
THEOREM PromiseInvariant == Spec => []PromiseInv
  BY PromiseInit, PromiseStep, PTL DEF Spec

\* No message is delivered twice in any behaviour the promise allows, for any
\* set of tasks; the sender's runs show that it implements the promise.
THEOREM PromisedOnce == Spec => []AtMostOneDelivery
<1>1. PromiseInv => AtMostOneDelivery
  BY DEF PromiseInv, AtMostOneDelivery
<1>2. QED
  BY <1>1, PromiseInvariant, PTL
=============================================================================
