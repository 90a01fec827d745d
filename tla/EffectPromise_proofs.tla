------------------------ MODULE EffectPromise_proofs ------------------------
(***************************************************************************)
(* What the promise of the effects runtime is worth to an owner, whoever   *)
(* keeps it: no effect is executed twice, and what its phase says of the   *)
(* provider is true.                                                       *)
(***************************************************************************)
EXTENDS EffectPromise, TLAPS

Phases == {"ready", "attempted", "executed", "outcome_unknown", "cancelled", "reconciled"}
            \union Refusals

TypeOK ==
  /\ phase \in [Effect -> Phases]
  /\ armed \subseteq Effect
  /\ executed \in [Effect -> Nat]

\* While a call is to come nothing has been executed, and the effect is attempted
\* or was given up on meanwhile.
ArmedFirst ==
  \A e \in armed :
    /\ executed[e] = 0
    /\ phase[e] \in {"attempted", "outcome_unknown", "reconciled"}

\* The phases that say what became of the effect are right.
PhaseTrue ==
  \A e \in Effect :
    /\ phase[e] = "executed" => executed[e] = 1
    /\ phase[e] \in {"ready", "cancelled"} \union Refusals => executed[e] = 0

AtMostOnce == \A e \in Effect : executed[e] <= 1

PromiseInv == TypeOK /\ ArmedFirst /\ PhaseTrue /\ AtMostOnce

-----------------------------------------------------------------------------
LEMMA PromiseInit == Init => PromiseInv
  BY DEF Init, PromiseInv, TypeOK, ArmedFirst, PhaseTrue, AtMostOnce, Phases

\* A call is the only step that executes, and what is armed was not executed.
LEMMA CallKeeps ==
  ASSUME PromiseInv, NEW e \in Effect, Call(e)
  PROVE  PromiseInv'
<1>1. /\ phase \in [Effect -> Phases] /\ armed \subseteq Effect
      /\ executed \in [Effect -> Nat]
      /\ executed[e] = 0 /\ phase[e] \in {"attempted", "outcome_unknown", "reconciled"}
  BY DEF PromiseInv, TypeOK, ArmedFirst, Call
<1>2. phase' = phase /\ armed' = armed \ {e}
  BY DEF Call
<1>3. PICK n \in {0, 1} : executed' = [executed EXCEPT ![e] = n]
  BY <1>1 DEF Call
<1>4. TypeOK'
  BY <1>1, <1>2, <1>3 DEF TypeOK
<1>5. ArmedFirst'
  BY <1>1, <1>2, <1>3 DEF PromiseInv, ArmedFirst
<1>6. PhaseTrue'
  BY <1>1, <1>2, <1>3 DEF PromiseInv, PhaseTrue, Refusals
<1>7. AtMostOnce'
  BY <1>1, <1>3 DEF PromiseInv, AtMostOnce
<1>8. QED
  BY <1>4, <1>5, <1>6, <1>7 DEF PromiseInv

\* A step that calls nobody and moves one effect to a phase that is true of it.
LEMMA PhaseKeeps ==
  ASSUME PromiseInv, NEW e \in Effect, NEW p \in Phases,
         phase' = [phase EXCEPT ![e] = p], UNCHANGED executed,
         armed' \subseteq armed \union {e},
         e \in armed' => /\ executed[e] = 0
                         /\ p \in {"attempted", "outcome_unknown", "reconciled"},
         p = "executed" => executed[e] = 1,
         p \in {"ready", "cancelled"} \union Refusals => executed[e] = 0
  PROVE  PromiseInv'
<1>1. phase \in [Effect -> Phases] /\ armed \subseteq Effect /\ executed \in [Effect -> Nat]
  BY DEF PromiseInv, TypeOK
<1>2. TypeOK'
  BY <1>1 DEF TypeOK
<1>3. ArmedFirst'
  BY <1>1 DEF PromiseInv, ArmedFirst
<1>4. PhaseTrue'
  BY <1>1 DEF PromiseInv, PhaseTrue
<1>5. AtMostOnce'
  BY DEF PromiseInv, AtMostOnce
<1>6. QED
  BY <1>2, <1>3, <1>4, <1>5 DEF PromiseInv

LEMMA PromiseStep == PromiseInv /\ [Next]_pvars => PromiseInv'
<1> SUFFICES ASSUME PromiseInv, [Next]_pvars
             PROVE  PromiseInv'
  OBVIOUS
<1>1. /\ phase \in [Effect -> Phases] /\ armed \subseteq Effect
      /\ executed \in [Effect -> Nat]
      /\ \A e \in armed :
           executed[e] = 0 /\ phase[e] \in {"attempted", "outcome_unknown", "reconciled"}
      /\ \A e \in Effect :
           phase[e] \in {"ready", "cancelled"} \union Refusals => executed[e] = 0
  BY DEF PromiseInv, TypeOK, ArmedFirst, PhaseTrue
<1>2. ASSUME NEW e \in Effect, Begin(e)
      PROVE  PromiseInv'
  BY <1>1, <1>2, PhaseKeeps DEF Begin, Phases, Refusals
<1>3. ASSUME NEW e \in Effect, Disarm(e)
      PROVE  PromiseInv'
  BY <1>1, <1>3 DEF Disarm, PromiseInv, TypeOK, ArmedFirst, PhaseTrue, AtMostOnce
<1>4. ASSUME NEW e \in Effect, SettleUnknown(e)
      PROVE  PromiseInv'
  BY <1>1, <1>4, PhaseKeeps DEF SettleUnknown, Phases, Refusals
<1>5. ASSUME NEW e \in Effect, NEW outcome \in Refusals \union {"executed"},
             SettleKnown(e, outcome)
      PROVE  PromiseInv'
  BY <1>1, <1>5, PhaseKeeps DEF SettleKnown, Phases, Refusals
<1>6. ASSUME NEW e \in Effect, Retry(e)
      PROVE  PromiseInv'
  <2>1. e \notin armed /\ executed[e] = 0
    BY <1>1, <1>6 DEF Retry, Refusals
  <2>2. QED
    BY <1>1, <1>6, <2>1, PhaseKeeps DEF Retry, Phases, Refusals
<1>7. ASSUME NEW e \in Effect, Cancel(e)
      PROVE  PromiseInv'
  <2>1. e \notin armed /\ executed[e] = 0
    BY <1>1, <1>7 DEF Cancel
  <2>2. QED
    BY <1>1, <1>7, <2>1, PhaseKeeps DEF Cancel, Phases, Refusals
<1>8. ASSUME NEW e \in Effect, Reconcile(e)
      PROVE  PromiseInv'
  BY <1>1, <1>8, PhaseKeeps DEF Reconcile, Phases, Refusals
<1>9. CASE UNCHANGED pvars
  BY <1>9 DEF pvars, PromiseInv, TypeOK, ArmedFirst, PhaseTrue, AtMostOnce
<1>10. QED
  BY <1>2, <1>3, <1>4, <1>5, <1>6, <1>7, <1>8, <1>9, CallKeeps DEF Next

\* The inductive invariant holds throughout every behaviour of the promise.
THEOREM PromiseInvariant == Spec => []PromiseInv
  BY PromiseInit, PromiseStep, PTL DEF Spec

\* Whoever keeps the promise executes no effect twice, and shows as executed,
\* refused or cancelled only what is: for ExternalEffects, the profile writes and
\* order settlement alike, without a look at their rows.
THEOREM PromisedTruth == Spec => [](AtMostOnce /\ PhaseTrue)
<1>1. PromiseInv => AtMostOnce /\ PhaseTrue
  BY DEF PromiseInv
<1>2. QED
  BY <1>1, PromiseInvariant, PTL
=============================================================================
