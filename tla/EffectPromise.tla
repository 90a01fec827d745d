---------------------------- MODULE EffectPromise ----------------------------
(***************************************************************************)
(* What the external effects runtime promises the owner of an effect, with *)
(* no generation, fence, lease, receipt, attempt row or worker in it: an   *)
(* attempt arms one provider call; what the attempt is settled as is true  *)
(* of the provider; only an unknown outcome may be written while the call  *)
(* is still to come; and only a clear refusal, of a call that is over,     *)
(* leads to another one.                                                   *)
(*                                                                         *)
(* ExternalEffects implements it, and so do the profile writes on top of   *)
(* it and the view that OrderSettlement has of it.                         *)
(***************************************************************************)
EXTENDS Naturals

CONSTANT Effect

VARIABLES
  phase,     \* the effect's state; what comes before an attempt is "ready"
  armed,     \* the effects with a provider call still to come
  executed   \* calls of each effect that the provider executed

pvars == <<phase, armed, executed>>

Refusals == {"retryable_failed", "final_failed"}

Init ==
  /\ phase = [e \in Effect |-> "ready"]
  /\ armed = {}
  /\ executed = [e \in Effect |-> 0]

Begin(e) ==
  /\ phase[e] = "ready"
  /\ e \notin armed
  /\ phase' = [phase EXCEPT ![e] = "attempted"]
  /\ armed' = armed \union {e}
  /\ UNCHANGED executed

\* However late it comes: the effect may be settled, as unknown, by then.
Call(e) ==
  /\ e \in armed
  /\ armed' = armed \ {e}
  /\ executed' \in {executed, [executed EXCEPT ![e] = @ + 1]}
  /\ UNCHANGED phase

\* Whoever was to call died first.
Disarm(e) ==
  /\ e \in armed
  /\ armed' = armed \ {e}
  /\ UNCHANGED <<phase, executed>>

\* A success is written of what the provider executed, a refusal of what it did
\* not, and neither before the call is over.
SettleKnown(e, outcome) ==
  /\ phase[e] = "attempted"
  /\ e \notin armed
  /\ \/ outcome = "executed" /\ executed[e] = 1
     \/ outcome \in Refusals /\ executed[e] = 0
  /\ phase' = [phase EXCEPT ![e] = outcome]
  /\ UNCHANGED <<armed, executed>>

SettleUnknown(e) ==
  /\ phase[e] = "attempted"
  /\ phase' = [phase EXCEPT ![e] = "outcome_unknown"]
  /\ UNCHANGED <<armed, executed>>

Retry(e) ==
  /\ phase[e] = "retryable_failed"
  /\ phase' = [phase EXCEPT ![e] = "ready"]
  /\ UNCHANGED <<armed, executed>>

Cancel(e) ==
  /\ phase[e] = "ready"
  /\ phase' = [phase EXCEPT ![e] = "cancelled"]
  /\ UNCHANGED <<armed, executed>>

\* An operator or a query decides what became of an unknown outcome.
Reconcile(e) ==
  /\ phase[e] = "outcome_unknown"
  /\ phase' = [phase EXCEPT ![e] = "reconciled"]
  /\ UNCHANGED <<armed, executed>>

Next ==
  \E e \in Effect :
    \/ Begin(e) \/ Call(e) \/ Disarm(e)
    \/ SettleUnknown(e)
    \/ \E outcome \in Refusals \union {"executed"} : SettleKnown(e, outcome)
    \/ Retry(e) \/ Cancel(e) \/ Reconcile(e)

Spec == Init /\ [][Next]_pvars
=============================================================================
