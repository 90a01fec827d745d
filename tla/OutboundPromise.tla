--------------------------- MODULE OutboundPromise ---------------------------
(***************************************************************************)
(* What outbound promises of one task, with no job, transaction or worker  *)
(* in it: each dispatch of a task arms at most one provider call; an       *)
(* answer settles the dispatch it belongs to; a dispatch whose answer is   *)
(* missing may only be settled as outcome_unknown, which ends the task;    *)
(* only a clear refusal leads to another call, by River's retry            *)
(* (retryable_failed) or an operator's (final_failed, cancelled).          *)
(***************************************************************************)
EXTENDS Naturals

CONSTANT Task

VARIABLES
  phase,      \* the task's status
  armed,      \* a provider call of the current dispatch is still to come
  heard,      \* an answer of the provider that is not stored yet
  delivered   \* messages the provider delivered

pvars == <<phase, armed, heard, delivered>>

Phases == {"absent", "pending", "sending", "sent", "retryable_failed",
           "final_failed", "outcome_unknown", "cancelled"}

Answers == {"succeeded", "retryable_failed", "final_failed", "outcome_unknown"}

TypeOK ==
  /\ phase \in [Task -> Phases]
  /\ armed \in [Task -> BOOLEAN]
  /\ heard \in [Task -> Answers \union {"none"}]
  /\ delivered \in [Task -> Nat]

Shown(a) == IF a = "succeeded" THEN "sent" ELSE a

Init ==
  /\ phase = [t \in Task |-> "absent"]
  /\ armed = [t \in Task |-> FALSE]
  /\ heard = [t \in Task |-> "none"]
  /\ delivered = [t \in Task |-> 0]

Accept(t) ==
  /\ phase[t] = "absent"
  /\ phase' = [phase EXCEPT ![t] = "pending"]
  /\ UNCHANGED <<armed, heard, delivered>>

Dispatch(t) ==
  /\ phase[t] \in {"pending", "retryable_failed"}
  /\ phase' = [phase EXCEPT ![t] = "sending"]
  /\ armed' = [armed EXCEPT ![t] = TRUE]
  /\ UNCHANGED <<heard, delivered>>

\* A clear success delivers once, a clear refusal never, an unknown outcome
\* perhaps.
Call(t) ==
  /\ armed[t]
  /\ armed' = [armed EXCEPT ![t] = FALSE]
  /\ \E a \in Answers, d \in {0, 1} :
       /\ a = "succeeded" => d = 1
       /\ a \in {"retryable_failed", "final_failed"} => d = 0
       /\ heard' = [heard EXCEPT ![t] = a]
       /\ delivered' = [delivered EXCEPT ![t] = @ + d]
  /\ UNCHANGED phase

\* The process that was to call, or had heard, died or gave up.
Forget(t) ==
  /\ armed' = [armed EXCEPT ![t] = FALSE]
  /\ heard' = [heard EXCEPT ![t] = "none"]
  /\ UNCHANGED <<phase, delivered>>

\* An answer that was heard is stored, and is then no longer in flight.
Store(t) ==
  /\ phase[t] = "sending"
  /\ heard[t] # "none"
  /\ phase' = [phase EXCEPT ![t] = Shown(heard[t])]
  /\ heard' = [heard EXCEPT ![t] = "none"]
  /\ UNCHANGED <<armed, delivered>>

\* The dispatch was found interrupted; its caller may still be alive.
GiveUp(t) ==
  /\ phase[t] = "sending"
  /\ phase' = [phase EXCEPT ![t] = "outcome_unknown"]
  /\ UNCHANGED <<armed, heard, delivered>>

Cancel(t) ==
  /\ phase[t] = "pending"
  /\ phase' = [phase EXCEPT ![t] = "cancelled"]
  /\ UNCHANGED <<armed, heard, delivered>>

ManualRetry(t) ==
  /\ phase[t] \in {"final_failed", "cancelled"}
  /\ phase' = [phase EXCEPT ![t] = "pending"]
  /\ UNCHANGED <<armed, heard, delivered>>

Next ==
  \E t \in Task :
    \/ Accept(t) \/ Dispatch(t) \/ Call(t) \/ Forget(t) \/ Store(t)
    \/ GiveUp(t) \/ Cancel(t) \/ ManualRetry(t)

Spec == Init /\ [][Next]_pvars

-----------------------------------------------------------------------------
\* No message is delivered twice, whatever is retried and by whom.
AtMostOneDelivery == \A t \in Task : delivered[t] <= 1

\* The strengthening that makes it inductive: a call can only be under way in
\* a dispatch that has delivered nothing, and once something may have been
\* delivered the task cannot be dispatched again.
PromiseInv ==
  /\ TypeOK
  /\ \A t \in Task :
       /\ armed[t] => /\ phase[t] \in {"sending", "outcome_unknown"}
                      /\ heard[t] = "none"
                      /\ delivered[t] = 0
       /\ heard[t] # "none" => phase[t] \in {"sending", "outcome_unknown"}
       /\ heard[t] \in {"retryable_failed", "final_failed"} => delivered[t] = 0
       /\ delivered[t] <= 1
       /\ delivered[t] = 1 => phase[t] \in {"sending", "sent", "outcome_unknown"}
=============================================================================
