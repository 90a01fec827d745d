------------------------- MODULE EventDelivery_proofs -------------------------
(***************************************************************************)
(* The safety of event delivery for any events, consumers, workers, batch  *)
(* and attempt limits, from one inductive invariant.                       *)
(***************************************************************************)
EXTENDS EventDelivery, SequenceTheorems, TLAPS

-----------------------------------------------------------------------------
(* The inductive invariant, by parts.                                      *)

IdleRow == [pc |-> "idle"]

BusyRow == [pc : Phase \ {"idle"}, for : Target, job : Nat \ {0}, attempt : 1..MaxAttempts]

\* What TypeOK says of each worker, of the whole table.
WorkersTyped == worker \in [Worker -> {IdleRow} \union BusyRow]

\* A busy worker holds a running job, at the job's own attempt; only deliveries
\* are consumed under a claim.
Holds(w) ==
  worker[w].pc # "idle" =>
    /\ worker[w].job \in DOMAIN river[worker[w].for]
    /\ river[worker[w].for][worker[w].job].state = "running"
    /\ river[worker[w].for][worker[w].job].attempt = worker[w].attempt
    /\ worker[w].pc \in {"consuming", "failed", "poison", "unknown"}
         => worker[w].for \in Delivery

JobsHeld == \A w \in Worker : Holds(w)

\* A job is worked by one worker at a time.
OneWorker ==
  \A v, w \in Worker :
    /\ worker[v].pc # "idle" /\ worker[w].pc # "idle"
    /\ worker[v].for = worker[w].for /\ worker[v].job = worker[w].job
    => v = w

\* A job that River may fetch has an attempt left.
AttemptsLeft ==
  \A t \in Target : \A k \in DOMAIN river[t] :
    river[t][k].state \in {"available", "retryable"} => river[t][k].attempt < MaxAttempts

\* A settled delivery has neither owner nor lease.
SettledClosed ==
  \A d \in Delivery :
    delivery[d].status \in Terminal => delivery[d].owner = 0 /\ delivery[d].lease = "none"

DeliveryInv ==
  /\ TypeOK
  /\ WorkersTyped
  /\ JobsHeld
  /\ OneWorker
  /\ AttemptsLeft
  /\ SettledClosed
  /\ OneJobPerDelivery
  /\ UnboundHandedOnce
  /\ AppliedIffCompleted

-----------------------------------------------------------------------------
(* Initial states.                                                         *)

\* The initial states satisfy the inductive invariant.
LEMMA DeliveryInit == Init => DeliveryInv
<1> SUFFICES ASSUME Init
             PROVE  DeliveryInv
  OBVIOUS
<1> USE ConstantsAssumption DEF Init
<1>1. NoRow \in DeliveryRow /\ NoRow.status = "absent"
  BY DEF NoRow, DeliveryRow, DeliveryStatus
<1>2. <<>> \in Seq(RiverRow) /\ Len(<<>>) = 0
  BY EmptySeq
<1>3. TypeOK /\ WorkersTyped
  BY <1>1, <1>2 DEF TypeOK, WorkersTyped, IdleRow
<1>4. JobsHeld /\ OneWorker /\ AttemptsLeft
  <2>1. DOMAIN <<>> = {}
    BY <1>2
  <2>2. QED
    BY <2>1 DEF JobsHeld, Holds, OneWorker, AttemptsLeft
<1>5. SettledClosed /\ OneJobPerDelivery /\ UnboundHandedOnce /\ AppliedIffCompleted
  BY <1>1, <1>2 DEF SettledClosed, Terminal, NoRow, OneJobPerDelivery, UnboundHandedOnce,
                    AppliedIffCompleted, Target
<1>6. QED
  BY <1>3, <1>4, <1>5 DEF DeliveryInv

-----------------------------------------------------------------------------
(* Jobs and workers.                                                       *)

\* The job numbers of a target are 1 to the length of its list.
LEMMA JobNumbers ==
  ASSUME TypeOK, NEW t \in Target
  PROVE  /\ river[t] \in Seq(RiverRow)
         /\ Len(river[t]) \in Nat
         /\ DOMAIN river[t] = 1..Len(river[t])
         /\ \A k \in DOMAIN river[t] : river[t][k] \in RiverRow
<1>1. river[t] \in Seq(RiverRow)
  BY DEF TypeOK
<1>2. QED
  BY <1>1, LenProperties, ElementOfSeq

\* Writing a job's row changes no other job, and no list's length.
LEMMA JobWritten ==
  ASSUME TypeOK, NEW t \in Target, NEW k \in DOMAIN river[t], NEW r \in RiverRow,
         river' = [river EXCEPT ![t][k] = r]
  PROVE  /\ river' \in [Target -> Seq(RiverRow)]
         /\ \A s \in Target : /\ Len(river'[s]) = Len(river[s])
                              /\ DOMAIN river'[s] = DOMAIN river[s]
                              /\ s # t => river'[s] = river[s]
         /\ river'[t][k] = r
         /\ \A j \in DOMAIN river[t] : j # k => river'[t][j] = river[t][j]
<1>1. river \in [Target -> Seq(RiverRow)]
  BY DEF TypeOK
<1>2. river' = [river EXCEPT ![t] = [river[t] EXCEPT ![k] = r]]
  BY <1>1
<1>3. /\ [river[t] EXCEPT ![k] = r] \in Seq(RiverRow)
      /\ Len([river[t] EXCEPT ![k] = r]) = Len(river[t])
  BY JobNumbers, ExceptSeq
<1>4. QED
  BY <1>1, <1>2, <1>3

\* A worker's step through Work keeps its job.
LEMMA GotoKeeps ==
  ASSUME DeliveryInv, NEW w \in Worker, worker[w].pc # "idle",
         NEW pc \in Phase \ {"idle"}, Goto(w, pc), UNCHANGED river,
         pc \in {"consuming", "failed", "poison", "unknown"} => worker[w].for \in Delivery
  PROVE  WorkersTyped' /\ JobsHeld' /\ OneWorker' /\ AttemptsLeft'
<1>1. worker[w] \in BusyRow
  BY DEF DeliveryInv, WorkersTyped, IdleRow
<1>2. /\ \A v \in Worker : v # w => worker'[v] = worker[v]
      /\ worker'[w] = [worker[w] EXCEPT !.pc = pc]
      /\ worker' = [worker EXCEPT ![w] = [worker[w] EXCEPT !.pc = pc]]
  BY DEF DeliveryInv, WorkersTyped, Goto
<1>3. /\ [worker[w] EXCEPT !.pc = pc] \in BusyRow
      /\ worker'[w].pc = pc /\ worker'[w].for = worker[w].for
      /\ worker'[w].job = worker[w].job /\ worker'[w].attempt = worker[w].attempt
  BY <1>1, <1>2 DEF BusyRow
<1>4. WorkersTyped'
  BY <1>2, <1>3 DEF DeliveryInv, WorkersTyped
<1>5. JobsHeld'
  <2>1. Holds(w)'
    BY <1>3 DEF DeliveryInv, JobsHeld, Holds
  <2>2. \A v \in Worker : v # w => Holds(v)'
    BY <1>2 DEF DeliveryInv, JobsHeld, Holds
  <2>3. QED
    BY <2>1, <2>2 DEF JobsHeld
<1>6. OneWorker'
  BY <1>2, <1>3 DEF DeliveryInv, OneWorker
<1>7. AttemptsLeft'
  BY DEF DeliveryInv, AttemptsLeft
<1>8. QED
  BY <1>4, <1>5, <1>6, <1>7

\* A worker that is let go holds nothing.
LEMMA FreedKeeps ==
  ASSUME DeliveryInv, NEW w \in Worker, worker' = [worker EXCEPT ![w] = IdleRow]
  PROVE  /\ WorkersTyped' /\ OneWorker'
         /\ worker'[w].pc = "idle"
         /\ \A v \in Worker : v # w => worker'[v] = worker[v]
<1>1. /\ worker'[w].pc = "idle"
      /\ \A v \in Worker : v # w => worker'[v] = worker[v]
  BY DEF DeliveryInv, WorkersTyped, IdleRow
<1>2. WorkersTyped'
  BY DEF DeliveryInv, WorkersTyped
<1>3. OneWorker'
  BY <1>1 DEF DeliveryInv, OneWorker
<1>4. QED
  BY <1>1, <1>2, <1>3

\* The rest of the invariant follows the lengths of the lists only.
LEMMA JobsOnly ==
  ASSUME DeliveryInv, \A t \in Target : Len(river'[t]) = Len(river[t]),
         UNCHANGED <<event, delivery, applied>>
  PROVE  SettledClosed' /\ OneJobPerDelivery' /\ UnboundHandedOnce' /\ AppliedIffCompleted'
  BY DEF DeliveryInv, SettledClosed, OneJobPerDelivery, UnboundHandedOnce,
         AppliedIffCompleted, Target

-----------------------------------------------------------------------------
(* River.                                                                  *)

\* A worker fetches a job that no worker has.
LEMMA FetchKeeps ==
  ASSUME DeliveryInv, NEW w \in Worker, NEW t \in Target, NEW k \in DOMAIN river[t],
         Fetch(w, t, k)
  PROVE  DeliveryInv'
<1> DEFINE row == [river[t][k] EXCEPT !.state = "running", !.attempt = river[t][k].attempt + 1]
           busy == [pc |-> "fetched", for |-> t, job |-> k, attempt |-> river[t][k].attempt + 1]
<1>1. TypeOK
  BY DEF DeliveryInv
<1>2. river[t][k] \in RiverRow /\ k \in Nat \ {0}
  BY <1>1, JobNumbers
<1>3. river[t][k].attempt < MaxAttempts /\ river[t][k].state \in {"available", "retryable"}
  BY DEF DeliveryInv, AttemptsLeft, Fetch
<1>4. /\ river[t][k].attempt + 1 \in 0..MaxAttempts
      /\ river[t][k].attempt + 1 \in 1..MaxAttempts
  BY <1>2, <1>3, ConstantsAssumption DEF RiverRow
<1>5. row \in RiverRow /\ row.state = "running" /\ row.attempt = river[t][k].attempt + 1
  BY <1>2, <1>4 DEF RiverRow
<1>6. river' = [river EXCEPT ![t][k] = row]
  <2>1. river[t] \in Seq(RiverRow)
    BY <1>1, JobNumbers
  <2>2. QED
    BY <1>1, <1>2 DEF Fetch, TypeOK
<1>7. /\ worker' = [worker EXCEPT ![w] = busy] /\ busy \in BusyRow
      /\ UNCHANGED <<event, delivery, applied, dispatcher, faults>>
  BY <1>2, <1>4 DEF Fetch, BusyRow, Phase
<1> HIDE DEF row
<1>8. /\ river' \in [Target -> Seq(RiverRow)]
      /\ \A s \in Target : /\ Len(river'[s]) = Len(river[s])
                           /\ DOMAIN river'[s] = DOMAIN river[s]
                           /\ s # t => river'[s] = river[s]
      /\ river'[t][k] = row
      /\ \A j \in DOMAIN river[t] : j # k => river'[t][j] = river[t][j]
  BY <1>1, <1>5, <1>6, JobWritten
<1>9. WorkersTyped'
  BY <1>7 DEF DeliveryInv, WorkersTyped
<1>10. TypeOK'
  BY <1>1, <1>7, <1>8, <1>9 DEF TypeOK, WorkersTyped, IdleRow, BusyRow
<1>11. /\ \A v \in Worker : v # w => worker'[v] = worker[v]
       /\ worker'[w].pc = "fetched" /\ worker'[w].for = t /\ worker'[w].job = k
       /\ worker'[w].attempt = row.attempt
  BY <1>5, <1>7 DEF DeliveryInv, WorkersTyped
<1>12. \A v \in Worker : worker[v].pc # "idle" =>
         /\ worker[v].for \in Target
         /\ ~(worker[v].for = t /\ worker[v].job = k)
  BY <1>3 DEF DeliveryInv, WorkersTyped, IdleRow, BusyRow, JobsHeld, Holds
<1>13. JobsHeld'
  <2>1. Holds(w)'
    <3>1. k \in DOMAIN river'[t] /\ river'[t][k] = row
      BY <1>8
    <3>2. river'[t][k].state = "running" /\ river'[t][k].attempt = row.attempt
      BY <1>5, <3>1
    <3>3. QED
      BY <1>11, <3>1, <3>2 DEF Holds
  <2>2. ASSUME NEW v \in Worker, v # w
        PROVE  Holds(v)'
    <3>1. worker'[v] = worker[v] /\ Holds(v)
      BY <1>11, <2>2 DEF DeliveryInv, JobsHeld
    <3>2. worker[v].pc # "idle" =>
            /\ river'[worker[v].for][worker[v].job] = river[worker[v].for][worker[v].job]
            /\ DOMAIN river'[worker[v].for] = DOMAIN river[worker[v].for]
      BY <1>8, <1>12, <3>1 DEF Holds
    <3>3. QED
      BY <3>1, <3>2 DEF Holds
  <2>3. QED
    BY <2>1, <2>2 DEF JobsHeld
<1>14. OneWorker'
  BY <1>11, <1>12 DEF DeliveryInv, OneWorker
<1>15. AttemptsLeft'
  BY <1>5, <1>8 DEF DeliveryInv, AttemptsLeft
<1>16. QED
  BY <1>7, <1>8, <1>9, <1>10, <1>13, <1>14, <1>15, JobsOnly DEF DeliveryInv

\* The job a worker ends, or that River rescues, is retried while attempts last.
LEMMA JobEnds ==
  ASSUME DeliveryInv, NEW t \in Target, NEW k \in DOMAIN river[t],
         NEW s \in {"completed", AfterFailure(river[t][k].attempt)},
         river' = [river EXCEPT ![t][k].state = s],
         \A v \in Worker : /\ worker'[v].pc # "idle" => worker'[v] = worker[v]
                           /\ ~(worker'[v].pc # "idle" /\ worker[v].for = t /\ worker[v].job = k)
  PROVE  /\ river' \in [Target -> Seq(RiverRow)]
         /\ \A u \in Target : Len(river'[u]) = Len(river[u])
         /\ JobsHeld' /\ AttemptsLeft'
<1> DEFINE row == [river[t][k] EXCEPT !.state = s]
<1>1. TypeOK
  BY DEF DeliveryInv
<1>2. river[t][k] \in RiverRow
  BY <1>1, JobNumbers
<1>3. /\ row \in RiverRow /\ row.attempt = river[t][k].attempt /\ row.state = s
      /\ s \in {"available", "retryable"} => row.attempt < MaxAttempts
  BY <1>2 DEF RiverRow, AfterFailure
<1>4. river' = [river EXCEPT ![t][k] = row]
  <2>1. river[t] \in Seq(RiverRow)
    BY <1>1, JobNumbers
  <2>2. QED
    BY <1>1, <1>2 DEF TypeOK
<1> HIDE DEF row
<1>5. /\ river' \in [Target -> Seq(RiverRow)]
      /\ \A u \in Target : /\ Len(river'[u]) = Len(river[u])
                           /\ DOMAIN river'[u] = DOMAIN river[u]
                           /\ u # t => river'[u] = river[u]
      /\ river'[t][k] = row
      /\ \A j \in DOMAIN river[t] : j # k => river'[t][j] = river[t][j]
  <2>1. row \in RiverRow /\ river' = [river EXCEPT ![t][k] = row]
    BY <1>3, <1>4
  <2>2. QED
    BY ONLY t \in Target, k \in DOMAIN river[t], <1>1, <2>1, JobWritten
<1>6. \A v \in Worker : worker[v].pc # "idle" => worker[v].for \in Target
  BY DEF DeliveryInv, WorkersTyped, IdleRow, BusyRow
<1>7. JobsHeld'
  <2>1. SUFFICES ASSUME NEW v \in Worker, worker'[v].pc # "idle"
                 PROVE  Holds(v)'
    BY DEF JobsHeld, Holds
  <2>2. worker'[v] = worker[v] /\ ~(worker[v].for = t /\ worker[v].job = k) /\ Holds(v)
    BY <2>1 DEF DeliveryInv, JobsHeld
  <2>3. /\ worker[v].for \in Target /\ worker[v].job \in DOMAIN river[worker[v].for]
        /\ river'[worker[v].for][worker[v].job] = river[worker[v].for][worker[v].job]
        /\ DOMAIN river'[worker[v].for] = DOMAIN river[worker[v].for]
    BY <1>5, <1>6, <2>1, <2>2 DEF Holds
  <2>4. QED
    BY <2>1, <2>2, <2>3 DEF Holds
<1>8. AttemptsLeft'
  BY <1>3, <1>5 DEF DeliveryInv, AttemptsLeft
<1>9. QED
  BY <1>5, <1>7, <1>8

\* River takes the end of a job from its worker.
LEMMA FinishKeeps ==
  ASSUME DeliveryInv, NEW w \in Worker, Finish(w)
  PROVE  DeliveryInv'
<1> DEFINE t == worker[w].for
           k == worker[w].job
           s == IF Held(w, "ok") THEN "completed" ELSE AfterFailure(worker[w].attempt)
<1>1. worker[w].pc # "idle"
  BY DEF Finish
<1>2. t \in Target
  BY <1>1 DEF DeliveryInv, WorkersTyped, IdleRow, BusyRow
<1>3. k \in DOMAIN river[t] /\ river[t][k].attempt = worker[w].attempt
  BY <1>1 DEF DeliveryInv, JobsHeld, Holds
<1>4. /\ river' = [river EXCEPT ![t][k].state = s]
      /\ worker' = [worker EXCEPT ![w] = IdleRow]
      /\ UNCHANGED <<event, delivery, applied, dispatcher, faults>>
  BY DEF Finish, IdleRow
<1>5. s \in {"completed", AfterFailure(river[t][k].attempt)}
  BY <1>3
<1>6. /\ WorkersTyped' /\ OneWorker'
      /\ worker'[w].pc = "idle"
      /\ \A v \in Worker : v # w => worker'[v] = worker[v]
  BY <1>4, FreedKeeps
<1>7. \A v \in Worker : v # w /\ worker[v].pc # "idle" => ~(worker[v].for = t /\ worker[v].job = k)
  BY <1>1 DEF DeliveryInv, OneWorker
<1> HIDE DEF t, k, s
<1>8. /\ river' \in [Target -> Seq(RiverRow)]
      /\ \A u \in Target : Len(river'[u]) = Len(river[u])
      /\ JobsHeld' /\ AttemptsLeft'
  <2>1. \A v \in Worker :
          /\ worker'[v].pc # "idle" => worker'[v] = worker[v]
          /\ ~(worker'[v].pc # "idle" /\ worker[v].for = t /\ worker[v].job = k)
    BY <1>6, <1>7
  <2>2. river' = [river EXCEPT ![t][k].state = s] /\ k \in DOMAIN river[t]
    BY <1>3, <1>4
  <2>3. QED
    BY ONLY DeliveryInv, <1>2, <1>5, <2>1, <2>2, JobEnds
<1>9. TypeOK'
  BY <1>4, <1>6, <1>8 DEF DeliveryInv, TypeOK, WorkersTyped, IdleRow, BusyRow
<1>10. QED
  BY <1>4, <1>6, <1>8, <1>9, JobsOnly DEF DeliveryInv

\* River rescues a running job whose worker is gone.
LEMMA RescueKeeps ==
  ASSUME DeliveryInv, NEW t \in Target, NEW k \in DOMAIN river[t], Rescue(t, k)
  PROVE  DeliveryInv'
<1>1. /\ river' = [river EXCEPT ![t][k].state = AfterFailure(river[t][k].attempt)]
      /\ \A v \in Worker : worker[v].pc # "idle" => ~(worker[v].for = t /\ worker[v].job = k)
      /\ UNCHANGED <<event, delivery, applied, worker, dispatcher, faults>>
  BY DEF Rescue, Works, Held
<1>2. /\ river' \in [Target -> Seq(RiverRow)]
      /\ \A u \in Target : Len(river'[u]) = Len(river[u])
      /\ JobsHeld' /\ AttemptsLeft'
  <2> DEFINE s == AfterFailure(river[t][k].attempt)
  <2>1. /\ river' = [river EXCEPT ![t][k].state = s]
        /\ s \in {"completed", AfterFailure(river[t][k].attempt)}
        /\ \A v \in Worker :
             /\ worker'[v].pc # "idle" => worker'[v] = worker[v]
             /\ ~(worker'[v].pc # "idle" /\ worker[v].for = t /\ worker[v].job = k)
    BY <1>1
  <2> HIDE DEF s
  <2>2. QED
    BY ONLY DeliveryInv, t \in Target, k \in DOMAIN river[t], <2>1, JobEnds
<1>3. TypeOK' /\ WorkersTyped' /\ OneWorker'
  BY <1>1, <1>2 DEF DeliveryInv, TypeOK, WorkersTyped, OneWorker
<1>4. QED
  BY <1>1, <1>2, <1>3, JobsOnly DEF DeliveryInv

\* A worker is killed; its job stays running until it is rescued.
LEMMA CrashKeeps ==
  ASSUME DeliveryInv, NEW w \in Worker, Crash(w)
  PROVE  DeliveryInv'
<1>1. /\ worker' = [worker EXCEPT ![w] = IdleRow]
      /\ UNCHANGED <<event, delivery, river, applied, dispatcher>>
  BY DEF Crash, IdleRow
<1>2. faults' \in 0..MaxFaults
  BY ConstantsAssumption DEF DeliveryInv, TypeOK, Crash, Fault
<1>3. /\ WorkersTyped' /\ OneWorker'
      /\ worker'[w].pc = "idle"
      /\ \A v \in Worker : v # w => worker'[v] = worker[v]
  BY <1>1, FreedKeeps
<1>4. JobsHeld' /\ AttemptsLeft'
  BY <1>1, <1>3 DEF DeliveryInv, JobsHeld, Holds, AttemptsLeft
<1>5. TypeOK'
  BY <1>1, <1>2, <1>3 DEF DeliveryInv, TypeOK, WorkersTyped, IdleRow, BusyRow
<1>6. QED
  BY <1>1, <1>3, <1>4, <1>5, JobsOnly DEF DeliveryInv

-----------------------------------------------------------------------------
(* The delivery's row.                                                     *)

\* A delivery that exists gets a new row; its effect goes with the status.
LEMMA RowKeeps ==
  ASSUME DeliveryInv, NEW d \in Delivery, NEW row \in DeliveryRow, Put(d, row),
         delivery[d].status # "absent", row.status # "absent",
         row.status \in Terminal => row.owner = 0 /\ row.lease = "none",
         UNCHANGED <<event, river>>,
         applied' \in [Delivery -> Nat],
         \A c \in Delivery : c # d => applied'[c] = applied[c],
         applied'[d] = IF row.status = "completed" THEN 1 ELSE 0
  PROVE  /\ delivery' \in [Delivery -> DeliveryRow]
         /\ SettledClosed' /\ OneJobPerDelivery' /\ UnboundHandedOnce' /\ AppliedIffCompleted'
<1>1. /\ delivery' \in [Delivery -> DeliveryRow]
      /\ delivery'[d] = row
      /\ \A c \in Delivery : c # d => delivery'[c] = delivery[c]
  BY DEF DeliveryInv, TypeOK, Put
<1>2. SettledClosed'
  BY <1>1 DEF DeliveryInv, SettledClosed
<1>3. OneJobPerDelivery' /\ UnboundHandedOnce'
  BY <1>1 DEF DeliveryInv, OneJobPerDelivery, UnboundHandedOnce
<1>4. AppliedIffCompleted'
  BY <1>1 DEF DeliveryInv, AppliedIffCompleted
<1>5. QED
  BY <1>1, <1>2, <1>3, <1>4

\* A row keeps its type when it is closed.
LEMMA ClosedType ==
  ASSUME NEW row \in DeliveryRow, NEW status \in DeliveryStatus
  PROVE  /\ Closed(row, status) \in DeliveryRow
         /\ Closed(row, status).status = status
         /\ Closed(row, status).owner = 0 /\ Closed(row, status).lease = "none"
  BY DEF Closed, DeliveryRow

\* A busy worker's row.
LEMMA BusyTypes ==
  ASSUME DeliveryInv, NEW w \in Worker, worker[w].pc # "idle"
  PROVE  worker[w] \in BusyRow
  BY DEF DeliveryInv, WorkersTyped, IdleRow

\* A claim: pending and expired deliveries are taken, others send the worker away.
LEMMA ClaimKeeps ==
  ASSUME DeliveryInv, NEW w \in Worker, Claim(w)
  PROVE  DeliveryInv'
<1> DEFINE d == worker[w].for
           k == worker[w].job
           claimed == [status |-> "processing", owner |-> k, lease |-> "live"]
<1>1. /\ worker[w].pc = "fetched" /\ d \in Delivery
      /\ UNCHANGED <<event, river, applied, dispatcher, faults>>
  BY DEF Claim, Held
<1>2. \E pc \in {"consuming", "ok", "err"} : Goto(w, pc)
  BY DEF Claim
<1>3. PICK pc \in {"consuming", "ok", "err"} : Goto(w, pc)
  BY <1>2
<1>4. WorkersTyped' /\ JobsHeld' /\ OneWorker' /\ AttemptsLeft'
  BY <1>1, <1>3, GotoKeeps DEF Phase
<1>5. k \in Nat
  BY <1>1, BusyTypes DEF BusyRow
<1>6. /\ delivery' \in [Delivery -> DeliveryRow]
      /\ SettledClosed' /\ OneJobPerDelivery' /\ UnboundHandedOnce' /\ AppliedIffCompleted'
  <2>1. CASE Claimable(delivery[d], k)
    <3>1. Put(d, claimed) /\ delivery[d].status \in {"pending", "processing"}
      BY <2>1 DEF Claim, Claimable
    <3>2. claimed \in DeliveryRow /\ claimed.status = "processing"
      BY <1>5 DEF DeliveryRow, DeliveryStatus
    <3>3. applied' \in [Delivery -> Nat] /\ applied' = applied /\ applied[d] = 0
      BY <1>1, <3>1 DEF DeliveryInv, TypeOK, AppliedIffCompleted
    <3> HIDE DEF claimed, d
    <3>4. QED
      BY <1>1, <3>1, <3>2, <3>3, RowKeeps DEF Terminal
  <2>2. CASE ~Claimable(delivery[d], k)
    <3>1. UNCHANGED <<delivery, event, river, applied>>
      BY <1>1, <2>2 DEF Claim
    <3>2. QED
      BY <3>1 DEF DeliveryInv, TypeOK, SettledClosed, OneJobPerDelivery, UnboundHandedOnce,
                  AppliedIffCompleted
  <2>3. QED
    BY <2>1, <2>2
<1>7. TypeOK'
  BY <1>1, <1>4, <1>6 DEF DeliveryInv, TypeOK, WorkersTyped, IdleRow, BusyRow
<1>8. QED
  BY <1>4, <1>6, <1>7 DEF DeliveryInv

\* A lease expires.
LEMMA ExpireKeeps ==
  ASSUME DeliveryInv, NEW d \in Delivery, Expire(d)
  PROVE  DeliveryInv'
<1> DEFINE row == [delivery[d] EXCEPT !.lease = "expired"]
<1>1. /\ delivery[d].lease = "live" /\ Put(d, row)
      /\ UNCHANGED <<event, river, applied, worker, dispatcher, faults>>
  BY DEF Expire
<1>2. delivery[d] \in DeliveryRow
  BY DEF DeliveryInv, TypeOK
<1>3. row \in DeliveryRow /\ row.status = delivery[d].status
  BY <1>2 DEF DeliveryRow
<1>4. delivery[d].status \notin Terminal
  BY <1>1 DEF DeliveryInv, SettledClosed
<1> HIDE DEF row
<1>5. delivery' \in [Delivery -> DeliveryRow] /\ delivery'[d] = row
      /\ \A c \in Delivery : c # d => delivery'[c] = delivery[c]
  BY <1>1, <1>3 DEF DeliveryInv, TypeOK, Put
<1>6. SettledClosed' /\ OneJobPerDelivery' /\ UnboundHandedOnce' /\ AppliedIffCompleted'
  BY <1>1, <1>3, <1>4, <1>5 DEF DeliveryInv, SettledClosed, OneJobPerDelivery,
                                UnboundHandedOnce, AppliedIffCompleted
<1>7. WorkersTyped' /\ JobsHeld' /\ OneWorker' /\ AttemptsLeft'
  BY <1>1 DEF DeliveryInv, WorkersTyped, JobsHeld, Holds, OneWorker, AttemptsLeft
<1>8. TypeOK'
  BY <1>1, <1>5 DEF DeliveryInv, TypeOK
<1>9. QED
  BY <1>6, <1>7, <1>8 DEF DeliveryInv

\* The consumer's transaction; the worker sees its commit or not.
LEMMA ConsumeKeeps ==
  ASSUME DeliveryInv, NEW w \in Worker, Consume(w) \/ ConsumeLost(w)
  PROVE  DeliveryInv'
<1> DEFINE d == worker[w].for
           row == Closed(delivery[d], "completed")
<1>1. /\ worker[w].pc = "consuming"
      /\ delivery[d].status \in {"processing", "completed"}
      /\ applied' = [applied EXCEPT ![d] = AppliedOnce(d)]
      /\ Put(d, row)
      /\ UNCHANGED <<event, river, dispatcher>>
  BY DEF Consume, ConsumeLost, Consumes, Held, Owns
<1>2. d \in Delivery
  BY <1>1 DEF DeliveryInv, JobsHeld, Holds
<1>3. \E pc \in {"ok", "failed"} : Goto(w, pc)
  BY DEF Consume, ConsumeLost
<1>4. PICK pc \in {"ok", "failed"} : Goto(w, pc)
  BY <1>3
<1>5. WorkersTyped' /\ JobsHeld' /\ OneWorker' /\ AttemptsLeft'
  BY <1>1, <1>2, <1>4, GotoKeeps DEF Phase
<1>6. row \in DeliveryRow /\ row.status = "completed" /\ row.owner = 0 /\ row.lease = "none"
  <2>1. delivery[d] \in DeliveryRow /\ "completed" \in DeliveryStatus
    BY <1>2 DEF DeliveryInv, TypeOK, DeliveryStatus, Terminal
  <2>2. QED
    BY <2>1, ClosedType
<1>7. AppliedOnce(d) = 1
  BY <1>1, <1>2 DEF DeliveryInv, AppliedIffCompleted, AppliedOnce
<1> HIDE DEF d, row
<1>8. /\ applied' \in [Delivery -> Nat] /\ applied'[d] = 1
      /\ \A c \in Delivery : c # d => applied'[c] = applied[c]
  BY <1>1, <1>2, <1>7 DEF DeliveryInv, TypeOK
<1>9. /\ delivery' \in [Delivery -> DeliveryRow]
      /\ SettledClosed' /\ OneJobPerDelivery' /\ UnboundHandedOnce' /\ AppliedIffCompleted'
  BY <1>1, <1>2, <1>6, <1>8, RowKeeps
<1>10. faults' \in 0..MaxFaults
  BY ConstantsAssumption DEF DeliveryInv, TypeOK, Consume, ConsumeLost, Fault
<1>11. TypeOK'
  BY <1>1, <1>5, <1>8, <1>9, <1>10 DEF DeliveryInv, TypeOK, WorkersTyped, IdleRow, BusyRow
<1>12. QED
  BY <1>5, <1>9, <1>11 DEF DeliveryInv

\* The report settles a delivery that the job still owns, or frees it.
LEMMA ReportKeeps ==
  ASSUME DeliveryInv, NEW w \in Worker, Report(w)
  PROVE  DeliveryInv'
<1> DEFINE d == worker[w].for
           row == Closed(delivery[d], Reported(w))
<1>1. /\ worker[w].pc \in {"failed", "poison", "unknown"}
      /\ UNCHANGED <<event, river, applied, dispatcher, faults>>
  BY DEF Report
<1>2. d \in Delivery
  BY <1>1 DEF DeliveryInv, JobsHeld, Holds
<1>3. \E pc \in {"ok", "err"} : Goto(w, pc)
  BY DEF Report, Reports
<1>4. PICK pc \in {"ok", "err"} : Goto(w, pc)
  BY <1>3
<1>5. WorkersTyped' /\ JobsHeld' /\ OneWorker' /\ AttemptsLeft'
  BY <1>1, <1>4, GotoKeeps DEF Phase
<1>6. Reported(w) \in {"outcome_unknown", "final_failed", "pending"}
  BY DEF Reported
<1>7. /\ delivery' \in [Delivery -> DeliveryRow]
      /\ SettledClosed' /\ OneJobPerDelivery' /\ UnboundHandedOnce' /\ AppliedIffCompleted'
  <2>1. CASE Owns(delivery[d], worker[w].job)
    <3>1. Put(d, row) /\ delivery[d].status = "processing"
      BY <2>1 DEF Report, Reports, Owns
    <3>2. /\ row \in DeliveryRow /\ row.status \in {"outcome_unknown", "final_failed", "pending"}
          /\ row.owner = 0 /\ row.lease = "none"
      <4>1. delivery[d] \in DeliveryRow /\ Reported(w) \in DeliveryStatus
        BY <1>2, <1>6 DEF DeliveryInv, TypeOK, DeliveryStatus, Terminal
      <4>2. QED
        BY <1>6, <4>1, ClosedType
    <3>3. applied' \in [Delivery -> Nat] /\ applied' = applied /\ applied[d] = 0
      BY <1>1, <1>2, <3>1 DEF DeliveryInv, TypeOK, AppliedIffCompleted
    <3> HIDE DEF row, d
    <3>4. QED
      BY <1>1, <1>2, <3>1, <3>2, <3>3, RowKeeps
  <2>2. CASE ~Owns(delivery[d], worker[w].job)
    <3>1. UNCHANGED <<delivery, event, river, applied>>
      BY <1>1, <2>2 DEF Report, Reports
    <3>2. QED
      BY <3>1 DEF DeliveryInv, TypeOK, SettledClosed, OneJobPerDelivery, UnboundHandedOnce,
                  AppliedIffCompleted
  <2>3. QED
    BY <2>1, <2>2
<1>8. TypeOK'
  BY <1>1, <1>5, <1>7 DEF DeliveryInv, TypeOK, WorkersTyped, IdleRow, BusyRow
<1>9. QED
  BY <1>5, <1>7, <1>8 DEF DeliveryInv

\* Steps of a worker that leave every table alone.
LEMMA WorkKeeps ==
  ASSUME DeliveryInv, NEW w \in Worker, ConsumeUnbound(w) \/ Refuse(w) \/ Fail(w)
  PROVE  DeliveryInv'
<1>1. /\ worker[w].pc # "idle"
      /\ UNCHANGED <<event, delivery, river, applied, dispatcher>>
  BY DEF ConsumeUnbound, Refuse, Fail, Held
<1>2. WorkersTyped' /\ JobsHeld' /\ OneWorker' /\ AttemptsLeft'
  <2>1. CASE ConsumeUnbound(w) \/ Fail(w)
    <3>1. \E pc \in {"ok", "err"} : Goto(w, pc)
      BY <2>1 DEF ConsumeUnbound, Fail
    <3>2. PICK pc \in {"ok", "err"} : Goto(w, pc)
      BY <3>1
    <3>3. QED
      BY <1>1, <3>2, GotoKeeps DEF Phase
  <2>2. CASE Refuse(w)
    <3>1. PICK error \in {"failed", "poison", "unknown"} : Goto(w, error)
      BY <2>2 DEF Refuse
    <3>2. worker[w].for \in Delivery
      BY <2>2 DEF DeliveryInv, JobsHeld, Holds, Refuse, Held
    <3>3. QED
      BY <1>1, <3>1, <3>2, GotoKeeps DEF Phase
  <2>3. QED
    BY <2>1, <2>2
<1>3. faults' \in 0..MaxFaults
  BY ConstantsAssumption DEF DeliveryInv, TypeOK, ConsumeUnbound, Refuse, Fail, Fault
<1>4. TypeOK'
  BY <1>1, <1>2, <1>3 DEF DeliveryInv, TypeOK, WorkersTyped, IdleRow, BusyRow
<1>5. QED
  BY <1>1, <1>2, <1>4, JobsOnly DEF DeliveryInv

-----------------------------------------------------------------------------
(* Accepting deliveries.                                                   *)

\* A producer or a dispatch accepts what it read as missing: what exists by now
\* keeps its row and its job.
LEMMA AcceptsKeep ==
  ASSUME DeliveryInv, NEW ts \in SUBSET Target, Accepts(ts), UNCHANGED <<applied, worker>>
  PROVE  /\ delivery' \in [Delivery -> DeliveryRow]
         /\ river' \in [Target -> Seq(RiverRow)]
         /\ JobsHeld' /\ AttemptsLeft'
         /\ SettledClosed' /\ OneJobPerDelivery' /\ AppliedIffCompleted'
         /\ \A u \in Unbound :
              Len(river'[u]) = IF u \in ts THEN Len(river[u]) + 1 ELSE Len(river[u])
<1> DEFINE new == {t \in ts : t \in Unbound \/ delivery[t].status = "absent"}
           row == [NoRow EXCEPT !.status = "pending"]
<1>1. /\ delivery' = [d \in Delivery |-> IF d \in new THEN row ELSE delivery[d]]
      /\ river' = [t \in Target |-> IF t \in new THEN Append(river[t], NewJob) ELSE river[t]]
  BY DEF Accepts
<1>2. \A d \in Delivery : d \notin Unbound /\ (d \in new => delivery[d].status = "absent")
  BY ConstantsAssumption DEF Delivery
<1>3. \A u \in Unbound : u \in new <=> u \in ts
  OBVIOUS
<1>4. /\ row \in DeliveryRow /\ row.status = "pending"
  BY DEF NoRow, DeliveryRow, DeliveryStatus
<1>5. NewJob \in RiverRow /\ NewJob.state = "available" /\ NewJob.attempt = 0
  BY ConstantsAssumption DEF NewJob, RiverRow
<1>6. Delivery \subseteq Target /\ Unbound \subseteq Target
  BY DEF Target
<1> HIDE DEF new, row
<1>7. ASSUME NEW t \in Target
      PROVE  /\ river'[t] \in Seq(RiverRow)
             /\ Len(river'[t]) = IF t \in new THEN Len(river[t]) + 1 ELSE Len(river[t])
             /\ DOMAIN river'[t] = 1..Len(river'[t])
             /\ \A k \in DOMAIN river[t] : k \in DOMAIN river'[t] /\ river'[t][k] = river[t][k]
             /\ \A k \in DOMAIN river'[t] : k \notin DOMAIN river[t] => river'[t][k] = NewJob
  <2>1. /\ river[t] \in Seq(RiverRow) /\ Len(river[t]) \in Nat
        /\ DOMAIN river[t] = 1..Len(river[t])
    BY JobNumbers DEF DeliveryInv
  <2>2. CASE t \in new
    <3>1. river'[t] = Append(river[t], NewJob)
      BY <1>1, <2>2
    <3>2. /\ river'[t] \in Seq(RiverRow) /\ Len(river'[t]) = Len(river[t]) + 1
          /\ \A i \in 1..Len(river[t]) : river'[t][i] = river[t][i]
          /\ river'[t][Len(river[t]) + 1] = NewJob
      BY <1>5, <2>1, <3>1, AppendProperties
    <3>3. DOMAIN river'[t] = 1..Len(river'[t])
      BY <3>2, LenProperties
    <3>4. QED
      BY <2>1, <2>2, <3>2, <3>3
  <2>3. CASE t \notin new
    <3>1. river'[t] = river[t]
      BY <1>1, <2>3
    <3>2. QED
      BY <2>1, <2>3, <3>1
  <2>4. QED
    BY <2>2, <2>3
<1>8. river' \in [Target -> Seq(RiverRow)]
  BY <1>1, <1>7
<1>9. delivery' \in [Delivery -> DeliveryRow]
  BY <1>1, <1>4 DEF DeliveryInv, TypeOK
<1>10. JobsHeld'
  <2>1. \A v \in Worker : worker[v].pc # "idle" => worker[v].for \in Target
    BY BusyTypes DEF BusyRow
  <2>2. QED
    BY <1>7, <2>1 DEF DeliveryInv, JobsHeld, Holds
<1>11. AttemptsLeft'
  <2>1. NewJob.attempt < MaxAttempts
    BY <1>5, ConstantsAssumption
  <2>2. QED
    BY <1>7, <2>1 DEF DeliveryInv, AttemptsLeft
<1>12. SettledClosed'
  BY <1>1, <1>4 DEF DeliveryInv, SettledClosed, Terminal
<1>13. OneJobPerDelivery'
  <2>1. ASSUME NEW d \in Delivery
        PROVE  Len(river'[d]) = IF delivery'[d].status = "absent" THEN 0 ELSE 1
    <3>1. Len(river[d]) = IF delivery[d].status = "absent" THEN 0 ELSE 1
      BY DEF DeliveryInv, OneJobPerDelivery
    <3>2. Len(river'[d]) = IF d \in new THEN Len(river[d]) + 1 ELSE Len(river[d])
      BY <1>6, <1>7
    <3>3. delivery'[d] = IF d \in new THEN row ELSE delivery[d]
      BY <1>1
    <3>4. QED
      BY <1>2, <1>4, <3>1, <3>2, <3>3
  <2>2. QED
    BY <2>1 DEF OneJobPerDelivery
<1>14. AppliedIffCompleted'
  BY <1>1, <1>2, <1>4 DEF DeliveryInv, AppliedIffCompleted
<1>15. QED
  BY <1>3, <1>6, <1>7, <1>8, <1>9, <1>10, <1>11, <1>12, <1>13, <1>14

\* The rest of an acceptance: the events' flags.
LEMMA AcceptedKeeps ==
  ASSUME DeliveryInv, NEW ts \in SUBSET Target, Accepts(ts), UNCHANGED <<applied, worker, faults>>,
         event' \in [Event \union Unbound -> {"absent", "logged", "dispatched"}],
         dispatcher' \in [Dispatcher -> SUBSET Delivery],
         \A u \in Unbound : IF u \in ts
                           THEN event[u] = "logged" /\ event'[u] = "dispatched"
                           ELSE event'[u] = event[u]
  PROVE  DeliveryInv'
<1>1. /\ delivery' \in [Delivery -> DeliveryRow]
      /\ river' \in [Target -> Seq(RiverRow)]
      /\ JobsHeld' /\ AttemptsLeft'
      /\ SettledClosed' /\ OneJobPerDelivery' /\ AppliedIffCompleted'
      /\ \A u \in Unbound :
           Len(river'[u]) = IF u \in ts THEN Len(river[u]) + 1 ELSE Len(river[u])
  BY AcceptsKeep
<1>2. UnboundHandedOnce'
  BY <1>1 DEF DeliveryInv, UnboundHandedOnce
<1>3. WorkersTyped' /\ OneWorker'
  BY DEF DeliveryInv, WorkersTyped, OneWorker
<1>4. TypeOK'
  BY <1>1 DEF DeliveryInv, TypeOK
<1>5. QED
  BY <1>1, <1>2, <1>3, <1>4 DEF DeliveryInv

\* A producer, with or without its deliveries.
LEMMA ProduceKeeps ==
  /\ \A e \in Event \union Unbound : DeliveryInv /\ AppendEvent(e) => DeliveryInv'
  /\ \A e \in Event : DeliveryInv /\ Publish(e) => DeliveryInv'
<1>1. ASSUME NEW e \in Event \union Unbound, DeliveryInv, AppendEvent(e)
      PROVE  DeliveryInv'
  <2>1. /\ event[e] = "absent" /\ event' = [event EXCEPT ![e] = "logged"]
        /\ UNCHANGED <<delivery, river, applied, worker, dispatcher, faults>>
    BY <1>1 DEF AppendEvent
  <2>2. UnboundHandedOnce'
    BY <1>1, <2>1 DEF DeliveryInv, TypeOK, UnboundHandedOnce
  <2>3. TypeOK' /\ WorkersTyped' /\ OneWorker'
    BY <1>1, <2>1 DEF DeliveryInv, TypeOK, WorkersTyped, OneWorker
  <2>4. QED
    BY <1>1, <2>1, <2>2, <2>3
    DEF DeliveryInv, JobsHeld, Holds, AttemptsLeft, SettledClosed, OneJobPerDelivery,
        AppliedIffCompleted
<1>2. ASSUME NEW e \in Event, DeliveryInv, Publish(e)
      PROVE  DeliveryInv'
  <2>1. /\ event' = [event EXCEPT ![e] = "dispatched"]
        /\ Accepts(DeliveriesOf(e))
        /\ UNCHANGED <<applied, worker, dispatcher, faults>>
    BY <1>2 DEF Publish
  <2>2. /\ DeliveriesOf(e) \in SUBSET Target
        /\ \A u \in Unbound : u \notin DeliveriesOf(e) /\ u # e
    BY ConstantsAssumption DEF DeliveriesOf, Delivery, Target
  <2>3. /\ event' \in [Event \union Unbound -> {"absent", "logged", "dispatched"}]
        /\ \A u \in Unbound : event'[u] = event[u]
        /\ dispatcher' \in [Dispatcher -> SUBSET Delivery]
    BY <1>2, <2>1, <2>2 DEF DeliveryInv, TypeOK
  <2>4. QED
    BY <1>2, <2>1, <2>2, <2>3, AcceptedKeeps
<1>3. QED
  BY <1>1, <1>2

\* A dispatch reads, commits or fails; two of them may have read the same.
LEMMA DispatchKeeps ==
  ASSUME DeliveryInv, NEW x \in Dispatcher
  PROVE  /\ \A ds \in SUBSET Missing : ClaimMissing(x, ds) => DeliveryInv'
         /\ DispatchFails(x) => DeliveryInv'
         /\ \A us \in SUBSET Undispatched : DispatchBatch(x, us) => DeliveryInv'
<1>1. ASSUME NEW ds \in SUBSET Delivery, dispatcher' = [dispatcher EXCEPT ![x] = ds],
             faults' \in 0..MaxFaults,
             UNCHANGED <<event, delivery, river, applied, worker>>
      PROVE  DeliveryInv'
  <2>1. TypeOK'
    BY <1>1 DEF DeliveryInv, TypeOK
  <2>2. QED
    BY <1>1, <2>1
    DEF DeliveryInv, WorkersTyped, JobsHeld, Holds, OneWorker, AttemptsLeft, SettledClosed,
        OneJobPerDelivery, UnboundHandedOnce, AppliedIffCompleted
<1>2. ASSUME NEW ds \in SUBSET Missing, ClaimMissing(x, ds)
      PROVE  DeliveryInv'
  BY <1>1, <1>2 DEF Missing, ClaimMissing, DeliveryInv, TypeOK
<1>3. ASSUME DispatchFails(x)
      PROVE  DeliveryInv'
  <2>1. /\ dispatcher' = [dispatcher EXCEPT ![x] = {}]
        /\ UNCHANGED <<event, delivery, river, applied, worker>>
    BY <1>3 DEF DispatchFails
  <2>2. faults' \in 0..MaxFaults
    BY <1>3, ConstantsAssumption DEF DispatchFails, Fault, DeliveryInv, TypeOK
  <2>3. {} \in SUBSET Delivery
    OBVIOUS
  <2>4. QED
    BY <1>1, <2>1, <2>2, <2>3
<1>4. ASSUME NEW us \in SUBSET Undispatched, DispatchBatch(x, us)
      PROVE  DeliveryInv'
  <2>1. /\ Accepts(dispatcher[x] \union us)
        /\ event' = [e \in DOMAIN event |->
             IF e \in us \/ \E d \in dispatcher[x] : d[1] = e THEN "dispatched" ELSE event[e]]
        /\ dispatcher' = [dispatcher EXCEPT ![x] = {}]
        /\ UNCHANGED <<applied, worker, faults>>
    BY <1>4 DEF DispatchBatch
  <2>2. dispatcher[x] \subseteq Delivery /\ us \subseteq Unbound
    BY DEF DeliveryInv, TypeOK, Undispatched
  <2>3. dispatcher[x] \union us \in SUBSET Target
    BY <2>2 DEF Target
  <2>4. \A d \in dispatcher[x] : d[1] \in Event /\ d \notin Unbound
    BY <2>2, ConstantsAssumption DEF Delivery
  <2>5. \A u \in Unbound : /\ u \in dispatcher[x] \union us <=> u \in us
                           /\ ~\E d \in dispatcher[x] : d[1] = u
    BY <2>4, ConstantsAssumption
  <2>6. DOMAIN event = Event \union Unbound
    BY DEF DeliveryInv, TypeOK
  <2>7. \A u \in us : event[u] = "logged"
    BY DEF Undispatched
  <2>8. /\ event' \in [Event \union Unbound -> {"absent", "logged", "dispatched"}]
        /\ dispatcher' \in [Dispatcher -> SUBSET Delivery]
    BY <2>1, <2>6 DEF DeliveryInv, TypeOK
  <2>9. \A u \in Unbound : IF u \in dispatcher[x] \union us
                          THEN event[u] = "logged" /\ event'[u] = "dispatched"
                          ELSE event'[u] = event[u]
    BY <2>1, <2>5, <2>6, <2>7
  <2>10. QED
    BY <2>1, <2>3, <2>8, <2>9, AcceptedKeeps
<1>5. QED
  BY <1>2, <1>3, <1>4

-----------------------------------------------------------------------------
(* The theorems.                                                           *)

\* Every step of the delivery keeps the inductive invariant.
LEMMA DeliveryStep == DeliveryInv /\ [Next]_vars => DeliveryInv'
<1> SUFFICES ASSUME DeliveryInv, [Next]_vars
             PROVE  DeliveryInv'
  OBVIOUS
<1>1. CASE \/ \E e \in Event \union Unbound : AppendEvent(e)
           \/ \E e \in Event : Publish(e)
  BY <1>1, ProduceKeeps
<1>2. ASSUME NEW x \in Dispatcher,
             \/ \E ds \in SUBSET Missing : ClaimMissing(x, ds)
             \/ DispatchFails(x)
             \/ \E us \in SUBSET Undispatched : DispatchBatch(x, us)
      PROVE  DeliveryInv'
  BY <1>2, DispatchKeeps
<1>3. ASSUME NEW d \in Delivery, Expire(d)
      PROVE  DeliveryInv'
  BY <1>3, ExpireKeeps
<1>4. ASSUME NEW t \in Target, NEW k \in DOMAIN river[t],
             Rescue(t, k) \/ \E w \in Worker : Fetch(w, t, k)
      PROVE  DeliveryInv'
  BY <1>4, RescueKeeps, FetchKeeps
<1>5. ASSUME NEW w \in Worker, WorkerStep(w) \/ ConsumeLost(w) \/ Crash(w) \/ Fail(w)
      PROVE  DeliveryInv'
  BY <1>5, ClaimKeeps, WorkKeeps, ConsumeKeeps, ReportKeeps, FinishKeeps, CrashKeeps
  DEF WorkerStep
<1>6. CASE UNCHANGED vars
  BY <1>6 DEF vars, DeliveryInv, TypeOK, WorkersTyped, JobsHeld, Holds, OneWorker, AttemptsLeft,
              SettledClosed, OneJobPerDelivery, UnboundHandedOnce, AppliedIffCompleted
<1>7. QED
  BY <1>1, <1>2, <1>3, <1>4, <1>5, <1>6 DEF Next

\* In every reachable state the inductive invariant holds.
THEOREM DeliveryInvariant == Spec => []DeliveryInv
  BY DeliveryInit, DeliveryStep, PTL DEF Spec

\* Every table of the delivery keeps its type; no job passes its max_attempts.
THEOREM DeliveryTyped == Spec => []TypeOK
<1>1. DeliveryInv => TypeOK
  BY DEF DeliveryInv
<1>2. QED
  BY <1>1, DeliveryInvariant, PTL

\* However many producers and dispatches accept a delivery, ReserveEventDelivery
\* gives it one job.
THEOREM DeliveryHasOneJob == Spec => []OneJobPerDelivery
<1>1. DeliveryInv => OneJobPerDelivery
  BY DEF DeliveryInv
<1>2. QED
  BY <1>1, DeliveryInvariant, PTL

\* The dispatched flag of an unbound event and its job are written together.
THEOREM UnboundHasOneJob == Spec => []UnboundHandedOnce
<1>1. DeliveryInv => UnboundHandedOnce
  BY DEF DeliveryInv
<1>2. QED
  BY <1>1, DeliveryInvariant, PTL

\* A delivery says completed just if its consumer's effect happened, once.
THEOREM CompletedMeansApplied == Spec => []AppliedIffCompleted
<1>1. DeliveryInv => AppliedIffCompleted
  BY DEF DeliveryInv
<1>2. QED
  BY <1>1, DeliveryInvariant, PTL

\* No step changes a settled delivery.
LEMMA SettledStep ==
  ASSUME DeliveryInv, [Next]_vars, NEW d \in Delivery, delivery[d].status \in Terminal
  PROVE  delivery'[d] = delivery[d]
<1>1. /\ delivery[d] \in DeliveryRow /\ delivery \in [Delivery -> DeliveryRow]
      /\ delivery[d].owner = 0 /\ delivery[d].lease = "none"
      /\ delivery[d].status \notin {"absent", "pending", "processing"}
  BY DEF DeliveryInv, TypeOK, SettledClosed, Terminal
<1>2. ASSUME NEW ts \in SUBSET Target, Accepts(ts)
      PROVE  delivery'[d] = delivery[d]
  <2>1. d \notin Unbound
    BY ConstantsAssumption DEF Delivery
  <2>2. QED
    BY <1>1, <1>2, <2>1 DEF Accepts
<1>3. ASSUME NEW e \in Event, Publish(e)
      PROVE  delivery'[d] = delivery[d]
  <2>1. DeliveriesOf(e) \in SUBSET Target
    BY DEF DeliveriesOf, Delivery, Target
  <2>2. QED
    BY <1>2, <1>3, <2>1 DEF Publish
<1>4. ASSUME NEW x \in Dispatcher, NEW us \in SUBSET Undispatched, DispatchBatch(x, us)
      PROVE  delivery'[d] = delivery[d]
  <2>1. dispatcher[x] \union us \in SUBSET Target
    BY DEF DeliveryInv, TypeOK, Undispatched, Target
  <2>2. QED
    BY <1>2, <1>4, <2>1 DEF DispatchBatch
<1>5. ASSUME NEW c \in Delivery, Expire(c)
      PROVE  delivery'[d] = delivery[d]
  BY <1>1, <1>5 DEF Expire, Put
<1>6. ASSUME NEW w \in Worker, Claim(w)
      PROVE  delivery'[d] = delivery[d]
  BY <1>1, <1>6 DEF Claim, Claimable, Put
<1>7. ASSUME NEW w \in Worker, Consume(w) \/ ConsumeLost(w)
      PROVE  delivery'[d] = delivery[d]
  <2>1. /\ Put(worker[w].for, Closed(delivery[worker[w].for], "completed"))
        /\ delivery[worker[w].for].status \in {"processing", "completed"}
    BY <1>7 DEF Consume, ConsumeLost, Consumes, Owns
  <2>2. CASE worker[w].for = d
    <3>1. Closed(delivery[d], "completed") = delivery[d]
      BY <1>1, <2>1, <2>2 DEF Closed, DeliveryRow
    <3>2. QED
      BY <1>1, <2>1, <2>2, <3>1 DEF Put
  <2>3. CASE worker[w].for # d
    BY <1>1, <2>1, <2>3 DEF Put
  <2>4. QED
    BY <2>2, <2>3
<1>8. ASSUME NEW w \in Worker, Report(w)
      PROVE  delivery'[d] = delivery[d]
  BY <1>1, <1>8 DEF Report, Reports, Owns, Put
<1>9. QED
  BY <1>3, <1>4, <1>5, <1>6, <1>7, <1>8
  DEF Next, WorkerStep, vars, AppendEvent, ClaimMissing, DispatchFails, Rescue, Fetch,
      ConsumeUnbound, Refuse, Finish, Crash, Fail

\* A job that comes again for a settled delivery, a late report or a second
\* completion never changes what was settled.
THEOREM SettledStays == Spec => SettledDeliveriesFinal
<1>1. DeliveryInv /\ [Next]_vars
        => [\A d \in Delivery :
              delivery[d].status \in Terminal => delivery'[d] = delivery[d]]_vars
  BY SettledStep
<1>2. QED
  BY <1>1, DeliveryInvariant, PTL DEF Spec, SettledDeliveriesFinal
=============================================================================
