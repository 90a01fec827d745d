------------------------ MODULE OutboundSender_proofs ------------------------
(***************************************************************************)
(* The sender's safety properties for any tasks, jobs, workers and bounds, *)
(* from one inductive invariant; from a second one on top of it, what      *)
(* holds as long as River runs a job once at a time; and that the sender   *)
(* implements its promise.                                                 *)
(***************************************************************************)
EXTENDS OutboundSender, TLAPS

-----------------------------------------------------------------------------
(* The inductive invariant, by parts.                                      *)

Exists(j) == river[j].state # "absent"

\* Jobs that exist belong to a task, and everything recorded about a job is
\* about one that exists.
JobsKnown ==
  /\ \A j \in Job : Exists(j) => river[j].task \in Task
  /\ \A j \in Job : river[j].state = "running" => river[j].attempt \in Attempt
  /\ \A j \in Job : \A k \in Attempt : history[j][k] # "absent" => Exists(j)
  /\ \A t \in Task :
       /\ task[t].status # "absent" => links[t] # <<>>
       /\ task[t].status = "absent" => task[t].current = NoJob

\* Every attempt before an attempt that exists was refused clearly.
RowsChained ==
  \A j \in Job : \A k, m \in Attempt :
    m < k /\ history[j][k] # "absent" => history[j][m] = "retryable_failed"

\* The marker shows the last history row; a later attempt opens it at Start.
MarkerOf(s, k) == IF s = "reserved" /\ k > 1 THEN "retryable_failed" ELSE s

MarkerShowsLast ==
  \A j \in Job :
    /\ marker[j] = "absent" <=> history[j][1] = "absent"
    /\ \A k \in Attempt :
         /\ history[j][k] # "absent"
         /\ k < MaxAttempts => history[j][k + 1] = "absent"
         => marker[j] = MarkerOf(history[j][k], k)

\* An open dispatch is the one its task shows.
Shows(j, k) == task[TaskOf(j)].current = j /\ task[TaskOf(j)].count = k

OpenShown ==
  \A j \in Job : \A k \in Attempt : history[j][k] = "dispatching" => Shows(j, k)

RowOf(w) == history[worker[w].job][worker[w].attempt]

\* What a worker's phase says of the attempt it holds.
Knows(w) ==
  /\ worker[w].pc # "idle" =>
       /\ worker[w].job \in Job
       /\ worker[w].attempt \in Attempt
       /\ Exists(worker[w].job)
  /\ worker[w].pc = "interrupted" => RowOf(w) \in Result \union {"dispatching"}
  /\ worker[w].pc = "replayed" => RowOf(w) \in Result
  /\ worker[w].pc = "answered" => worker[w].result \in Result

WorkersKnow == \A w \in Worker : Knows(w)

\* A worker that may call the provider, or holds its answer.
Live(w) == worker[w].pc \in {"dispatch", "answered"}

\* Its attempt is open, or was given up as unknown, and the task shows it.
LiveShown ==
  \A w \in Worker :
    Live(w) => /\ RowOf(w) \in {"dispatching", "outcome_unknown"}
               /\ Shows(worker[w].job, worker[w].attempt)

OneLive ==
  \A v, w \in Worker :
    Live(v) /\ Live(w) /\ worker[v].job = worker[w].job => v = w

\* A task that may have been delivered cannot be dispatched again, and a call
\* to come, or a clear refusal, means that nothing was delivered.
DeliveredShown ==
  /\ \A t \in Task :
       /\ delivered[t] \in {0, 1}
       /\ delivered[t] = 1 => task[t].status \in {"sending", "sent", "outcome_unknown"}
  /\ \A w \in Worker :
       \/ worker[w].pc = "dispatch"
       \/ worker[w].pc = "answered" /\ worker[w].result \in {"retryable_failed", "final_failed"}
       => delivered[TaskOf(worker[w].job)] = 0

SenderInv ==
  /\ TypeOK
  /\ JobsKnown
  /\ RowsChained
  /\ MarkerShowsLast
  /\ TaskShowsAttempt
  /\ OpenShown
  /\ ResultEvents
  /\ WorkersKnow
  /\ LiveShown
  /\ OneLive
  /\ DeliveredShown

-----------------------------------------------------------------------------
(* Initial states.                                                         *)

\* The initial states satisfy the inductive invariant.
LEMMA SenderInit == Init => SenderInv
<1> SUFFICES ASSUME Init
             PROVE  SenderInv
  OBVIOUS
<1> USE ConstantsAssumption DEF Init
<1>1. TypeOK
  BY DEF TypeOK, TaskRow, TaskStatus, RiverRow, RiverState, AttemptState,
         Attempt, Receipt, WorkerRow, Phase, Result, Idle
<1>2. JobsKnown
  BY DEF JobsKnown, Exists, Attempt
<1>3. RowsChained /\ MarkerShowsLast /\ OpenShown
  BY DEF RowsChained, MarkerShowsLast, OpenShown, Attempt
<1>4. TaskShowsAttempt /\ ResultEvents
  BY DEF TaskShowsAttempt, ResultEvents, Result, Attempt
<1>5. WorkersKnow /\ LiveShown /\ OneLive
  BY DEF WorkersKnow, Knows, LiveShown, OneLive, Live, Idle
<1>6. DeliveredShown
  BY DEF DeliveredShown, Idle
<1>7. QED
  BY <1>1, <1>2, <1>3, <1>4, <1>5, <1>6 DEF SenderInv

-----------------------------------------------------------------------------
(* Types.                                                                  *)

\* A new status makes a task row.
LEMMA StatusTypes ==
  ASSUME NEW f \in [Task -> TaskRow], NEW t, NEW s \in TaskStatus
  PROVE  [f EXCEPT ![t].status = s] \in [Task -> TaskRow]
  BY DEF TaskRow

\* A new row makes a task table.
LEMMA RowTypes ==
  ASSUME NEW f \in [Task -> TaskRow], NEW t, NEW r \in TaskRow
  PROVE  [f EXCEPT ![t] = r] \in [Task -> TaskRow]
  OBVIOUS

\* A new state makes a River row.
LEMMA StateTypes ==
  ASSUME NEW f \in [Job -> RiverRow], NEW j, NEW s \in RiverState
  PROVE  [f EXCEPT ![j].state = s] \in [Job -> RiverRow]
  BY DEF RiverRow

\* A new phase makes a worker row.
LEMMA PhaseTypes ==
  ASSUME NEW f \in [Worker -> WorkerRow], NEW w, NEW pc \in Phase
  PROVE  [f EXCEPT ![w].pc = pc] \in [Worker -> WorkerRow]
  BY DEF WorkerRow

\* An error makes a worker row.
LEMMA ErrTypes ==
  ASSUME TypeOK, NEW w \in Worker, Goto(w, "err")
  PROVE  worker' \in [Worker -> WorkerRow]
<1>1. "err" \in Phase
  BY DEF Phase
<1>2. worker \in [Worker -> WorkerRow]
  BY DEF TypeOK
<1>3. QED
  BY <1>1, <1>2, PhaseTypes DEF Goto

\* An answer makes a worker row.
LEMMA AnswerTypes ==
  ASSUME worker \in [Worker -> WorkerRow], NEW w \in Worker, NEW r \in Result,
         worker' = [worker EXCEPT ![w].pc = "answered", ![w].result = r]
  PROVE  worker' \in [Worker -> WorkerRow]
<1>1. "answered" \in Phase
  BY DEF Phase
<1>2. QED
  BY <1>1 DEF WorkerRow

\* Adding to a count leaves a count.
LEMMA CountTypes ==
  ASSUME NEW f \in [Task -> Nat], NEW t, NEW d \in Nat
  PROVE  [f EXCEPT ![t] = @ + d] \in [Task -> Nat]
<1>1. \A u \in Task : f[u] + d \in Nat
  OBVIOUS
<1>2. QED
  BY <1>1

\* Storing a result writes rows, events and phases of the right kinds.
LEMMA ProjectTypes ==
  ASSUME TypeOK, NEW w \in Worker, NEW j \in Job, NEW k \in Attempt,
         NEW s \in Result, ProjectWithin(w, j, k, s)
  PROVE  /\ task' \in [Task -> TaskRow]
         /\ worker' \in [Worker -> WorkerRow]
         /\ results' \subseteq Job \X Attempt \X Result
<1> USE ConstantsAssumption DEF TypeOK, TaskRow, Attempt
<1> DEFINE row == Projected(task[TaskOf(j)], j, k, s)
<1>1. StatusOf(s) \in TaskStatus
  BY DEF StatusOf, Result, TaskStatus
<1>2. TaskOf(j) \in Task => row \in TaskRow
  BY <1>1 DEF Projected
<1>3. task' \in [Task -> TaskRow]
  BY <1>2 DEF ProjectWithin
<1>4. worker' \in [Worker -> WorkerRow]
  <2>1. ReturnOf(s) \in Phase
    BY DEF ReturnOf, Phase
  <2>2. worker \in [Worker -> WorkerRow] /\ worker' = [worker EXCEPT ![w].pc = ReturnOf(s)]
    BY DEF ProjectWithin, Goto
  <2>3. QED
    BY <2>1, <2>2, PhaseTypes
<1>5. results' \subseteq Job \X Attempt \X Result
  BY DEF ProjectWithin
<1>6. QED
  BY <1>3, <1>4, <1>5

\* Every step keeps the types.
LEMMA TypeStep == SenderInv /\ [Next]_vars => TypeOK'
<1> SUFFICES ASSUME SenderInv, [Next]_vars
             PROVE  TypeOK'
  OBVIOUS
<1> USE ConstantsAssumption
    DEF TypeOK, TaskRow, TaskStatus, RiverRow, RiverState, AttemptState,
        Receipt, WorkerRow, Phase, faults
<1>0. TypeOK /\ WorkersKnow /\ JobsKnown
  BY DEF SenderInv
<1>1. ASSUME NEW t \in Task, NEW j \in Job, Enqueue(t, j)
      PROVE  TypeOK'
  <2>1. task' \in [Task -> TaskRow]
    BY <1>0, <1>1, StatusTypes DEF Enqueue
  <2>2. river' \in [Job -> RiverRow]
    BY <1>0, <1>1 DEF Enqueue, InsertJob
  <2>3. links' \in [Task -> Seq(Job)]
    BY <1>0, <1>1 DEF Enqueue, InsertJob
  <2>4. QED
    BY <1>0, <1>1, <2>1, <2>2, <2>3 DEF Enqueue
<1>2. ASSUME NEW t \in Task, NEW key \in Key, Cancel(t, key)
      PROVE  TypeOK'
  <2>1. Latest(t) \in Job
    BY <1>0, <1>2 DEF Cancel, Latest, JobsKnown
  <2>2. task' \in [Task -> TaskRow]
    BY <1>0, <1>2, StatusTypes DEF Cancel
  <2>3. river' \in [Job -> RiverRow]
    BY <1>0, <1>2, StateTypes DEF Cancel
  <2>4. receipts' \in [Key -> Receipt]
    BY <1>0, <1>2, <2>1 DEF Cancel, UseKey
  <2>5. QED
    BY <1>0, <1>2, <2>2, <2>3, <2>4 DEF Cancel
<1>3. ASSUME NEW t \in Task, NEW key \in Key, NEW j \in Job, ManualRetry(t, key, j)
      PROVE  TypeOK'
  BY <1>0, <1>3 DEF ManualRetry, UseKey, InsertJob
<1>4. ASSUME NEW w \in Worker, NEW j \in Job, Fetch(w, j)
      PROVE  TypeOK'
  BY <1>0, <1>4 DEF Fetch, Claim
<1>5. ASSUME NEW w \in Worker, NEW j \in Job, Replay(w, j)
      PROVE  TypeOK'
  BY <1>0, <1>5 DEF Replay, Claim
<1>6. ASSUME NEW j \in Job, Rescue(j)
      PROVE  TypeOK'
  <2>1. AfterFailure(river[j].attempt) \in RiverState
    BY DEF AfterFailure
  <2>2. river' \in [Job -> RiverRow]
    BY <1>0, <1>6, <2>1, StateTypes DEF Rescue
  <2>3. QED
    BY <1>0, <1>6, <2>2 DEF Rescue
<1>7. ASSUME NEW w \in Worker, Reserve(w)
      PROVE  TypeOK'
  <2> DEFINE j == worker[w].job
             k == worker[w].attempt
  <2>1. j \in Job /\ k \in Attempt /\ 1 \in Attempt
    BY <1>0, <1>7 DEF Reserve, WorkersKnow, Knows, Attempt
  <2>2. MarkerAfterUpsert(j) \in AttemptState
    BY <1>0, <2>1 DEF MarkerAfterUpsert
  <2>3. Backfilled(j) \in [Attempt -> AttemptState]
    BY <1>0, <2>1, <2>2 DEF Backfilled
  <2>4. Reserved(Backfilled(j), k) \in [Attempt -> AttemptState]
    BY <2>1, <2>3 DEF Reserved
  <2>5. history' \in [Job -> [Attempt -> AttemptState]] /\ marker' \in [Job -> AttemptState]
    BY <1>0, <1>7, <2>1, <2>2, <2>4 DEF Reserve
  <2>6. worker' \in [Worker -> WorkerRow]
    <3>1. PhaseFor(Reserved(Backfilled(j), k)[k]) \in Phase
      BY DEF PhaseFor
    <3>2. QED
      BY <1>0, <1>7, <3>1, PhaseTypes DEF Reserve, Goto
  <2>7. QED
    BY <1>0, <1>7, <2>5, <2>6 DEF Reserve
<1>8. ASSUME NEW w \in Worker, ReserveConflict(w)
      PROVE  TypeOK'
  <2>1. worker' \in [Worker -> WorkerRow]
    BY <1>0, <1>8, ErrTypes DEF ReserveConflict
  <2>2. QED
    BY <1>0, <1>8, <2>1 DEF ReserveConflict
<1>9. ASSUME NEW w \in Worker, Start(w)
      PROVE  TypeOK'
  <2> DEFINE j == worker[w].job
             k == worker[w].attempt
  <2>1. j \in Job /\ k \in Attempt
    BY <1>0, <1>9 DEF Start, WorkersKnow, Knows
  <2>2. task' \in [Task -> TaskRow]
    <3>1. [status |-> "sending", count |-> k, current |-> j] \in TaskRow
      BY <2>1 DEF Attempt
    <3> HIDE DEF TaskRow
    <3>2. QED
      BY <1>0, <1>9, <3>1, RowTypes DEF Start, MarkTaskSending
  <2>3. history' \in [Job -> [Attempt -> AttemptState]] /\ marker' \in [Job -> AttemptState]
    BY <1>0, <1>9, <2>1 DEF Start
  <2>4. worker' \in [Worker -> WorkerRow]
    <3>1. "dispatch" \in Phase
      OBVIOUS
    <3>2. QED
      BY <1>0, <1>9, <3>1, PhaseTypes DEF Start, Goto
  <2>5. QED
    BY <1>0, <1>9, <2>2, <2>3, <2>4 DEF Start
<1>10. ASSUME NEW w \in Worker, StartLost(w)
      PROVE  TypeOK'
  <2> DEFINE j == worker[w].job
             k == worker[w].attempt
  <2>1. j \in Job /\ k \in Attempt
    BY <1>0, <1>10 DEF StartLost, WorkersKnow, Knows
  <2>2. task' \in [Task -> TaskRow]
    <3>1. [status |-> "sending", count |-> k, current |-> j] \in TaskRow
      BY <2>1 DEF Attempt
    <3> HIDE DEF TaskRow
    <3>2. QED
      BY <1>0, <1>10, <3>1, RowTypes DEF StartLost, MarkTaskSending
  <2>3. PhaseFor(history[j][k]) \in Phase
    BY DEF PhaseFor
  <2>4. worker' \in [Worker -> WorkerRow]
    BY <1>0, <1>10, <2>3, PhaseTypes DEF StartLost, Goto
  <2>5. QED
    BY <1>0, <1>10, <2>2, <2>4 DEF StartLost
<1>11. ASSUME NEW w \in Worker, StartRejected(w)
      PROVE  TypeOK'
  <2>1. worker' \in [Worker -> WorkerRow]
    BY <1>0, <1>11, ErrTypes DEF StartRejected
  <2>2. QED
    BY <1>0, <1>11, <2>1 DEF StartRejected
<1>12. ASSUME NEW w \in Worker, Send(w)
      PROVE  TypeOK'
  <2> DEFINE t == TaskOf(worker[w].job)
  <2>1. PICK r \in Result : \E d \in Deliveries(r) :
          /\ worker' = [worker EXCEPT ![w].pc = "answered", ![w].result = r]
          /\ delivered' = [delivered EXCEPT ![t] = @ + d]
    BY <1>12 DEF Send
  <2>2. PICK d \in {0, 1} : delivered' = [delivered EXCEPT ![t] = @ + d]
    BY <2>1 DEF Deliveries
  <2>3. worker' \in [Worker -> WorkerRow]
    <3>1. worker \in [Worker -> WorkerRow]
      BY <1>0
    <3> HIDE DEF TypeOK, WorkerRow
    <3>2. QED
      BY <2>1, <3>1, AnswerTypes
  <2>4. delivered' \in [Task -> Nat]
    BY <1>0, <2>2, CountTypes
  <2>5. QED
    BY <1>0, <1>12, <2>3, <2>4 DEF Send
<1>13. ASSUME NEW w \in Worker, Complete(w)
      PROVE  TypeOK'
  <2> DEFINE j == worker[w].job
             k == worker[w].attempt
             s == Settled(history[j][k], Verdict(w))
  <2>1. j \in Job /\ k \in Attempt /\ s \in Result
    BY <1>0, <1>13 DEF Complete, Completable, Terminal, WorkersKnow, Knows
  <2>2. history' \in [Job -> [Attempt -> AttemptState]] /\ marker' \in [Job -> AttemptState]
    BY <1>0, <1>13, <2>1 DEF Complete
  <2>3. /\ task' \in [Task -> TaskRow]
        /\ worker' \in [Worker -> WorkerRow]
        /\ results' \subseteq Job \X Attempt \X Result
    BY <1>0, <1>13, <2>1, ProjectTypes DEF Complete
  <2>4. QED
    BY <1>0, <1>13, <2>2, <2>3 DEF Complete
<1>14. ASSUME NEW w \in Worker, Project(w)
      PROVE  TypeOK'
  <2> DEFINE j == worker[w].job
             k == worker[w].attempt
  <2>1. j \in Job /\ k \in Attempt /\ history[j][k] \in Result
    BY <1>0, <1>14 DEF Project, WorkersKnow, Knows, RowOf
  <2>2. /\ task' \in [Task -> TaskRow]
        /\ worker' \in [Worker -> WorkerRow]
        /\ results' \subseteq Job \X Attempt \X Result
    BY <1>0, <1>14, <2>1, ProjectTypes DEF Project
  <2>3. QED
    BY <1>0, <1>14, <2>2 DEF Project
<1>15. ASSUME NEW w \in Worker, SettleRejected(w)
      PROVE  TypeOK'
  <2>1. worker' \in [Worker -> WorkerRow]
    BY <1>0, <1>15, ErrTypes DEF SettleRejected
  <2>2. QED
    BY <1>0, <1>15, <2>1 DEF SettleRejected
<1>16. ASSUME NEW w \in Worker, Finish(w)
      PROVE  TypeOK'
  <2> DEFINE next == IF worker[w].pc = "ok" THEN "completed"
                     ELSE AfterFailure(worker[w].attempt)
  <2>1. next \in RiverState
    BY DEF AfterFailure
  <2>2. river' \in [Job -> RiverRow]
    BY <1>0, <1>16, <2>1, StateTypes DEF Finish
  <2>3. worker' \in [Worker -> WorkerRow]
    BY <1>0, <1>16 DEF Finish, Idle
  <2>4. QED
    BY <1>0, <1>16, <2>2, <2>3 DEF Finish
<1>17. ASSUME NEW w \in Worker, Crash(w)
      PROVE  TypeOK'
  BY <1>0, <1>17 DEF Crash, Idle
<1>18. ASSUME NEW w \in Worker, Fail(w)
      PROVE  TypeOK'
  <2>1. worker' \in [Worker -> WorkerRow]
    BY <1>0, <1>18, ErrTypes DEF Fail
  <2>2. rollbacks' \in 0..MaxRollbacks
    BY <1>0, <1>18 DEF Fail
  <2>3. QED
    BY <1>0, <1>18, <2>1, <2>2 DEF Fail
<1>19. CASE UNCHANGED vars
  BY <1>0, <1>19 DEF vars
<1>20. QED
  BY <1>1, <1>2, <1>3, <1>4, <1>5, <1>6, <1>7, <1>8, <1>9, <1>10, <1>11,
     <1>12, <1>13, <1>14, <1>15, <1>16, <1>17, <1>18, <1>19 DEF Next, WorkerStep

-----------------------------------------------------------------------------
(* What the invariant says of a task's attempt.                            *)

\* The attempt a task shows exists and has been dispatched.
LEMMA CurrentKnown ==
  ASSUME SenderInv, NEW t \in Task, task[t].current # NoJob
  PROVE  /\ task[t].current \in Job
         /\ task[t].count \in Attempt
         /\ history[task[t].current][task[t].count] \in Result \union {"dispatching"}
         /\ Exists(task[t].current)
<1> USE ConstantsAssumption DEF SenderInv
<1> DEFINE j == task[t].current
           k == task[t].count
<1>1. j \in Job /\ k \in Attempt
  BY DEF TypeOK, TaskRow, TaskShowsAttempt, Attempt
<1>2. history[j][k] \in AttemptState /\ task[t].status \in TaskStatus
  BY <1>1 DEF TypeOK, TaskRow
<1>3. history[j][k] \notin {"absent", "reserved"}
  BY <1>2 DEF TaskShowsAttempt, StatusOf, TaskStatus, JobsKnown
<1>4. Exists(j)
  BY <1>1, <1>3 DEF JobsKnown
<1>5. QED
  BY <1>1, <1>2, <1>3, <1>4 DEF AttemptState

\* The task of an open or given-up attempt of a live worker is sending or
\* outcome_unknown.
LEMMA LiveStatus ==
  ASSUME SenderInv, NEW w \in Worker, Live(w)
  PROVE  /\ worker[w].job \in Job
         /\ TaskOf(worker[w].job) \in Task
         /\ Shows(worker[w].job, worker[w].attempt)
         /\ task[TaskOf(worker[w].job)].status \in {"sending", "outcome_unknown"}
<1> USE ConstantsAssumption DEF SenderInv
<1> DEFINE j == worker[w].job
           k == worker[w].attempt
<1>1. j \in Job /\ k \in Attempt /\ TaskOf(j) \in Task
  BY DEF WorkersKnow, Knows, Live, JobsKnown, TaskOf
<1>2. Shows(j, k) /\ RowOf(w) \in {"dispatching", "outcome_unknown"}
  BY DEF LiveShown
<1>3. task[TaskOf(j)].current # NoJob
  BY <1>1, <1>2 DEF Shows
<1>4. QED
  BY <1>1, <1>2, <1>3 DEF TaskShowsAttempt, Shows, RowOf, StatusOf

\* The task of an open dispatch is sending it.
LEMMA OpenStatus ==
  ASSUME SenderInv, NEW j \in Job, NEW k \in Attempt, history[j][k] = "dispatching"
  PROVE  /\ TaskOf(j) \in Task
         /\ task[TaskOf(j)].status = "sending"
         /\ task[TaskOf(j)] = [status |-> "sending", count |-> k, current |-> j]
<1> USE ConstantsAssumption DEF SenderInv
<1>1. TaskOf(j) \in Task /\ Shows(j, k)
  BY DEF JobsKnown, TaskOf, OpenShown
<1>2. task[TaskOf(j)] \in TaskRow
  BY <1>1 DEF TypeOK
<1>3. task[TaskOf(j)].status = "sending"
  BY <1>1 DEF TaskShowsAttempt, Shows
<1>4. QED
  BY <1>1, <1>2, <1>3 DEF TaskRow, Shows

\* Work returns ok or err.
LEMMA Returns == \A s : ReturnOf(s) \in {"ok", "err"}
  BY DEF ReturnOf

-----------------------------------------------------------------------------
(* Steps that write no task and no attempt.                                *)

\* A worker's phase may change to one that is not live, and River's states
\* may change, as long as no job appears or disappears.
LEMMA QuietKeeps ==
  ASSUME SenderInv, TypeOK',
         UNCHANGED <<task, links, marker, history, results, delivered>>,
         \A j \in Job :
           /\ river'[j].task = river[j].task
           /\ river'[j].state # "absent" <=> river[j].state # "absent"
           /\ river'[j].state = "running" => river'[j].attempt \in Attempt,
         \A w \in Worker : worker'[w] = worker[w] \/ (~Live(w)' /\ Knows(w)')
  PROVE  SenderInv'
<1> USE DEF SenderInv
<1>1. JobsKnown'
  BY DEF JobsKnown, Exists
<1>2. RowsChained' /\ MarkerShowsLast' /\ ResultEvents'
  BY DEF RowsChained, MarkerShowsLast, ResultEvents
<1>3. \A j \in Job : TaskOf(j)' = TaskOf(j) /\ (Exists(j)' <=> Exists(j))
  BY DEF TaskOf, Exists
<1>4. TaskShowsAttempt'
  BY <1>3 DEF TaskShowsAttempt, TypeOK, TaskRow
<1>5. OpenShown'
  BY <1>3 DEF OpenShown, Shows
<1>6. WorkersKnow'
  BY <1>3 DEF WorkersKnow, Knows, RowOf
<1>7. \A w \in Worker : Live(w)' => Live(w) /\ worker'[w] = worker[w] /\ worker[w].job \in Job
  BY DEF Live, WorkersKnow, Knows
<1>8. LiveShown'
  BY <1>3, <1>7 DEF LiveShown, RowOf, Shows
<1>9. OneLive'
  BY <1>7 DEF OneLive
<1>10. DeliveredShown'
  BY <1>3, <1>7 DEF DeliveredShown, Live
<1>11. QED
  BY <1>1, <1>2, <1>4, <1>5, <1>6, <1>8, <1>9, <1>10

\* River's own steps, failed transactions and lost races are such steps.
LEMMA QuietSteps ==
  ASSUME SenderInv, TypeOK', NEW w \in Worker,
         \/ ReserveConflict(w) \/ StartRejected(w) \/ SettleRejected(w)
         \/ Finish(w) \/ Crash(w) \/ Fail(w)
         \/ \E j \in Job : Fetch(w, j) \/ Replay(w, j)
  PROVE  SenderInv'
<1> USE ConstantsAssumption
<1>0. TypeOK /\ JobsKnown /\ Knows(w)
  BY DEF SenderInv, WorkersKnow
<1>1. CASE ReserveConflict(w) \/ StartRejected(w) \/ SettleRejected(w) \/ Crash(w) \/ Fail(w)
  <2>1. UNCHANGED <<task, links, river, marker, history, results, delivered>>
    BY <1>1 DEF ReserveConflict, StartRejected, SettleRejected, Crash, Fail
  <2>2. worker[w].pc # "idle"
    BY <1>1 DEF ReserveConflict, StartRejected, SettleRejected, Crash, Fail
  <2>3. \/ worker' = [worker EXCEPT ![w].pc = "err"]
        \/ worker' = [worker EXCEPT ![w] = Idle]
    BY <1>1 DEF ReserveConflict, StartRejected, SettleRejected, Crash, Fail, Goto
  <2>4. \A v \in Worker : worker'[v] = worker[v] \/ (~Live(v)' /\ Knows(v)')
    <3>1. \A v \in Worker \ {w} : worker'[v] = worker[v]
      BY <1>0, <2>3 DEF TypeOK
    <3>2. \/ worker'[w].pc = "err" /\ worker'[w].job = worker[w].job
                                  /\ worker'[w].attempt = worker[w].attempt
          \/ worker'[w].pc = "idle"
      BY <1>0, <2>3 DEF TypeOK, WorkerRow, Idle
    <3>3. ~Live(w)' /\ Knows(w)'
      BY <1>0, <2>1, <2>2, <3>2 DEF Live, Knows, Exists
    <3>4. QED
      BY <3>1, <3>3
  <2>5. \A j \in Job : river[j].state = "running" => river[j].attempt \in Attempt
    BY <1>0 DEF JobsKnown
  <2>6. QED
    BY <2>1, <2>4, <2>5, QuietKeeps
<1>2. CASE Finish(w)
  <2> DEFINE i == worker[w].job
             next == IF worker[w].pc = "ok" THEN "completed"
                     ELSE AfterFailure(worker[w].attempt)
  <2>1. next \notin {"absent", "running"}
    BY DEF AfterFailure
  <2>2. \A j \in Job :
          /\ river'[j].task = river[j].task
          /\ river'[j].state # "absent" <=> river[j].state # "absent"
          /\ river'[j].state = "running" => river'[j].attempt \in Attempt
    BY <1>0, <1>2, <2>1 DEF Finish, TypeOK, RiverRow, JobsKnown
  <2>3. \A v \in Worker : worker'[v] = worker[v] \/ (~Live(v)' /\ Knows(v)')
    BY <1>0, <1>2 DEF Finish, TypeOK, WorkerRow, Live, Knows, Idle
  <2>4. QED
    BY <1>2, <2>2, <2>3, QuietKeeps DEF Finish
<1>3. CASE \E j \in Job : Fetch(w, j) \/ Replay(w, j)
  <2>1. PICK j \in Job : Fetch(w, j) \/ Replay(w, j)
    BY <1>3
  <2> DEFINE k == worker'[w].attempt
  <2>2. worker' = [worker EXCEPT ![w] =
                     [pc |-> "claimed", job |-> j, attempt |-> k, result |-> "none"]]
    BY <1>0, <2>1 DEF Fetch, Replay, Claim, TypeOK
  <2>3. \A i \in Job :
          /\ river'[i].task = river[i].task
          /\ river'[i].state # "absent" <=> river[i].state # "absent"
          /\ river'[i].state = "running" => river'[i].attempt \in Attempt
    BY <1>0, <2>1 DEF Fetch, Replay, TypeOK, RiverRow, JobsKnown, Attempt
  <2>4. k \in Attempt /\ river'[j].state # "absent"
    BY <1>0, <2>1 DEF Fetch, Replay, Claim, TypeOK, RiverRow, JobsKnown, Attempt
  <2>5. \A v \in Worker : worker'[v] = worker[v] \/ (~Live(v)' /\ Knows(v)')
    <3> HIDE DEF k
    <3>1. QED
      BY <1>0, <2>2, <2>4 DEF TypeOK, WorkerRow, Live, Knows, Exists
  <2>6. UNCHANGED <<task, links, marker, history, results, delivered>>
    BY <2>1 DEF Fetch, Replay
  <2>7. QED
    BY <2>3, <2>5, <2>6, QuietKeeps
<1>4. QED
  BY <1>1, <1>2, <1>3

-----------------------------------------------------------------------------
(* Enqueue and the operators' controls.                                    *)

\* A task whose row is not open gets a fresh job: nothing is recorded about
\* the job, and no attempt of an older job is open or live.
LEMMA InsertKeeps ==
  ASSUME SenderInv, TypeOK', NEW t \in Task, NEW j \in Job, InsertJob(t, j),
         task[t].status \in {"absent", "final_failed", "cancelled"},
         task' = [task EXCEPT ![t] = [status |-> "pending", count |-> task'[t].count,
                                      current |-> NoJob]],
         UNCHANGED <<marker, history, results, worker, delivered>>
  PROVE  SenderInv'
<1> USE ConstantsAssumption DEF SenderInv
<1>1. /\ ~Exists(j)
      /\ \A k \in Attempt : history[j][k] = "absent"
      /\ \A w \in Worker : worker[w].pc # "idle" => worker[w].job \in Job \ {j}
  BY DEF InsertJob, JobsKnown, Exists, WorkersKnow, Knows
<1>2. /\ \A i \in Job \ {j} : TaskOf(i)' = TaskOf(i) /\ (Exists(i)' <=> Exists(i))
      /\ TaskOf(j)' = t /\ Exists(j)'
  BY DEF InsertJob, TaskOf, Exists, TypeOK
<1>3. \A i \in Job : \A k \in Attempt :
        history[i][k] = "dispatching" => i # j /\ TaskOf(i) # t
  <2> SUFFICES ASSUME NEW i \in Job, NEW k \in Attempt, history[i][k] = "dispatching"
               PROVE  i # j /\ TaskOf(i) # t
    OBVIOUS
  <2>1. task[TaskOf(i)].status = "sending"
    BY OpenStatus
  <2>2. QED
    BY <1>1, <2>1
<1>4. \A w \in Worker : Live(w) => worker[w].job \in Job \ {j} /\ TaskOf(worker[w].job) # t
  BY <1>1, LiveStatus DEF Live
<1>5. \A u \in Task : task'[u].current # NoJob =>
        /\ u # t /\ task'[u] = task[u] /\ task[u].current \in Job \ {j}
  <2> SUFFICES ASSUME NEW u \in Task, task'[u].current # NoJob
               PROVE  u # t /\ task'[u] = task[u] /\ task[u].current \in Job \ {j}
    OBVIOUS
  <2>1. u # t /\ task'[u] = task[u]
    BY DEF TypeOK
  <2>2. task[u].current \in Job /\ Exists(task[u].current)
    BY <2>1, CurrentKnown
  <2>3. QED
    BY <1>1, <2>1, <2>2
<1>6. /\ task'[t].status = "pending" /\ task'[t].current = NoJob
      /\ \A u \in Task \ {t} : task'[u] = task[u]
  BY DEF TypeOK
<1>7. JobsKnown'
  <2>1. links'[t] # <<>> /\ \A u \in Task \ {t} : links'[u] = links[u]
    BY DEF InsertJob, TypeOK
  <2>2. \A i \in Job : Exists(i)' => river'[i].task \in Task
    BY <1>2 DEF JobsKnown, TaskOf
  <2>3. \A i \in Job : river'[i].state = "running" => river'[i].attempt \in Attempt
    BY DEF JobsKnown, InsertJob, TypeOK, RiverRow
  <2>4. \A i \in Job : \A k \in Attempt : history'[i][k] # "absent" => Exists(i)'
    BY <1>1, <1>2 DEF JobsKnown
  <2>5. QED
    BY <1>6, <2>1, <2>2, <2>3, <2>4 DEF JobsKnown
<1>8. RowsChained' /\ MarkerShowsLast' /\ ResultEvents'
  BY DEF RowsChained, MarkerShowsLast, ResultEvents
<1>9. TaskShowsAttempt'
  BY <1>2, <1>5 DEF TaskShowsAttempt
<1>10. OpenShown'
  BY <1>2, <1>3, <1>6 DEF OpenShown, Shows, JobsKnown, TaskOf
<1>11. WorkersKnow'
  BY <1>1, <1>2 DEF WorkersKnow, Knows, RowOf
<1>12. LiveShown'
  <2>1. \A w \in Worker : Live(w) => TaskOf(worker[w].job) \in Task \ {t}
    BY <1>4, LiveStatus
  <2>2. QED
    BY <1>2, <1>4, <1>6, <2>1 DEF LiveShown, Live, RowOf, Shows
<1>13. OneLive'
  BY DEF OneLive, Live
<1>14. DeliveredShown'
  BY <1>2, <1>4, <1>6 DEF DeliveredShown, Live
<1>15. QED
  BY <1>7, <1>8, <1>9, <1>10, <1>11, <1>12, <1>13, <1>14

\* EnqueueOne and ManualRetry insert such a job.
LEMMA InsertSteps ==
  ASSUME SenderInv, TypeOK', NEW t \in Task, NEW j \in Job,
         Enqueue(t, j) \/ \E key \in Key : ManualRetry(t, key, j)
  PROVE  SenderInv'
<1>0. TypeOK /\ JobsKnown
  BY DEF SenderInv
<1>1. CASE Enqueue(t, j)
  <2>1. task[t].status = "absent" /\ task[t].current = NoJob
    BY <1>0, <1>1 DEF Enqueue, JobsKnown
  <2>2. task' = [task EXCEPT ![t] = [status |-> "pending", count |-> task'[t].count,
                                     current |-> NoJob]]
    <3>1. task[t] \in TaskRow
      BY <1>0 DEF TypeOK
    <3>2. [task[t] EXCEPT !.status = "pending"] =
            [status |-> "pending", count |-> task[t].count, current |-> NoJob]
      BY <2>1, <3>1 DEF TaskRow
    <3>3. task' = [task EXCEPT ![t].status = "pending"] /\ task \in [Task -> TaskRow]
      BY <1>0, <1>1 DEF Enqueue, TypeOK
    <3>4. task'[t].count = task[t].count
      BY <3>1, <3>3 DEF TaskRow
    <3>5. QED
      BY <3>2, <3>3, <3>4
  <2>3. QED
    BY <1>1, <2>1, <2>2, InsertKeeps DEF Enqueue
<1>2. CASE \E key \in Key : ManualRetry(t, key, j)
  <2>1. PICK key \in Key : ManualRetry(t, key, j)
    BY <1>2
  <2>2. task' = [task EXCEPT ![t] = [status |-> "pending", count |-> task'[t].count,
                                     current |-> NoJob]]
    BY <1>0, <2>1 DEF ManualRetry, TypeOK, TaskRow
  <2>3. QED
    BY <2>1, <2>2, InsertKeeps DEF ManualRetry, ManuallyRetryable
<1>3. QED
  BY <1>1, <1>2

\* Cancel closes a task that has shown no attempt yet.
LEMMA CancelKeeps ==
  ASSUME SenderInv, TypeOK', NEW t \in Task, NEW key \in Key, Cancel(t, key)
  PROVE  SenderInv'
<1> USE ConstantsAssumption DEF SenderInv
<1>1. task[t].current = NoJob
  <2> SUFFICES ASSUME task[t].current # NoJob
               PROVE  FALSE
    OBVIOUS
  <2>1. task[t].status = "pending"
    BY DEF Cancel
  <2>2. QED
    BY <2>1, CurrentKnown DEF TaskShowsAttempt, StatusOf, Result
<1>2. /\ task'[t].status = "cancelled"
      /\ \A u \in Task : task'[u].current = task[u].current /\ task'[u].count = task[u].count
      /\ \A u \in Task \ {t} : task'[u] = task[u]
  BY DEF Cancel, TypeOK, TaskRow
<1>3. \A j \in Job :
        /\ river'[j].task = river[j].task
        /\ river'[j].state # "absent" <=> river[j].state # "absent"
        /\ river'[j].state = "running" => river[j].state = "running" /\ river'[j] = river[j]
  BY DEF Cancel, Deletable, TypeOK, RiverRow
<1>4. \A j \in Job : TaskOf(j)' = TaskOf(j) /\ (Exists(j)' <=> Exists(j))
  BY <1>3 DEF TaskOf, Exists
<1>5. UNCHANGED <<links, marker, history, results, worker, delivered>>
  BY DEF Cancel
<1>6. JobsKnown'
  BY <1>1, <1>2, <1>3, <1>5 DEF JobsKnown, Exists, Cancel
<1>7. RowsChained' /\ MarkerShowsLast' /\ ResultEvents'
  BY <1>5 DEF RowsChained, MarkerShowsLast, ResultEvents
<1>8. TaskShowsAttempt'
  <2>1. \A u \in Task : task'[u].current # NoJob =>
          /\ u # t /\ task'[u] = task[u] /\ task[u].current \in Job
    BY <1>1, <1>2 DEF TypeOK, TaskRow
  <2>2. QED
    BY <1>4, <1>5, <2>1 DEF TaskShowsAttempt
<1>9. OpenShown'
  BY <1>2, <1>4, <1>5 DEF OpenShown, Shows, JobsKnown, TaskOf
<1>10. WorkersKnow'
  BY <1>4, <1>5 DEF WorkersKnow, Knows, RowOf
<1>11. LiveShown'
  BY <1>2, <1>4, <1>5, LiveStatus DEF LiveShown, Live, RowOf, Shows
<1>12. OneLive'
  BY <1>5 DEF OneLive, Live
<1>13. DeliveredShown'
  <2>1. \A w \in Worker : Live(w) => TaskOf(worker[w].job)' = TaskOf(worker[w].job)
    BY <1>4, <1>5, LiveStatus
  <2>2. delivered[t] # 1
    BY DEF DeliveredShown, Cancel
  <2>3. QED
    BY <1>2, <1>5, <2>1, <2>2 DEF DeliveredShown, Live
<1>14. QED
  BY <1>6, <1>7, <1>8, <1>9, <1>10, <1>11, <1>12, <1>13

-----------------------------------------------------------------------------
(* The worker's transactions.                                              *)

\* What ReserveSendAttempt writes: nothing for an attempt that has a row, and
\* otherwise one reserved row, the first of its job or behind a clear refusal.
LEMMA ReserveEffect ==
  ASSUME SenderInv, NEW w \in Worker, Reserve(w),
         NEW j, j = worker[w].job, NEW k, k = worker[w].attempt
  PROVE  /\ j \in Job /\ k \in Attempt
         /\ \/ history[j][k] # "absent" /\ UNCHANGED <<marker, history>>
            \/ /\ history[j][k] = "absent"
               /\ history' = [history EXCEPT ![j][k] = "reserved"]
               /\ \/ /\ k = 1
                     /\ marker' = [marker EXCEPT ![j] = "reserved"]
                     /\ \A m \in Attempt : history[j][m] = "absent"
                  \/ /\ k > 1
                     /\ UNCHANGED marker
                     /\ history[j][k - 1] = "retryable_failed"
<1> USE ConstantsAssumption DEF SenderInv
<1>1. /\ j \in Job /\ k \in Attempt /\ 1 \in Attempt
      /\ k > 1 => k - 1 \in Attempt
  BY DEF WorkersKnow, Knows, Reserve, Attempt
<1>2. /\ marker' = [marker EXCEPT ![j] = MarkerAfterUpsert(j)]
      /\ history' = [history EXCEPT ![j] = Reserved(Backfilled(j), k)]
      /\ MayReserve(Backfilled(j), k)
  BY DEF Reserve
<1>3. /\ history \in [Job -> [Attempt -> AttemptState]]
      /\ marker \in [Job -> AttemptState]
      /\ history[j] \in [Attempt -> AttemptState]
  BY <1>1 DEF TypeOK
<1>4. CASE marker[j] = "absent"
  <2>1. history[j][1] = "absent" /\ MarkerAfterUpsert(j) = "reserved"
    BY <1>1, <1>4 DEF MarkerShowsLast, MarkerAfterUpsert
  <2>2. \A m \in Attempt : history[j][m] = "absent"
    BY <1>1, <2>1 DEF RowsChained, Attempt
  <2>3. Backfilled(j) = [history[j] EXCEPT ![1] = "reserved"]
    BY <2>1 DEF Backfilled
  <2>4. k = 1
    <3>1. k > 1 => Backfilled(j)[k - 1] \in {"reserved", "absent"}
      BY <1>1, <1>3, <2>2, <2>3
    <3>2. k > 1 => Backfilled(j)[k - 1] = "retryable_failed"
      BY <1>2 DEF MayReserve
    <3>3. QED
      BY <1>1, <3>1, <3>2 DEF Attempt
  <2>5. Reserved(Backfilled(j), k) = [history[j] EXCEPT ![k] = "reserved"]
    BY <1>1, <1>3, <2>3, <2>4 DEF Reserved
  <2>6. QED
    BY <1>1, <1>2, <1>3, <2>1, <2>2, <2>4, <2>5
<1>5. CASE marker[j] # "absent"
  <2>1. history[j][1] # "absent" /\ MarkerAfterUpsert(j) = marker[j]
    BY <1>1, <1>5 DEF MarkerShowsLast, MarkerAfterUpsert
  <2>2. Backfilled(j) = history[j]
    BY <2>1 DEF Backfilled
  <2>3. UNCHANGED marker
    BY <1>1, <1>2, <1>3, <2>1
  <2>4. CASE history[j][k] # "absent"
    BY <1>1, <1>2, <1>3, <2>2, <2>3, <2>4 DEF Reserved
  <2>5. CASE history[j][k] = "absent"
    <3>1. k > 1
      BY <1>1, <2>1, <2>5 DEF Attempt
    <3>2. history[j][k - 1] = "retryable_failed"
      BY <1>2, <2>2, <3>1 DEF MayReserve
    <3>3. Reserved(Backfilled(j), k) = [history[j] EXCEPT ![k] = "reserved"]
      BY <2>2, <2>5 DEF Reserved
    <3>4. QED
      BY <1>1, <1>2, <1>3, <2>3, <2>5, <3>1, <3>2, <3>3
  <2>6. QED
    BY <2>4, <2>5
<1>6. QED
  BY <1>4, <1>5

\* A reserved row extends the chain of refusals and changes nothing that a
\* task, an event or another worker shows.
LEMMA ReserveKeeps ==
  ASSUME SenderInv, TypeOK', NEW w \in Worker, Reserve(w)
  PROVE  SenderInv'
<1> USE ConstantsAssumption DEF SenderInv
<1> DEFINE j == worker[w].job
           k == worker[w].attempt
<1>1. j \in Job /\ k \in Attempt /\ Exists(j)
  BY DEF WorkersKnow, Knows, Reserve
<1>2. UNCHANGED <<task, links, river, results, delivered>>
  BY DEF Reserve
<1>3. \A v \in Worker \ {w} : worker'[v] = worker[v]
  BY DEF Reserve, Goto, TypeOK
<1>4. /\ worker'[w].job = j /\ worker'[w].attempt = k
      /\ worker'[w].pc = PhaseFor(history'[j][k])
  <2>1. history'[j][k] = Reserved(Backfilled(j), k)[k]
    BY <1>1 DEF Reserve, TypeOK
  <2>2. worker' = [worker EXCEPT ![w].pc = PhaseFor(history'[j][k])]
    BY <2>1 DEF Reserve, Goto
  <2>3. QED
    BY <2>2 DEF TypeOK, WorkerRow
<1>5. history'[j][k] # "absent"
  <2>1. \/ history[j][k] # "absent" /\ UNCHANGED history
        \/ history' = [history EXCEPT ![j][k] = "reserved"]
    BY ReserveEffect
  <2>2. QED
    BY <1>1, <2>1 DEF TypeOK
<1>6. ~Live(w)' /\ Knows(w)'
  <2>1. history'[j][k] \in AttemptState
    BY <1>1 DEF TypeOK
  <2>2. QED
    BY <1>1, <1>2, <1>4, <1>5, <2>1
       DEF PhaseFor, Live, Knows, Exists, RowOf, AttemptState
<1>7. CASE UNCHANGED <<marker, history>>
  <2>1. \A v \in Worker : worker'[v] = worker[v] \/ (~Live(v)' /\ Knows(v)')
    BY <1>3, <1>6
  <2>2. \A i \in Job : river[i].state = "running" => river[i].attempt \in Attempt
    BY DEF JobsKnown
  <2>3. QED
    BY <1>2, <1>7, <2>1, <2>2, QuietKeeps
<1>8. CASE /\ history[j][k] = "absent"
           /\ history' = [history EXCEPT ![j][k] = "reserved"]
           /\ \/ /\ k = 1
                 /\ marker' = [marker EXCEPT ![j] = "reserved"]
                 /\ \A m \in Attempt : history[j][m] = "absent"
              \/ /\ k > 1
                 /\ UNCHANGED marker
                 /\ history[j][k - 1] = "retryable_failed"
  <2> HIDE DEF j, k
  <2>1. \A i \in Job : \A m \in Attempt :
          history'[i][m] = IF i = j /\ m = k THEN "reserved" ELSE history[i][m]
    BY <1>1, <1>8 DEF TypeOK
  <2>2. \A i \in Job : marker'[i] = marker[i] \/ (i = j /\ k = 1 /\ marker[i] = "absent" /\ marker'[i] = "reserved")
    BY <1>1, <1>8 DEF TypeOK, MarkerShowsLast
  <2>3. JobsKnown'
    BY <1>1, <1>2, <2>1 DEF JobsKnown, Exists
  <2>4. \A m \in Attempt : /\ m > k => history[j][m] = "absent"
                           /\ m < k => history[j][m] = "retryable_failed"
    <3>1. \A m \in Attempt : m > k => history[j][m] = "absent"
      BY <1>1, <1>8 DEF RowsChained
    <3>2. \A m \in Attempt : m < k => m = k - 1 \/ m < k - 1
      BY <1>1 DEF Attempt
    <3>3. k > 1 => k - 1 \in Attempt
      BY <1>1 DEF Attempt
    <3>4. \A m \in Attempt : m < k => k > 1
      BY <1>1 DEF Attempt
    <3>5. \A m \in Attempt : m < k => history[j][m] = "retryable_failed"
      BY <1>1, <1>8, <3>2, <3>3, <3>4 DEF RowsChained
    <3>6. QED
      BY <3>1, <3>5
  <2>5. RowsChained'
    <3> SUFFICES ASSUME NEW i \in Job, NEW n \in Attempt, NEW m \in Attempt,
                        m < n, history'[i][n] # "absent"
                 PROVE  history'[i][m] = "retryable_failed"
      BY DEF RowsChained
    <3>1. CASE i # j
      BY <2>1, <3>1 DEF RowsChained
    <3>2. CASE i = j
      <4>1. n = k \/ n < k
        BY <1>1, <2>1, <2>4, <3>2 DEF Attempt
      <4>2. m < k
        BY <1>1, <4>1 DEF Attempt
      <4>3. QED
        BY <1>1, <2>1, <2>4, <3>2, <4>2 DEF Attempt
    <3>3. QED
      BY <3>1, <3>2
  <2>6. MarkerShowsLast'
    <3> SUFFICES ASSUME NEW i \in Job
                 PROVE  /\ marker'[i] = "absent" <=> history'[i][1] = "absent"
                        /\ \A n \in Attempt :
                             /\ history'[i][n] # "absent"
                             /\ n < MaxAttempts => history'[i][n + 1] = "absent"
                             => marker'[i] = MarkerOf(history'[i][n], n)
      BY DEF MarkerShowsLast
    <3>0. 1 \in Attempt
      BY DEF Attempt
    <3>1. CASE i # j
      <4>1. \A n \in Attempt : n < MaxAttempts => n + 1 \in Attempt
        BY DEF Attempt
      <4>2. QED
        BY <2>1, <2>2, <3>0, <3>1, <4>1 DEF MarkerShowsLast
    <3>2. CASE i = j /\ k = 1
      <4>1. marker'[j] = "reserved"
        BY <1>1, <1>8, <3>2 DEF TypeOK
      <4>2. \A n \in Attempt : history'[j][n] # "absent" => n = 1
        BY <1>1, <2>1, <2>4, <3>2 DEF Attempt
      <4>3. QED
        BY <1>1, <2>1, <3>0, <3>2, <4>1, <4>2 DEF MarkerOf
    <3>3. CASE i = j /\ k > 1
      <4>1. k - 1 \in Attempt /\ (k - 1) + 1 = k
        BY <1>1, <3>3 DEF Attempt
      <4>2. marker[j] = "retryable_failed" /\ marker'[j] = marker[j]
        <5>1. history[j][k - 1] = "retryable_failed" /\ UNCHANGED marker
          BY <1>8, <3>3
        <5>2. marker[j] = MarkerOf(history[j][k - 1], k - 1)
          BY <1>1, <1>8, <4>1, <5>1 DEF MarkerShowsLast
        <5>3. QED
          BY <5>1, <5>2 DEF MarkerOf
      <4>3. history'[j][1] = "retryable_failed"
        BY <1>1, <2>1, <2>4, <3>0, <3>3
      <4>4. \A n \in Attempt :
              /\ history'[j][n] # "absent"
              /\ n < MaxAttempts => history'[j][n + 1] = "absent"
              => n = k
        <5> SUFFICES ASSUME NEW n \in Attempt, n # k, history'[j][n] # "absent"
                     PROVE  n < MaxAttempts /\ history'[j][n + 1] # "absent"
          OBVIOUS
        <5>1. n < k
          BY <1>1, <2>1, <2>4 DEF Attempt
        <5>2. n < MaxAttempts /\ n + 1 \in Attempt /\ (n + 1 = k \/ n + 1 < k)
          BY <1>1, <5>1 DEF Attempt
        <5>3. QED
          BY <1>1, <2>1, <2>4, <5>2
      <4>5. MarkerOf("reserved", k) = "retryable_failed"
        BY <3>3 DEF MarkerOf
      <4>6. QED
        BY <1>1, <2>1, <3>3, <4>2, <4>3, <4>4, <4>5
    <3>4. QED
      BY <1>1, <3>1, <3>2, <3>3 DEF Attempt
  <2>7. \A t \in Task : task[t].current # NoJob =>
          /\ task[t].current \in Job /\ task[t].count \in Attempt
          /\ history'[task[t].current][task[t].count] = history[task[t].current][task[t].count]
          /\ marker'[task[t].current] = marker[task[t].current]
    <3> SUFFICES ASSUME NEW t \in Task, task[t].current # NoJob
                 PROVE  /\ task[t].current \in Job /\ task[t].count \in Attempt
                        /\ history'[task[t].current][task[t].count] = history[task[t].current][task[t].count]
                        /\ marker'[task[t].current] = marker[task[t].current]
      OBVIOUS
    <3> DEFINE i == task[t].current
               c == task[t].count
    <3>1. i \in Job /\ c \in Attempt /\ history[i][c] \in Result \union {"dispatching"}
      BY CurrentKnown
    <3>2. history[i][c] # "absent" /\ marker[i] # "absent"
      BY <3>1 DEF Result, TaskShowsAttempt
    <3>3. QED
      BY <1>8, <2>1, <2>2, <3>1, <3>2
  <2>8. TaskShowsAttempt'
    BY <1>2, <2>7 DEF TaskShowsAttempt, TaskOf
  <2>9. OpenShown'
    BY <1>2, <2>1 DEF OpenShown, Shows, TaskOf
  <2>10. ResultEvents'
    <3>1. history[j][k] \notin Result /\ "reserved" \notin Result
      BY <1>8 DEF Result
    <3> SUFFICES ASSUME NEW i \in Job, NEW m \in Attempt, NEW s \in Result
                 PROVE  <<i, m, s>> \in results <=> history'[i][m] = s
      BY <1>2 DEF ResultEvents
    <3>2. history'[i][m] = s <=> history[i][m] = s
      BY <2>1, <3>1
    <3>3. <<i, m, s>> \in results <=> history[i][m] = s
      BY DEF ResultEvents
    <3>4. QED
      BY <3>2, <3>3
  <2>11. \A v \in Worker \ {w} :
           Knows(v) => \/ worker[v].pc = "idle"
                       \/ RowOf(v)' = RowOf(v)
                       \/ RowOf(v) = "absent"
    BY <1>3, <1>8, <2>1 DEF Knows, RowOf
  <2>12. WorkersKnow'
    <3> SUFFICES ASSUME NEW v \in Worker \ {w}
                 PROVE  Knows(v)'
      BY <1>6 DEF WorkersKnow
    <3>1. Knows(v)
      BY DEF WorkersKnow
    <3>2. QED
      BY <1>2, <1>3, <2>11, <3>1 DEF Knows, Exists, Result
  <2>13. \A v \in Worker : Live(v)' =>
           /\ v # w /\ Live(v) /\ worker'[v] = worker[v]
           /\ worker[v].job \in Job /\ RowOf(v)' = RowOf(v)
    <3>1. \A v \in Worker : Live(v) => worker[v].pc # "idle" /\ RowOf(v) # "absent" /\ Knows(v)
      BY DEF Live, LiveShown, WorkersKnow
    <3>2. QED
      BY <1>3, <1>6, <2>11, <3>1 DEF Live, Knows
  <2>14. LiveShown' /\ OneLive'
    BY <1>2, <2>13 DEF LiveShown, OneLive, Shows, TaskOf
  <2>15. DeliveredShown'
    BY <1>2, <2>13 DEF DeliveredShown, Live, TaskOf
  <2>16. QED
    BY <2>3, <2>5, <2>6, <2>8, <2>9, <2>10, <2>12, <2>14, <2>15
<1>9. QED
  BY <1>7, <1>8, ReserveEffect

\* Before a dispatch opens, no attempt of the task is open, no worker is live
\* for it and nothing of it was delivered.
LEMMA StartFinds ==
  ASSUME SenderInv, NEW j \in Job, NEW k \in Attempt, Exists(j), Startable(j, k)
  PROVE  /\ TaskOf(j) \in Task
         /\ task[TaskOf(j)].status \in {"pending", "retryable_failed"}
         /\ \A i \in Job : \A m \in Attempt :
              history[i][m] = "dispatching" => TaskOf(i) # TaskOf(j)
         /\ \A w \in Worker : Live(w) => TaskOf(worker[w].job) # TaskOf(j)
         /\ delivered[TaskOf(j)] = 0
<1> USE ConstantsAssumption DEF SenderInv
<1> DEFINE t == TaskOf(j)
<1>1. t \in Task
  BY DEF JobsKnown, TaskOf
<1>2. history[j][k] = "reserved" /\ Sendable(j, k)
  BY DEF Startable
<1>3. task[t].status \in {"pending", "retryable_failed"}
  <2>1. CASE task[t].current = j /\ task[t].count = k
    <3>1. history[j][k] \in Result \union {"dispatching"}
      BY <1>1, <2>1, CurrentKnown DEF TypeOK, TaskRow
    <3>2. QED
      BY <1>2, <3>1 DEF Result
  <2>2. QED
    BY <1>2, <2>1 DEF Sendable
<1>4. \A i \in Job : \A m \in Attempt :
        history[i][m] = "dispatching" => task[TaskOf(i)].status = "sending"
  BY OpenStatus
<1>5. \A w \in Worker : Live(w) =>
        task[TaskOf(worker[w].job)].status \in {"sending", "outcome_unknown"}
  BY LiveStatus
<1>6. delivered[t] = 0
  BY <1>1, <1>3 DEF DeliveredShown
<1>7. QED
  BY <1>1, <1>3, <1>4, <1>5, <1>6

\* Start opens the task's only dispatch.
LEMMA StartKeeps ==
  ASSUME SenderInv, TypeOK', NEW w \in Worker, Start(w)
  PROVE  SenderInv'
<1> USE ConstantsAssumption DEF SenderInv
<1> DEFINE j == worker[w].job
           k == worker[w].attempt
           t == TaskOf(j)
<1>1. j \in Job /\ k \in Attempt /\ Exists(j)
  BY DEF WorkersKnow, Knows, Start
<1>2. /\ t \in Task
      /\ \A i \in Job : \A m \in Attempt : history[i][m] = "dispatching" => TaskOf(i) # t
      /\ \A v \in Worker : Live(v) => TaskOf(worker[v].job) # t
      /\ delivered[t] = 0
      /\ task[t].status \in {"pending", "retryable_failed"}
  BY <1>1, StartFinds DEF Start
<1>3. /\ UNCHANGED <<links, river, results, delivered>>
      /\ history[j][k] = "reserved"
      /\ history' = [history EXCEPT ![j][k] = "dispatching"]
      /\ marker' = [marker EXCEPT ![j] = "dispatching"]
      /\ task' = [task EXCEPT ![t] = [status |-> "sending", count |-> k, current |-> j]]
  BY DEF Start, Startable, MarkTaskSending
<1>4. /\ \A v \in Worker \ {w} : worker'[v] = worker[v]
      /\ worker'[w].pc = "dispatch" /\ worker'[w].job = j /\ worker'[w].attempt = k
  BY DEF Start, Goto, TypeOK, WorkerRow
<1> HIDE DEF j, k, t
<1>5. \A i \in Job : TaskOf(i)' = TaskOf(i) /\ (Exists(i)' <=> Exists(i))
  BY <1>3 DEF TaskOf, Exists
<1>6. t = TaskOf(j)
  BY DEF t
<1>7. \A i \in Job : \A m \in Attempt :
        history'[i][m] = IF i = j /\ m = k THEN "dispatching" ELSE history[i][m]
  BY <1>1, <1>3 DEF TypeOK
<1>8. /\ marker'[j] = "dispatching"
      /\ \A i \in Job \ {j} : marker'[i] = marker[i]
  BY <1>1, <1>3 DEF TypeOK
<1>9. /\ task'[t].status = "sending" /\ task'[t].count = k /\ task'[t].current = j
      /\ \A u \in Task \ {t} : task'[u] = task[u]
  BY <1>2, <1>3 DEF TypeOK
<1>10. JobsKnown'
  BY <1>1, <1>2, <1>3, <1>5, <1>7, <1>9 DEF JobsKnown, Exists
<1>11. \A m \in Attempt : m > k => history[j][m] = "absent"
  BY <1>1, <1>3 DEF RowsChained
<1>12. RowsChained'
  BY <1>1, <1>3, <1>7, <1>11 DEF RowsChained
<1>13. MarkerShowsLast'
  <2> SUFFICES ASSUME NEW i \in Job
               PROVE  /\ marker'[i] = "absent" <=> history'[i][1] = "absent"
                      /\ \A n \in Attempt :
                           /\ history'[i][n] # "absent"
                           /\ n < MaxAttempts => history'[i][n + 1] = "absent"
                           => marker'[i] = MarkerOf(history'[i][n], n)
    BY DEF MarkerShowsLast
  <2>1. 1 \in Attempt /\ \A n \in Attempt : n < MaxAttempts => n + 1 \in Attempt
    BY DEF Attempt
  <2>2. CASE i # j
    BY <1>7, <1>8, <2>1, <2>2 DEF MarkerShowsLast
  <2>3. CASE i = j
    <3>1. history'[j][1] # "absent"
      <4>1. CASE k = 1
        BY <1>1, <1>7, <4>1
      <4>2. CASE k # 1
        <5>1. 1 < k
          BY <1>1, <4>2 DEF Attempt
        <5>2. history[j][1] # "absent"
          BY <1>1, <1>3, <2>1, <5>1 DEF RowsChained
        <5>3. QED
          BY <1>1, <1>7, <2>1, <4>2, <5>2
      <4>3. QED
        BY <4>1, <4>2
    <3>2. \A n \in Attempt :
            /\ history'[j][n] # "absent"
            /\ n < MaxAttempts => history'[j][n + 1] = "absent"
            => n = k
      <4> SUFFICES ASSUME NEW n \in Attempt, n # k, history'[j][n] # "absent"
                   PROVE  n < MaxAttempts /\ history'[j][n + 1] # "absent"
        OBVIOUS
      <4>1. n < k
        BY <1>1, <1>7, <1>11 DEF Attempt
      <4>2. n < MaxAttempts /\ n + 1 \in Attempt /\ (n + 1 = k \/ n + 1 < k)
        BY <1>1, <4>1 DEF Attempt
      <4>3. n + 1 < k => history[j][n + 1] = "retryable_failed"
        BY <1>1, <1>3, <4>2 DEF RowsChained
      <4>4. QED
        BY <1>1, <1>7, <4>2, <4>3
    <3>3. history'[j][k] = "dispatching"
      BY <1>1, <1>7
    <3>4. MarkerOf("dispatching", k) = "dispatching"
      BY DEF MarkerOf
    <3>5. QED
      BY <1>1, <1>8, <2>3, <3>1, <3>2, <3>3, <3>4
  <2>4. QED
    BY <2>2, <2>3
<1>14. TaskShowsAttempt'
  <2>1. \A u \in Task \ {t} : task[u].current # NoJob =>
          /\ task[u].current \in Job \ {j} /\ task[u].count \in Attempt
    <3> SUFFICES ASSUME NEW u \in Task \ {t}, task[u].current # NoJob
                 PROVE  task[u].current \in Job \ {j} /\ task[u].count \in Attempt
      OBVIOUS
    <3>1. task[u].current \in Job /\ task[u].count \in Attempt
      BY CurrentKnown
    <3>2. TaskOf(task[u].current) = u
      BY DEF TaskShowsAttempt
    <3>3. QED
      BY <1>6, <3>1, <3>2
  <2>2. history'[j][k] = "dispatching" /\ k > 0
    BY <1>1, <1>7 DEF Attempt
  <2>3. QED
    BY <1>1, <1>5, <1>6, <1>7, <1>8, <1>9, <2>1, <2>2 DEF TaskShowsAttempt
<1>15. OpenShown'
  <2> SUFFICES ASSUME NEW i \in Job, NEW m \in Attempt, history'[i][m] = "dispatching"
               PROVE  Shows(i, m)'
    BY DEF OpenShown
  <2>1. CASE i = j /\ m = k
    BY <1>5, <1>6, <1>9, <2>1 DEF Shows
  <2>2. CASE ~(i = j /\ m = k)
    <3>1. history[i][m] = "dispatching"
      BY <1>7, <2>2
    <3>2. TaskOf(i) \in Task \ {t} /\ Shows(i, m)
      BY <1>2, <3>1, OpenStatus DEF OpenShown
    <3>3. QED
      BY <1>5, <1>9, <3>2 DEF Shows
  <2>3. QED
    BY <2>1, <2>2
<1>16. ResultEvents'
  <2>1. history[j][k] \notin Result /\ "dispatching" \notin Result
    BY <1>3 DEF Result
  <2> SUFFICES ASSUME NEW i \in Job, NEW m \in Attempt, NEW s \in Result
               PROVE  <<i, m, s>> \in results <=> history'[i][m] = s
    BY <1>3 DEF ResultEvents
  <2>2. history'[i][m] = s <=> history[i][m] = s
    BY <1>7, <2>1
  <2>3. <<i, m, s>> \in results <=> history[i][m] = s
    BY DEF ResultEvents
  <2>4. QED
    BY <2>2, <2>3
<1>17. \A v \in Worker \ {w} : worker[v].pc # "idle" =>
         RowOf(v)' = RowOf(v) \/ RowOf(v) = "reserved"
  BY <1>3, <1>4, <1>7 DEF WorkersKnow, Knows, RowOf
<1>18. WorkersKnow'
  <2> SUFFICES ASSUME NEW v \in Worker
               PROVE  Knows(v)'
    BY DEF WorkersKnow
  <2>1. Knows(v)
    BY DEF WorkersKnow
  <2>2. CASE v = w
    BY <1>1, <1>4, <1>5, <2>2 DEF Knows
  <2>3. CASE v # w
    BY <1>4, <1>5, <1>17, <2>1, <2>3 DEF Knows, Result
  <2>4. QED
    BY <2>2, <2>3
<1>19. \A v \in Worker \ {w} : Live(v)' =>
         /\ Live(v) /\ worker'[v] = worker[v] /\ worker[v].job \in Job
         /\ RowOf(v)' = RowOf(v)
         /\ TaskOf(worker[v].job) \in Task \ {t}
  <2>1. \A v \in Worker : Live(v) =>
          RowOf(v) # "reserved" /\ TaskOf(worker[v].job) \in Task /\ worker[v].job \in Job
    BY LiveStatus DEF LiveShown
  <2>2. QED
    BY <1>2, <1>4, <1>17, <2>1 DEF Live
<1>20. LiveShown'
  <2>1. RowOf(w)' = "dispatching" /\ Shows(worker[w].job, worker[w].attempt)'
    BY <1>1, <1>3, <1>4, <1>6, <1>7, <1>9 DEF RowOf, Shows, TaskOf
  <2>2. ASSUME NEW v \in Worker \ {w}, Live(v)'
        PROVE  Shows(worker[v].job, worker[v].attempt)'
    <3>1. /\ worker'[v] = worker[v] /\ TaskOf(worker[v].job) \in Task \ {t}
          /\ Shows(worker[v].job, worker[v].attempt)
      BY <1>19, <2>2 DEF LiveShown
    <3>2. TaskOf(worker[v].job)' = TaskOf(worker[v].job)
      BY <1>3, <3>1 DEF TaskOf
    <3>3. QED
      BY <1>9, <3>1, <3>2 DEF Shows
  <2>3. QED
    BY <1>19, <2>1, <2>2 DEF LiveShown
<1>21. OneLive'
  BY <1>4, <1>6, <1>19 DEF OneLive
<1>22. DeliveredShown'
  <2>1. \A u \in Task : /\ delivered'[u] \in {0, 1}
                        /\ delivered'[u] = 1 =>
                             task'[u].status \in {"sending", "sent", "outcome_unknown"}
    BY <1>2, <1>3, <1>9 DEF DeliveredShown
  <2>2. delivered'[TaskOf(worker[w].job)'] = 0
    BY <1>1, <1>2, <1>3, <1>4, <1>6 DEF TaskOf
  <2>3. \A v \in Worker \ {w} : Live(v)' =>
          delivered'[TaskOf(worker[v].job)'] = delivered[TaskOf(worker[v].job)]
    BY <1>3, <1>19 DEF TaskOf
  <2>4. QED
    BY <1>4, <1>19, <2>1, <2>2, <2>3 DEF DeliveredShown, Live
<1>23. QED
  BY <1>10, <1>12, <1>13, <1>14, <1>15, <1>16, <1>18, <1>20, <1>21, <1>22

\* An execution that finds the attempt dispatching writes the task row that is
\* there already.
LEMMA StartLostKeeps ==
  ASSUME SenderInv, TypeOK', NEW w \in Worker, StartLost(w)
  PROVE  SenderInv'
<1> USE ConstantsAssumption DEF SenderInv
<1> DEFINE j == worker[w].job
           k == worker[w].attempt
<1>1. j \in Job /\ k \in Attempt /\ Exists(j)
  BY DEF WorkersKnow, Knows, StartLost
<1>2. UNCHANGED <<links, river, marker, history, results, delivered>>
  BY DEF StartLost
<1>3. UNCHANGED task
  <2>1. CASE history[j][k] = "dispatching"
    <3>1. task' = [task EXCEPT ![TaskOf(j)] = [status |-> "sending", count |-> k, current |-> j]]
      BY <2>1 DEF StartLost, MarkTaskSending
    <3>2. task[TaskOf(j)] = [status |-> "sending", count |-> k, current |-> j]
      BY <1>1, <2>1, OpenStatus
    <3>3. QED
      BY <3>1, <3>2 DEF TypeOK
  <2>2. CASE history[j][k] # "dispatching"
    BY <2>2 DEF StartLost
  <2>3. QED
    BY <2>1, <2>2
<1>4. /\ \A v \in Worker \ {w} : worker'[v] = worker[v]
      /\ worker'[w].pc = PhaseFor(history[j][k])
      /\ worker'[w].job = j /\ worker'[w].attempt = k
  <2>1. worker' = [worker EXCEPT ![w].pc = PhaseFor(history[j][k])]
    BY DEF StartLost, Goto
  <2>2. QED
    BY <2>1 DEF TypeOK, WorkerRow
<1>5. history[j][k] \in Result \union {"dispatching"}
  <2>1. history[j][k] \in AttemptState
    BY <1>1 DEF TypeOK
  <2>2. QED
    BY <2>1 DEF StartLost, AttemptState
<1>6. ~Live(w)' /\ Knows(w)'
  BY <1>1, <1>2, <1>4, <1>5 DEF Live, Knows, Exists, RowOf, PhaseFor, Result
<1>7. \A i \in Job : river[i].state = "running" => river[i].attempt \in Attempt
  BY DEF JobsKnown
<1>8. QED
  BY <1>2, <1>3, <1>4, <1>6, <1>7, QuietKeeps

\* The provider call: the task is delivered once at most, because its only
\* live worker has not delivered it.
LEMMA SendKeeps ==
  ASSUME SenderInv, TypeOK', NEW w \in Worker, Send(w)
  PROVE  SenderInv'
<1> USE ConstantsAssumption DEF SenderInv
<1> DEFINE j == worker[w].job
           k == worker[w].attempt
           t == TaskOf(j)
<1>1. worker[w].pc = "dispatch" /\ Live(w)
  BY DEF Send, Live
<1>2. /\ j \in Job /\ t \in Task /\ k \in Attempt /\ Exists(j) /\ Shows(j, k)
      /\ task[t].status \in {"sending", "outcome_unknown"}
      /\ delivered[t] = 0
  BY <1>1, LiveStatus DEF WorkersKnow, Knows, DeliveredShown
<1>3. PICK r \in Result, d \in {0, 1} :
        /\ r \in {"retryable_failed", "final_failed"} => d = 0
        /\ worker' = [worker EXCEPT ![w].pc = "answered", ![w].result = r]
        /\ delivered' = [delivered EXCEPT ![t] = @ + d]
  BY DEF Send, Deliveries
<1>4. UNCHANGED <<task, links, river, marker, history, results>>
  BY DEF Send
<1>5. /\ \A v \in Worker \ {w} : worker'[v] = worker[v]
      /\ worker'[w].pc = "answered" /\ worker'[w].result = r
      /\ worker'[w].job = j /\ worker'[w].attempt = k
  BY <1>3 DEF TypeOK, WorkerRow
<1>6. /\ delivered'[t] = d
      /\ \A u \in Task \ {t} : delivered'[u] = delivered[u]
  BY <1>2, <1>3 DEF TypeOK
<1>7. \A i : TaskOf(i)' = TaskOf(i) /\ (Exists(i)' <=> Exists(i)) /\ \A m : Shows(i, m)' = Shows(i, m)
  BY <1>4 DEF TaskOf, Exists, Shows
<1>8. JobsKnown' /\ RowsChained' /\ MarkerShowsLast' /\ TaskShowsAttempt' /\ ResultEvents'
  <2>1. JobsKnown' /\ RowsChained' /\ ResultEvents'
    BY <1>4 DEF JobsKnown, Exists, RowsChained, ResultEvents
  <2>2. MarkerShowsLast' /\ TaskShowsAttempt'
    BY <1>4 DEF MarkerShowsLast, TaskShowsAttempt, TaskOf
  <2>3. QED
    BY <2>1, <2>2
<1>9. OpenShown'
  BY <1>4 DEF OpenShown, Shows, TaskOf
<1>10. WorkersKnow'
  <2> SUFFICES ASSUME NEW v \in Worker
               PROVE  Knows(v)'
    BY DEF WorkersKnow
  <2>1. CASE v = w
    BY <1>2, <1>3, <1>4, <1>5, <2>1 DEF Knows, Exists
  <2>2. CASE v # w
    BY <1>4, <1>5, <2>2 DEF WorkersKnow, Knows, Exists, RowOf
  <2>3. QED
    BY <2>1, <2>2
<1>11. \A v \in Worker : Live(v)' =>
         /\ Live(v) /\ worker'[v].job = worker[v].job /\ worker'[v].attempt = worker[v].attempt
  BY <1>1, <1>5 DEF Live
<1>12. LiveShown'
  BY <1>4, <1>11 DEF LiveShown, RowOf, Shows, TaskOf
<1>13. OneLive'
  BY <1>11 DEF OneLive
<1>14. \A v \in Worker \ {w} : Live(v) => TaskOf(worker[v].job) \in Task \ {t}
  <2> SUFFICES ASSUME NEW v \in Worker \ {w}, Live(v)
               PROVE  TaskOf(worker[v].job) \in Task \ {t}
    OBVIOUS
  <2>1. worker[v].job # j
    BY <1>1 DEF OneLive
  <2>2. Shows(worker[v].job, worker[v].attempt) /\ TaskOf(worker[v].job) \in Task
    BY LiveStatus
  <2>3. QED
    BY <1>2, <2>1, <2>2 DEF Shows
<1>15. DeliveredShown'
  <2>1. \A u \in Task : /\ delivered'[u] \in {0, 1}
                        /\ delivered'[u] = 1 =>
                             task'[u].status \in {"sending", "sent", "outcome_unknown"}
    BY <1>2, <1>4, <1>6 DEF DeliveredShown
  <2>2. worker'[w].result \in {"retryable_failed", "final_failed"} => delivered'[t] = 0
    BY <1>3, <1>5, <1>6
  <2>3. \A v \in Worker \ {w} : Live(v) => delivered'[TaskOf(worker[v].job)] = delivered[TaskOf(worker[v].job)]
    BY <1>6, <1>14
  <2>4. ASSUME NEW v \in Worker \ {w},
               \/ worker[v].pc = "dispatch"
               \/ worker[v].pc = "answered" /\ worker[v].result \in {"retryable_failed", "final_failed"}
        PROVE  delivered'[TaskOf(worker[v].job)] = 0
    BY <2>3, <2>4 DEF DeliveredShown, Live
  <2>5. ASSUME NEW v \in Worker,
               \/ worker'[v].pc = "dispatch"
               \/ worker'[v].pc = "answered" /\ worker'[v].result \in {"retryable_failed", "final_failed"}
        PROVE  delivered[TaskOf(worker[v].job)]' = 0
    <3>1. TaskOf(worker[v].job)' = TaskOf(worker[v].job)
      BY <1>4, <1>5 DEF TaskOf
    <3>2. CASE v = w
      BY <1>5, <2>2, <2>5, <3>1, <3>2
    <3>3. CASE v # w
      BY <1>5, <2>4, <2>5, <3>1, <3>3
    <3>4. QED
      BY <3>2, <3>3
  <2>6. QED
    BY <2>1, <2>5 DEF DeliveredShown
<1>16. QED
  BY <1>8, <1>9, <1>10, <1>12, <1>13, <1>15

\* Projecting the result an attempt already has changes neither the task nor
\* the events.
LEMMA ProjectSettled ==
  ASSUME SenderInv, NEW w \in Worker, NEW j \in Job, NEW k \in Attempt,
         NEW s \in Result, history[j][k] = s, ProjectWithin(w, j, k, s)
  PROVE  UNCHANGED <<task, results>>
<1> USE ConstantsAssumption DEF SenderInv
<1> DEFINE t == TaskOf(j)
<1>1. t \in Task
  BY DEF JobsKnown, TaskOf, Result
<1>2. results' = results
  BY DEF ProjectWithin, ResultEvents
<1>3. task' = [task EXCEPT ![t] = Projected(task[t], j, k, s)]
  BY DEF ProjectWithin
<1>4. task[t] \in TaskRow /\ task \in [Task -> TaskRow]
  BY <1>1 DEF TypeOK
<1>5. CASE Projects(task[t], j, k, s)
  <2>1. task[t].current = j /\ task[t].count = k
    BY <1>5 DEF Projects
  <2>2. task[t].status = StatusOf(s)
    BY <1>1, <2>1 DEF TaskShowsAttempt, Result
  <2>3. Projected(task[t], j, k, s) = task[t]
    BY <1>4, <1>5, <2>1, <2>2 DEF Projected, TaskRow
  <2>4. QED
    BY <1>2, <1>3, <1>4, <2>3
<1>6. CASE ~Projects(task[t], j, k, s)
  BY <1>2, <1>3, <1>4, <1>6 DEF Projected
<1>7. QED
  BY <1>5, <1>6

\* A replayed execution projects what is stored.
LEMMA ProjectKeeps ==
  ASSUME SenderInv, TypeOK', NEW w \in Worker, Project(w)
  PROVE  SenderInv'
<1> USE ConstantsAssumption DEF SenderInv
<1> DEFINE j == worker[w].job
           k == worker[w].attempt
<1>1. /\ j \in Job /\ k \in Attempt /\ Exists(j)
      /\ history[j][k] \in Result
  BY DEF WorkersKnow, Knows, Project, RowOf
<1>2. UNCHANGED <<links, river, marker, history, delivered>>
  BY DEF Project
<1>3. UNCHANGED <<task, results>>
  BY <1>1, ProjectSettled DEF Project
<1>4. /\ \A v \in Worker \ {w} : worker'[v] = worker[v]
      /\ worker'[w].pc \in {"ok", "err"}
      /\ worker'[w].job = j /\ worker'[w].attempt = k
  <2>1. worker' = [worker EXCEPT ![w].pc = ReturnOf(history[j][k])]
    BY DEF Project, ProjectWithin, Goto
  <2>2. QED
    BY <2>1, Returns DEF TypeOK, WorkerRow
<1>5. ~Live(w)' /\ Knows(w)'
  BY <1>1, <1>2, <1>4 DEF Live, Knows, Exists
<1>6. \A i \in Job : river[i].state = "running" => river[i].attempt \in Attempt
  BY DEF JobsKnown
<1>7. QED
  BY <1>2, <1>3, <1>4, <1>5, <1>6, QuietKeeps

\* CompleteSendAttempt either settles the open dispatch, or finds the attempt
\* settled and rewrites what is there.
LEMMA CompleteFinds ==
  ASSUME SenderInv, NEW w \in Worker, Complete(w),
         NEW j, j = worker[w].job, NEW k, k = worker[w].attempt,
         history[j][k] # "dispatching"
  PROVE  /\ history[j][k] \in Result
         /\ UNCHANGED <<marker, history>>
<1> USE ConstantsAssumption DEF SenderInv
<1>1. j \in Job /\ k \in Attempt
  BY DEF WorkersKnow, Knows, Complete
<1>2. history[j][k] \in Result
  BY DEF Complete, Completable, Settled, Terminal
<1>3. /\ history' = [history EXCEPT ![j][k] = history[j][k]]
      /\ marker' = [marker EXCEPT ![j] = history[j][k]]
      /\ history[j][k] = Settled(marker[j], Verdict(w))
  BY DEF Complete, Completable, Settled
<1>4. UNCHANGED history
  <2>1. history \in [Job -> [Attempt -> AttemptState]] /\ history[j] \in [Attempt -> AttemptState]
    BY <1>1 DEF TypeOK
  <2>2. [history[j] EXCEPT ![k] = history[j][k]] = history[j]
    BY <1>1, <2>1
  <2>3. [history EXCEPT ![j] = history[j]] = history
    BY <2>1
  <2>4. QED
    BY <1>3, <2>2, <2>3
<1>5. marker[j] = history[j][k]
  <2>1. CASE history[j][k] = "retryable_failed"
    <3>1. Verdict(w) # "retryable_failed"
      <4>1. worker[w].pc # "answered"
        BY <2>1 DEF LiveShown, Live, RowOf
      <4>2. QED
        BY <4>1 DEF Verdict
    <3>2. QED
      BY <1>3, <2>1, <3>1 DEF Settled
  <2>2. CASE history[j][k] # "retryable_failed"
    <3>1. k < MaxAttempts => k + 1 \in Attempt /\ k < k + 1
      BY <1>1 DEF Attempt
    <3>2. k < MaxAttempts => history[j][k + 1] = "absent"
      BY <1>1, <2>2, <3>1 DEF RowsChained
    <3>3. marker[j] = MarkerOf(history[j][k], k)
      BY <1>1, <1>2, <3>2 DEF MarkerShowsLast, Result
    <3>4. QED
      BY <1>2, <3>3 DEF MarkerOf, Result
  <2>3. QED
    BY <2>1, <2>2
<1>6. UNCHANGED marker
  BY <1>1, <1>3, <1>5 DEF TypeOK
<1>7. QED
  BY <1>2, <1>4, <1>6

\* Settling the open dispatch moves history, marker, task and events together.
LEMMA SettleKeeps ==
  ASSUME SenderInv, TypeOK', NEW w \in Worker, Complete(w),
         history[worker[w].job][worker[w].attempt] = "dispatching"
  PROVE  SenderInv'
<1> USE ConstantsAssumption DEF SenderInv
<1> DEFINE j == worker[w].job
           k == worker[w].attempt
           t == TaskOf(j)
           s == Verdict(w)
<1>1. j \in Job /\ k \in Attempt /\ Exists(j) /\ history[j][k] = "dispatching"
  BY DEF WorkersKnow, Knows, Complete
<1>2. t \in Task /\ task[t] = [status |-> "sending", count |-> k, current |-> j]
  BY <1>1, OpenStatus
<1>3. s \in Result
  BY DEF Complete, Verdict, WorkersKnow, Knows, Result
<1>4. /\ UNCHANGED <<links, river, delivered>>
      /\ history' = [history EXCEPT ![j][k] = s]
      /\ marker' = [marker EXCEPT ![j] = s]
      /\ ProjectWithin(w, j, k, s)
  BY <1>1 DEF Complete, Settled
<1>5. /\ task'[t].status = StatusOf(s) /\ task'[t].count = k /\ task'[t].current = j
      /\ \A u \in Task \ {t} : task'[u] = task[u]
  <2>1. Projected(task[t], j, k, s) = [status |-> StatusOf(s), count |-> k, current |-> j]
    BY <1>2 DEF Projected, Projects
  <2>2. task' = [task EXCEPT ![t] = Projected(task[t], j, k, s)]
    BY <1>4 DEF ProjectWithin
  <2>3. QED
    BY <1>2, <2>1, <2>2 DEF TypeOK
<1>6. results' = results \union {<<j, k, s>>}
  BY <1>4 DEF ProjectWithin
<1>7. /\ \A v \in Worker \ {w} : worker'[v] = worker[v]
      /\ worker'[w].pc \in {"ok", "err"}
      /\ worker'[w].job = j /\ worker'[w].attempt = k
  <2>1. worker' = [worker EXCEPT ![w].pc = ReturnOf(s)]
    BY <1>4 DEF ProjectWithin, Goto
  <2>2. QED
    BY <2>1, Returns DEF TypeOK, WorkerRow
<1>8. \A v \in Worker \ {w} :
        Live(v) /\ worker[v].job = j => worker[v].attempt = k /\ s = "outcome_unknown"
  <2> SUFFICES ASSUME NEW v \in Worker \ {w}, Live(v), worker[v].job = j
               PROVE  worker[v].attempt = k /\ s = "outcome_unknown"
    OBVIOUS
  <2>1. Shows(j, worker[v].attempt)
    BY DEF LiveShown
  <2>2. worker[w].pc # "answered"
    BY DEF OneLive, Live
  <2>3. QED
    BY <1>2, <2>1, <2>2 DEF Shows, Verdict
<1>9. worker[w].pc = "answered" /\ s \in {"retryable_failed", "final_failed"} => delivered[t] = 0
  BY DEF DeliveredShown, Verdict
<1>10. s \in {"retryable_failed", "final_failed"} => delivered[t] = 0
  BY <1>9 DEF Verdict
<1>11. t = TaskOf(j)
  OBVIOUS
<1> HIDE DEF j, k, t, s
<1>12. j = worker[w].job /\ k = worker[w].attempt
  BY DEF j, k
<1>13. \A i \in Job : \A m \in Attempt :
         history'[i][m] = IF i = j /\ m = k THEN s ELSE history[i][m]
  BY <1>1, <1>4 DEF TypeOK
<1>14. marker'[j] = s /\ \A i \in Job \ {j} : marker'[i] = marker[i]
  BY <1>1, <1>4 DEF TypeOK
<1>15. s \notin {"absent", "reserved", "dispatching"}
  BY <1>3 DEF Result
<1>16. \A i \in Job : \A m \in Attempt : history'[i][m] # "absent" <=> history[i][m] # "absent"
  BY <1>1, <1>13, <1>15
<1>17. \A m \in Attempt : m > k => history[j][m] = "absent"
  BY <1>1 DEF RowsChained
<1>18. JobsKnown'
  <2>1. StatusOf(s) # "absent"
    BY <1>15 DEF StatusOf
  <2>2. \A i \in Job : Exists(i)' <=> Exists(i)
    BY <1>4 DEF Exists
  <2>3. \A u \in Task : /\ task'[u].status # "absent" => links'[u] # <<>>
                        /\ task'[u].status = "absent" => task'[u].current = NoJob
    BY <1>2, <1>4, <1>5, <2>1 DEF JobsKnown
  <2>4. QED
    BY <1>4, <1>16, <2>2, <2>3 DEF JobsKnown
<1>19. RowsChained'
  <2> SUFFICES ASSUME NEW i \in Job, NEW n \in Attempt, NEW m \in Attempt,
                      m < n, history'[i][n] # "absent"
               PROVE  history'[i][m] = "retryable_failed"
    BY DEF RowsChained
  <2>1. history[i][m] = "retryable_failed"
    BY <1>16 DEF RowsChained
  <2>2. QED
    BY <1>1, <1>13, <2>1
<1>20. MarkerShowsLast'
  <2> SUFFICES ASSUME NEW i \in Job
               PROVE  /\ marker'[i] = "absent" <=> history'[i][1] = "absent"
                      /\ \A n \in Attempt :
                           /\ history'[i][n] # "absent"
                           /\ n < MaxAttempts => history'[i][n + 1] = "absent"
                           => marker'[i] = MarkerOf(history'[i][n], n)
    BY DEF MarkerShowsLast
  <2>1. 1 \in Attempt /\ \A n \in Attempt : n < MaxAttempts => n + 1 \in Attempt
    BY DEF Attempt
  <2>2. CASE i # j
    BY <1>13, <1>14, <2>1, <2>2 DEF MarkerShowsLast
  <2>3. CASE i = j
    <3>1. \A n \in Attempt : n < k =>
            n < MaxAttempts /\ n + 1 \in Attempt /\ (n + 1 = k \/ n + 1 < k)
      BY <1>1 DEF Attempt
    <3>2. \A n \in Attempt : n < k => history[j][n] # "absent"
      BY <1>1 DEF RowsChained
    <3>3. \A n \in Attempt :
            /\ history'[j][n] # "absent"
            /\ n < MaxAttempts => history'[j][n + 1] = "absent"
            => n = k
      <4> SUFFICES ASSUME NEW n \in Attempt, n # k, history'[j][n] # "absent"
                   PROVE  n < MaxAttempts /\ history'[j][n + 1] # "absent"
        OBVIOUS
      <4>1. n < k
        BY <1>1, <1>16, <1>17 DEF Attempt
      <4>2. QED
        BY <1>1, <1>16, <3>1, <3>2, <4>1
    <3>4. history[j][1] # "absent"
      BY <1>1, <2>1, <3>2 DEF Attempt
    <3>5. MarkerOf(s, k) = s
      BY <1>15 DEF MarkerOf
    <3>6. QED
      BY <1>1, <1>13, <1>14, <1>15, <1>16, <2>1, <2>3, <3>3, <3>4, <3>5
  <2>4. QED
    BY <2>2, <2>3
<1>21. TaskShowsAttempt'
  <2>1. \A u \in Task \ {t} : task[u].current # NoJob =>
          /\ task[u].current \in Job \ {j} /\ task[u].count \in Attempt
    <3> SUFFICES ASSUME NEW u \in Task \ {t}, task[u].current # NoJob
                 PROVE  task[u].current \in Job \ {j} /\ task[u].count \in Attempt
      OBVIOUS
    <3>1. task[u].current \in Job /\ task[u].count \in Attempt
      BY CurrentKnown
    <3>2. TaskOf(task[u].current) = u
      BY DEF TaskShowsAttempt
    <3>3. QED
      BY <1>11, <3>1, <3>2
  <2>2. history'[j][k] = s /\ k > 0
    BY <1>1, <1>13 DEF Attempt
  <2>3. \A i \in Job : TaskOf(i)' = TaskOf(i)
    BY <1>4 DEF TaskOf
  <2>4. QED
    BY <1>1, <1>5, <1>11, <1>13, <1>14, <1>15, <2>1, <2>2, <2>3 DEF TaskShowsAttempt
<1>22. OpenShown'
  <2> SUFFICES ASSUME NEW i \in Job, NEW m \in Attempt, history'[i][m] = "dispatching"
               PROVE  Shows(i, m)'
    BY DEF OpenShown
  <2>1. history[i][m] = "dispatching" /\ ~(i = j /\ m = k)
    BY <1>13, <1>15
  <2>2. Shows(i, m) /\ TaskOf(i) \in Task
    BY <2>1, OpenStatus DEF OpenShown
  <2>3. TaskOf(i) # t
    BY <1>2, <2>1, <2>2 DEF Shows
  <2>4. QED
    BY <1>4, <1>5, <2>2, <2>3 DEF Shows, TaskOf
<1>23. ResultEvents'
  <2> SUFFICES ASSUME NEW i \in Job, NEW m \in Attempt, NEW r \in Result
               PROVE  <<i, m, r>> \in results' <=> history'[i][m] = r
    BY DEF ResultEvents
  <2>1. <<i, m, r>> \in results <=> history[i][m] = r
    BY DEF ResultEvents
  <2>2. CASE i = j /\ m = k
    <3>1. history[i][m] # r
      BY <1>1, <2>2 DEF Result
    <3>2. QED
      BY <1>1, <1>6, <1>13, <2>1, <2>2, <3>1
  <2>3. CASE ~(i = j /\ m = k)
    BY <1>6, <1>13, <2>1, <2>3
  <2>4. QED
    BY <2>2, <2>3
<1>24. \A v \in Worker \ {w} : worker[v].pc # "idle" =>
         \/ RowOf(v)' = RowOf(v)
         \/ RowOf(v)' = s /\ worker[v].job = j
  BY <1>4, <1>7, <1>13 DEF WorkersKnow, Knows, RowOf
<1>25. WorkersKnow'
  <2> SUFFICES ASSUME NEW v \in Worker
               PROVE  Knows(v)'
    BY DEF WorkersKnow
  <2>1. Knows(v)
    BY DEF WorkersKnow
  <2>2. CASE v = w
    BY <1>1, <1>4, <1>7, <2>2 DEF Knows, Exists
  <2>3. CASE v # w
    BY <1>3, <1>4, <1>7, <1>24, <2>1, <2>3 DEF Knows, Exists
  <2>4. QED
    BY <2>2, <2>3
<1>26. \A v \in Worker : Live(v)' =>
         /\ v # w /\ Live(v) /\ worker'[v] = worker[v]
         /\ worker[v].job \in Job /\ TaskOf(worker[v].job) \in Task
         /\ Shows(worker[v].job, worker[v].attempt)
  BY <1>7, LiveStatus DEF Live
<1>27. LiveShown'
  <2> SUFFICES ASSUME NEW v \in Worker, Live(v)'
               PROVE  /\ RowOf(v)' \in {"dispatching", "outcome_unknown"}
                      /\ Shows(worker[v].job, worker[v].attempt)'
    BY DEF LiveShown
  <2>1. RowOf(v)' \in {"dispatching", "outcome_unknown"}
    BY <1>8, <1>24, <1>26 DEF Live, LiveShown
  <2>2. Shows(worker[v].job, worker[v].attempt)'
    <3>1. \A u \in Task : task'[u].current = task[u].current /\ task'[u].count = task[u].count
      BY <1>2, <1>5
    <3>2. /\ worker'[v] = worker[v] /\ TaskOf(worker[v].job) \in Task
          /\ Shows(worker[v].job, worker[v].attempt)
      BY <1>26
    <3>3. TaskOf(worker[v].job)' = TaskOf(worker[v].job)
      BY <1>4, <3>2 DEF TaskOf
    <3>4. QED
      BY <3>1, <3>2, <3>3 DEF Shows
  <2>3. QED
    BY <2>1, <2>2
<1>28. OneLive'
  BY <1>26 DEF OneLive
<1>29. DeliveredShown'
  <2>1. delivered[t] = 1 => StatusOf(s) \in {"sending", "sent", "outcome_unknown"}
    BY <1>3, <1>10 DEF StatusOf, Result
  <2>2. \A u \in Task : /\ delivered'[u] \in {0, 1}
                        /\ delivered'[u] = 1 =>
                             task'[u].status \in {"sending", "sent", "outcome_unknown"}
    BY <1>2, <1>4, <1>5, <2>1 DEF DeliveredShown
  <2>3. \A v \in Worker : Live(v)' =>
          delivered'[TaskOf(worker[v].job)'] = delivered[TaskOf(worker[v].job)]
    BY <1>4, <1>26 DEF TaskOf
  <2>4. QED
    BY <1>26, <2>2, <2>3 DEF DeliveredShown, Live
<1>30. QED
  BY <1>18, <1>19, <1>20, <1>21, <1>22, <1>23, <1>25, <1>27, <1>28, <1>29

\* Complete keeps the invariant in both cases.
LEMMA CompleteKeeps ==
  ASSUME SenderInv, TypeOK', NEW w \in Worker, Complete(w)
  PROVE  SenderInv'
<1> USE ConstantsAssumption DEF SenderInv
<1> DEFINE j == worker[w].job
           k == worker[w].attempt
<1>1. CASE history[j][k] = "dispatching"
  BY <1>1, SettleKeeps
<1>2. CASE history[j][k] # "dispatching"
  <2>1. j \in Job /\ k \in Attempt /\ Exists(j)
    BY DEF WorkersKnow, Knows, Complete
  <2>2. history[j][k] \in Result /\ UNCHANGED <<marker, history>>
    BY <1>2, CompleteFinds
  <2>3. ProjectWithin(w, j, k, history[j][k])
    BY <1>2 DEF Complete, Settled
  <2>4. UNCHANGED <<task, results>>
    BY <2>1, <2>2, <2>3, ProjectSettled
  <2>5. UNCHANGED <<links, river, delivered>>
    BY DEF Complete
  <2>6. /\ \A v \in Worker \ {w} : worker'[v] = worker[v]
        /\ worker'[w].pc \in {"ok", "err"}
        /\ worker'[w].job = j /\ worker'[w].attempt = k
    <3>1. worker' = [worker EXCEPT ![w].pc = ReturnOf(history[j][k])]
      BY <2>3 DEF ProjectWithin, Goto
    <3>2. QED
      BY <3>1, Returns DEF TypeOK, WorkerRow
  <2>7. ~Live(w)' /\ Knows(w)'
    BY <2>1, <2>5, <2>6 DEF Live, Knows, Exists
  <2>8. \A i \in Job : river[i].state = "running" => river[i].attempt \in Attempt
    BY DEF JobsKnown
  <2>9. QED
    BY <2>2, <2>4, <2>5, <2>6, <2>7, <2>8, QuietKeeps
<1>3. QED
  BY <1>1, <1>2

-----------------------------------------------------------------------------
(* The theorems.                                                           *)

\* Every step keeps the inductive invariant.
LEMMA SenderStep == SenderInv /\ [Next]_vars => SenderInv'
<1> SUFFICES ASSUME SenderInv, [Next]_vars
             PROVE  SenderInv'
  OBVIOUS
<1>0. TypeOK'
  BY TypeStep
<1>1. ASSUME NEW t \in Task, NEW j \in Job, Enqueue(t, j)
      PROVE  SenderInv'
  BY <1>0, <1>1, InsertSteps
<1>2. ASSUME NEW t \in Task, NEW key \in Key, Cancel(t, key)
      PROVE  SenderInv'
  BY <1>0, <1>2, CancelKeeps
<1>3. ASSUME NEW t \in Task, NEW key \in Key, NEW j \in Job, ManualRetry(t, key, j)
      PROVE  SenderInv'
  BY <1>0, <1>3, InsertSteps
<1>4. ASSUME NEW w \in Worker, NEW j \in Job, Fetch(w, j) \/ Replay(w, j)
      PROVE  SenderInv'
  BY <1>0, <1>4, QuietSteps
<1>5. ASSUME NEW j \in Job, Rescue(j)
      PROVE  SenderInv'
  <2>1. \A i \in Job :
          /\ river'[i].task = river[i].task
          /\ river'[i].state # "absent" <=> river[i].state # "absent"
          /\ river'[i].state = "running" => river'[i].attempt \in Attempt
    BY <1>5 DEF Rescue, AfterFailure, SenderInv, TypeOK, RiverRow, JobsKnown
  <2>2. UNCHANGED <<task, links, marker, history, results, worker, delivered>>
    BY <1>5 DEF Rescue
  <2>3. QED
    BY <1>0, <2>1, <2>2, QuietKeeps
<1>6. ASSUME NEW w \in Worker, WorkerStep(w) \/ Crash(w) \/ Fail(w)
      PROVE  SenderInv'
  <2>1. CASE Reserve(w)
    BY <1>0, <2>1, ReserveKeeps
  <2>2. CASE Start(w)
    BY <1>0, <2>2, StartKeeps
  <2>3. CASE StartLost(w)
    BY <1>0, <2>3, StartLostKeeps
  <2>4. CASE Send(w)
    BY <1>0, <2>4, SendKeeps
  <2>5. CASE Complete(w)
    BY <1>0, <2>5, CompleteKeeps
  <2>6. CASE Project(w)
    BY <1>0, <2>6, ProjectKeeps
  <2>7. CASE \/ ReserveConflict(w) \/ StartRejected(w) \/ SettleRejected(w)
             \/ Finish(w) \/ Crash(w) \/ Fail(w)
    BY <1>0, <2>7, QuietSteps
  <2>8. QED
    BY <1>6, <2>1, <2>2, <2>3, <2>4, <2>5, <2>6, <2>7 DEF WorkerStep
<1>7. CASE UNCHANGED vars
  <2>1. UNCHANGED <<task, links, river, marker, history, results, worker, delivered>>
    BY <1>7 DEF vars
  <2>2. \A i \in Job : river[i].state = "running" => river[i].attempt \in Attempt
    BY DEF SenderInv, JobsKnown
  <2>3. QED
    BY <1>0, <2>1, <2>2, QuietKeeps
<1>8. QED
  BY <1>1, <1>2, <1>3, <1>4, <1>5, <1>6, <1>7 DEF Next

\* The inductive invariant holds in every reachable state.
THEOREM SenderInvariant == Spec => []SenderInv
  BY SenderInit, SenderStep, PTL DEF Spec

\* Every variable keeps its type, for any tasks, jobs, workers and bounds.
THEOREM SenderTypes == Spec => []TypeOK
<1>1. SenderInv => TypeOK
  BY DEF SenderInv
<1>2. QED
  BY <1>1, SenderInvariant, PTL

\* The provider never delivers a task twice, although its answer may be lost
\* with a crashed worker, the job may be rescued while the worker still runs,
\* the attempt may be executed again and operators may retry the task.
THEOREM DeliveredOnce == Spec => []NoDoubleDelivery
<1>1. SenderInv => NoDoubleDelivery
  BY DEF SenderInv, DeliveredShown, NoDoubleDelivery
<1>2. QED
  BY <1>1, SenderInvariant, PTL

\* Task row, marker and history row tell the same story between transactions.
THEOREM RowsAgree == Spec => []TaskShowsAttempt
<1>1. SenderInv => TaskShowsAttempt
  BY DEF SenderInv
<1>2. QED
  BY <1>1, SenderInvariant, PTL

\* At most one attempt of a task is dispatching, over all its generations.
THEOREM DispatchedOnceAtATime == Spec => []OneOpenDispatch
<1>1. SenderInv => OneOpenDispatch
  <2> SUFFICES ASSUME SenderInv, NEW i \in Job, NEW j \in Job,
                      NEW k \in Attempt, NEW l \in Attempt,
                      history[i][k] = "dispatching", history[j][l] = "dispatching",
                      TaskOf(i) = TaskOf(j)
               PROVE  i = j /\ k = l
    BY DEF OneOpenDispatch
  <2>1. Shows(i, k) /\ Shows(j, l)
    BY DEF SenderInv, OpenShown
  <2>2. QED
    BY <2>1 DEF Shows
<1>2. QED
  BY <1>1, SenderInvariant, PTL

\* An attempt exists only behind a clear, retryable refusal of the previous one.
THEOREM RetriedOnlyAfterRefusal == Spec => []RetryChain
<1>1. SenderInv => RetryChain
  <2>1. \A k \in Attempt \ {1} : k - 1 \in Attempt /\ k - 1 < k
    BY ConstantsAssumption DEF Attempt
  <2>2. QED
    BY <2>1 DEF SenderInv, RowsChained, RetryChain
<1>2. QED
  BY <1>1, SenderInvariant, PTL

\* event_log has exactly one result event for each settled attempt, with the
\* stored result.
THEOREM EventsMatchResults == Spec => []ResultEvents
<1>1. SenderInv => ResultEvents
  BY DEF SenderInv
<1>2. QED
  BY <1>1, SenderInvariant, PTL

\* No step rewrites a settled attempt: a late answer, a replay and a rescue
\* leave what was stored.
THEOREM SettledForGood == Spec => SettledRowsFinal
<1> DEFINE Final == \A j \in Job : \A k \in Attempt :
                      Terminal(history[j][k]) => history'[j][k] = history[j][k]
<1>1. SenderInv /\ [Next]_vars => [Final]_vars
  <2> SUFFICES ASSUME SenderInv, Next
               PROVE  Final
    OBVIOUS
  <2>1. ASSUME NEW w \in Worker, Reserve(w)
        PROVE  Final
    <3> DEFINE i == worker[w].job
               m == worker[w].attempt
    <3>1. /\ i \in Job /\ m \in Attempt
          /\ \/ UNCHANGED history
             \/ history[i][m] = "absent" /\ history' = [history EXCEPT ![i][m] = "reserved"]
      BY <2>1, ReserveEffect
    <3>2. CASE UNCHANGED history
      BY <3>2
    <3>3. CASE history[i][m] = "absent" /\ history' = [history EXCEPT ![i][m] = "reserved"]
      BY <3>1, <3>3 DEF SenderInv, TypeOK, Terminal, Result
    <3>4. QED
      BY <3>1, <3>2, <3>3
  <2>2. ASSUME NEW w \in Worker, Start(w)
        PROVE  Final
    <3>1. worker[w].job \in Job /\ worker[w].attempt \in Attempt
      BY <2>2 DEF SenderInv, WorkersKnow, Knows, Start
    <3>2. QED
      BY <2>2, <3>1 DEF SenderInv, TypeOK, Start, Startable, Terminal, Result
  <2>3. ASSUME NEW w \in Worker, Complete(w)
        PROVE  Final
    <3> DEFINE i == worker[w].job
               m == worker[w].attempt
    <3>1. i \in Job /\ m \in Attempt
      BY <2>3 DEF SenderInv, WorkersKnow, Knows, Complete
    <3>2. CASE history[i][m] = "dispatching"
      BY <2>3, <3>1, <3>2 DEF SenderInv, TypeOK, Complete, Terminal, Result
    <3>3. CASE history[i][m] # "dispatching"
      BY <2>3, <3>3, CompleteFinds
    <3>4. QED
      BY <3>2, <3>3
  <2>4. CASE UNCHANGED history
    BY <2>4
  <2>5. QED
    BY <2>1, <2>2, <2>3, <2>4
       DEF Next, Enqueue, Cancel, ManualRetry, Fetch, Replay, Rescue, WorkerStep,
           ReserveConflict, StartLost, StartRejected, Send, Project, SettleRejected,
           Finish, Crash, Fail
<1>2. QED
  BY <1>1, SenderInvariant, PTL DEF Spec, SettledRowsFinal

-----------------------------------------------------------------------------
(* With River as it is: no attempt is run twice, and no job is rescued     *)
(* while its worker runs.                                                  *)

RiverExclusive == ~Replays /\ ~Overtake

\* With River as it is, a worker that holds a job has it running, alone.
Busy(w) == worker[w].pc # "idle"

RunsAlone ==
  /\ \A w \in Worker : Busy(w) => river[worker[w].job].state = "running"
  /\ \A v, w \in Worker : Busy(v) /\ Busy(w) /\ worker[v].job = worker[w].job => v = w

\* The latest job of a task is one of its jobs, and a task that was never
\* enqueued has none.
LatestKnown ==
  \A t \in Task :
    /\ links[t] # <<>> => /\ Latest(t) \in Job
                          /\ Exists(Latest(t))
                          /\ TaskOf(Latest(t)) = t
    /\ task[t].status = "absent" => \A j \in Job : Exists(j) => TaskOf(j) # t

\* Nothing of a pending task is dispatched, and a cancelled task's job is deleted;
\* a task has a current attempt once it was dispatched.
StatusShowsLatest ==
  \A t \in Task :
    /\ task[t].status = "pending" => marker[Latest(t)] \in {"absent", "reserved"}
    /\ task[t].status = "cancelled" => river[Latest(t)].state = "deleted"
    /\ task[t].status \notin {"absent", "pending", "cancelled"} => task[t].current # NoJob

\* A job that an operator's retry has replaced was deleted or has been dispatched.
OldJobsDone ==
  \A j \in Job :
    Exists(j) /\ j # Latest(TaskOf(j)) =>
      river[j].state = "deleted" \/ history[j][1] \notin {"absent", "reserved"}

\* The job that a cancellation names was deleted before any dispatch.
CancelsDeleted ==
  \A key \in Key :
    receipts[key].op = "cancel" =>
      /\ receipts[key].job \in Job
      /\ river[receipts[key].job].state = "deleted"
      /\ marker[receipts[key].job] \in {"absent", "reserved"}

RiverInv ==
  /\ SenderInv
  /\ RunsAlone
  /\ LatestKnown
  /\ StatusShowsLatest
  /\ OldJobsDone
  /\ CancelsDeleted
  /\ CurrentIsLatest

\* The initial states satisfy it.
LEMMA RiverInit == Init => RiverInv
<1> SUFFICES ASSUME Init
             PROVE  RiverInv
  OBVIOUS
<1> USE ConstantsAssumption DEF Init
<1>1. SenderInv
  BY SenderInit
<1>2. RunsAlone /\ LatestKnown
  BY DEF RunsAlone, Busy, Idle, LatestKnown, Exists
<1>3. StatusShowsLatest /\ OldJobsDone
  BY DEF StatusShowsLatest, OldJobsDone, Exists
<1>4. CancelsDeleted /\ CurrentIsLatest
  BY DEF CancelsDeleted, CurrentIsLatest
<1>5. QED
  BY <1>1, <1>2, <1>3, <1>4 DEF RiverInv

\* Steps of River: states of jobs change, and who runs them.
LEMMA RiverMoves ==
  ASSUME RiverInv, SenderInv', UNCHANGED <<task, links, marker, history, receipts>>,
         \A j \in Job : /\ river'[j].task = river[j].task
                        /\ river'[j].state # "absent" <=> river[j].state # "absent"
                        /\ river[j].state = "deleted" => river'[j].state = "deleted",
         RunsAlone'
  PROVE  RiverInv'
<1>1. \A j \in Job : TaskOf(j)' = TaskOf(j) /\ (Exists(j)' <=> Exists(j))
  BY DEF TaskOf, Exists
<1>2. \A t : Latest(t)' = Latest(t)
  BY DEF Latest
<1>3. LatestKnown'
  BY <1>1, <1>2 DEF RiverInv, LatestKnown
<1>4. StatusShowsLatest'
  <2>1. \A t \in Task : task[t].status = "cancelled" => Latest(t) \in Job
    BY DEF RiverInv, LatestKnown, SenderInv, JobsKnown
  <2>2. QED
    BY <1>2, <2>1 DEF RiverInv, StatusShowsLatest
<1>5. OldJobsDone'
  BY <1>1, <1>2 DEF RiverInv, OldJobsDone
<1>6. CancelsDeleted' /\ CurrentIsLatest'
  BY <1>2 DEF RiverInv, CancelsDeleted, CurrentIsLatest
<1>7. QED
  BY <1>3, <1>4, <1>5, <1>6 DEF RiverInv

\* A worker gets a job that nobody holds, or lets its job go.
LEMMA RiverSteps ==
  ASSUME RiverExclusive, RiverInv, SenderInv',
         \/ \E w \in Worker, j \in Job : Fetch(w, j)
         \/ \E j \in Job : Rescue(j)
         \/ \E w \in Worker : Finish(w) \/ Crash(w)
  PROVE  RiverInv'
<1>1. river \in [Job -> RiverRow] /\ worker \in [Worker -> WorkerRow]
  BY DEF RiverInv, SenderInv, TypeOK
<1>2. \A v \in Worker : Busy(v) =>
        /\ worker[v].job \in Job
        /\ river[worker[v].job].state = "running"
  BY DEF RiverInv, RunsAlone, SenderInv, WorkersKnow, Knows, Busy
<1>3. ASSUME NEW w \in Worker, NEW j \in Job, Fetch(w, j)
      PROVE  RiverInv'
  <2>1. /\ river[j].state \in {"available", "retryable"}
        /\ river' = [river EXCEPT ![j].state = "running", ![j].attempt = @ + 1]
        /\ worker' = [worker EXCEPT ![w] =
             [pc |-> "claimed", job |-> j, attempt |-> river[j].attempt + 1, result |-> "none"]]
        /\ UNCHANGED <<task, links, marker, history, receipts>>
    BY <1>3 DEF Fetch, Claim
  <2>2. /\ river'[j].state = "running" /\ river'[j].task = river[j].task
        /\ \A i \in Job : i # j => river'[i] = river[i]
    BY <1>1, <2>1 DEF RiverRow
  <2>3. /\ worker'[w].job = j
        /\ \A v \in Worker : v # w => worker'[v] = worker[v]
    BY <1>1, <2>1
  <2>4. \A v \in Worker : v # w /\ Busy(v)' => Busy(v) /\ worker[v].job # j
    BY <1>2, <2>1, <2>3 DEF Busy
  <2>5. RunsAlone'
    BY <1>2, <2>2, <2>3, <2>4 DEF RiverInv, RunsAlone, Busy
  <2>6. QED
    BY <2>1, <2>2, <2>5, RiverMoves
<1>4. ASSUME NEW j \in Job, Rescue(j)
      PROVE  RiverInv'
  <2>1. /\ river[j].state = "running"
        /\ \A v \in Worker : worker[v].job # j
        /\ river' = [river EXCEPT ![j].state = AfterFailure(river[j].attempt)]
        /\ UNCHANGED <<task, links, marker, history, receipts, worker>>
    BY <1>4 DEF Rescue, RiverExclusive
  <2>2. /\ river'[j].state \in {"retryable", "discarded"} /\ river'[j].task = river[j].task
        /\ \A i \in Job : i # j => river'[i] = river[i]
    BY <1>1, <2>1 DEF RiverRow, AfterFailure
  <2>3. RunsAlone'
    BY <1>2, <2>1, <2>2 DEF RiverInv, RunsAlone, Busy
  <2>4. QED
    BY <2>1, <2>2, <2>3, RiverMoves
<1>5. ASSUME NEW w \in Worker, Finish(w) \/ Crash(w)
      PROVE  RiverInv'
  <2> DEFINE j == worker[w].job
  <2>1. Busy(w)
    BY <1>5 DEF Busy, Finish, Crash
  <2>2. /\ worker' = [worker EXCEPT ![w] = Idle]
        /\ UNCHANGED <<task, links, marker, history, receipts>>
    BY <1>5 DEF Finish, Crash
  <2>3. /\ ~Busy(w)' /\ \A v \in Worker : v # w => worker'[v] = worker[v]
    BY <1>1, <2>2 DEF Busy, Idle
  <2>4. \A v \in Worker : v # w /\ Busy(v) => worker[v].job # j
    BY <2>1 DEF RiverInv, RunsAlone
  <2>5. /\ river'[j].state \notin {"absent", "deleted"} /\ river'[j].task = river[j].task
        /\ \A i \in Job : i # j => river'[i] = river[i]
    <3>1. j \in Job /\ river[j].state = "running"
      BY <1>2, <2>1
    <3>2. CASE river' = river
      BY <3>1, <3>2
    <3>3. CASE \E s \in {"completed", "retryable", "discarded"} :
                 river' = [river EXCEPT ![j].state = s]
      BY <1>1, <3>1, <3>3 DEF RiverRow
    <3>4. QED
      BY <1>5, <3>1, <3>2, <3>3 DEF Finish, Crash, AfterFailure
  <2>6. RunsAlone'
    BY <1>2, <2>3, <2>4, <2>5 DEF RiverInv, RunsAlone, Busy
  <2>7. j \in Job /\ river[j].state = "running"
    BY <1>2, <2>1
  <2>8. QED
    BY <2>2, <2>5, <2>6, <2>7, RiverMoves
<1>6. QED
  BY <1>3, <1>4, <1>5

\* An enqueued job, or the one of a retry, is its task's latest from then on.
LEMMA InsertLatest ==
  ASSUME RiverInv, SenderInv', NEW t \in Task, NEW j \in Job, InsertJob(t, j),
         UNCHANGED <<marker, history, worker>>,
         task[t].status = "absent" \/ ManuallyRetryable(t),
         \A u \in Task : u # t => task'[u] = task[u],
         task'[t].status = "pending", task'[t].current = NoJob,
         \A key \in Key : receipts'[key].op = "cancel" => receipts'[key] = receipts[key]
  PROVE  RiverInv'
<1>1. /\ river \in [Job -> RiverRow] /\ links \in [Task -> Seq(Job)]
      /\ task \in [Task -> TaskRow]
  BY DEF RiverInv, SenderInv, TypeOK
<1>2. /\ ~Exists(j) /\ Exists(j)' /\ TaskOf(j)' = t
      /\ river'[j].state = "available"
      /\ \A i \in Job : i # j => river'[i] = river[i]
  BY <1>1 DEF InsertJob, Exists, TaskOf
<1>3. /\ links'[t] # <<>> /\ Latest(t)' = j
      /\ \A u \in Task : u # t => links'[u] = links[u] /\ Latest(u)' = Latest(u)
  BY <1>1 DEF InsertJob, Latest
<1>4. \A u \in Task : links[u] # <<>> => Latest(u) \in Job /\ Latest(u) # j
  BY <1>2 DEF RiverInv, LatestKnown
<1>5. \A u \in Task : task[u].status # "absent" => links[u] # <<>>
  BY DEF RiverInv, SenderInv, JobsKnown
<1>6. \A i \in Job : i # j => /\ TaskOf(i)' = TaskOf(i)
                              /\ Exists(i)' <=> Exists(i)
  BY <1>2 DEF TaskOf, Exists
<1>7. RunsAlone'
  <2>1. \A v \in Worker : Busy(v) => worker[v].job \in Job /\ worker[v].job # j
    BY <1>2 DEF RiverInv, RunsAlone, SenderInv, WorkersKnow, Knows, Busy, Exists
  <2>2. QED
    BY <1>2, <2>1 DEF RiverInv, RunsAlone, Busy
<1>8. LatestKnown'
  BY <1>2, <1>3, <1>4, <1>6 DEF RiverInv, LatestKnown
<1>9. StatusShowsLatest'
  <2>1. marker[j] = "absent"
    <3>1. 1 \in Attempt
      BY ConstantsAssumption DEF Attempt
    <3>2. QED
      BY <1>2, <3>1 DEF RiverInv, SenderInv, JobsKnown, MarkerShowsLast
  <2>2. QED
    BY <1>2, <1>3, <1>4, <1>5, <2>1 DEF RiverInv, StatusShowsLatest
\* The job it replaces was deleted with its task, or has been refused.
<1>10. ASSUME NEW i \in Job, i # j, Exists(i), TaskOf(i) = t, i = Latest(t)
       PROVE  river[i].state = "deleted" \/ history[i][1] \notin {"absent", "reserved"}
  <2>1. task[t].status # "absent"
    BY <1>10 DEF RiverInv, LatestKnown
  <2>2. CASE task[t].status = "cancelled"
    BY <1>10, <2>2 DEF RiverInv, StatusShowsLatest
  <2>3. CASE task[t].status = "final_failed"
    <3>1. task[t].current # NoJob
      BY <2>3 DEF RiverInv, StatusShowsLatest
    <3>2. task[t].current = i
      BY <1>10, <3>1 DEF RiverInv, CurrentIsLatest
    <3>3. /\ task[t].count \in Attempt
          /\ history[i][task[t].count] \in Result \union {"dispatching"}
      BY <3>1, <3>2, CurrentKnown DEF RiverInv
    <3>4. 1 \in Attempt /\ (1 < task[t].count \/ 1 = task[t].count)
      BY <3>3, ConstantsAssumption DEF Attempt
    <3>5. history[i][1] \in Result \union {"dispatching"}
      BY <3>3, <3>4 DEF RiverInv, SenderInv, RowsChained, Result
    <3>6. QED
      BY <3>5 DEF Result
  <2>4. QED
    BY <2>1, <2>2, <2>3 DEF ManuallyRetryable
<1>11. OldJobsDone'
  <2>1. SUFFICES ASSUME NEW i \in Job, Exists(i)', i # Latest(TaskOf(i))'
                 PROVE  river'[i].state = "deleted" \/ history'[i][1] \notin {"absent", "reserved"}
    BY DEF OldJobsDone
  <2>2. i # j
    BY <1>2, <1>3, <2>1
  <2>3. Exists(i) /\ TaskOf(i) \in Task /\ river'[i] = river[i] /\ TaskOf(i)' = TaskOf(i)
    BY <1>2, <1>6, <2>1, <2>2 DEF RiverInv, SenderInv, JobsKnown, TaskOf
  <2>4. CASE TaskOf(i) = t /\ i = Latest(t)
    BY <1>10, <2>2, <2>3, <2>4
  <2>5. CASE i # Latest(TaskOf(i))
    BY <2>3, <2>5 DEF RiverInv, OldJobsDone
  <2>6. CASE TaskOf(i) # t
    <3>1. Latest(TaskOf(i))' = Latest(TaskOf(i))
      BY <1>3, <2>3, <2>6 DEF Latest, TaskOf
    <3>2. QED
      BY <2>1, <2>5, <3>1
  <2>7. QED
    BY <2>4, <2>5, <2>6
<1>12. CancelsDeleted'
  BY <1>2 DEF RiverInv, CancelsDeleted, Exists
<1>13. CurrentIsLatest'
  BY <1>3 DEF RiverInv, CurrentIsLatest
<1>14. QED
  BY <1>7, <1>8, <1>9, <1>11, <1>12, <1>13 DEF RiverInv

\* Cancelling: nobody runs the job that is deleted, and nothing was dispatched.
LEMMA CancelLatest ==
  ASSUME RiverInv, SenderInv', NEW t \in Task, NEW key \in Key, Cancel(t, key)
  PROVE  RiverInv'
<1> DEFINE j == Latest(t)
<1>1. /\ river \in [Job -> RiverRow] /\ receipts \in [Key -> Receipt]
      /\ task \in [Task -> TaskRow]
  BY DEF RiverInv, SenderInv, TypeOK
<1>2. /\ task[t].status = "pending" /\ river[j].state \in {"available", "retryable"}
      /\ receipts[key].op = "none"
      /\ receipts' = [receipts EXCEPT ![key] = [op |-> "cancel", task |-> t, job |-> j]]
      /\ river' = [river EXCEPT ![j].state = "deleted"]
      /\ task' = [task EXCEPT ![t].status = "cancelled"]
      /\ UNCHANGED <<links, marker, history, worker>>
  BY DEF Cancel, UseKey, Deletable
<1>3. links[t] # <<>>
  BY <1>2 DEF RiverInv, SenderInv, JobsKnown
<1>4. j \in Job /\ Exists(j) /\ TaskOf(j) = t /\ marker[j] \in {"absent", "reserved"}
  BY <1>2, <1>3 DEF RiverInv, LatestKnown, StatusShowsLatest
<1>5. \A u : Latest(u)' = Latest(u)
  BY <1>2 DEF Latest
<1>6. j' = j
  BY <1>5
<1> HIDE DEF j
<1>7. /\ river'[j].state = "deleted" /\ river'[j].task = river[j].task
      /\ \A i \in Job : i # j => river'[i] = river[i]
  BY <1>1, <1>2, <1>4 DEF RiverRow
<1>8. /\ task'[t].status = "cancelled" /\ task'[t].current = task[t].current
      /\ \A u \in Task : u # t => task'[u] = task[u]
  BY <1>1, <1>2 DEF TaskRow
<1>9. \A i \in Job : TaskOf(i)' = TaskOf(i) /\ (Exists(i)' <=> Exists(i))
  BY <1>4, <1>7 DEF TaskOf, Exists
<1>10. RunsAlone'
  <2>1. \A v \in Worker : Busy(v) => worker[v].job \in Job /\ worker[v].job # j
    BY <1>2 DEF RiverInv, RunsAlone, SenderInv, WorkersKnow, Knows, Busy
  <2>2. QED
    BY <1>2, <1>7, <2>1 DEF RiverInv, RunsAlone, Busy
<1>11. LatestKnown'
  BY <1>2, <1>5, <1>8, <1>9 DEF RiverInv, LatestKnown
<1>12. StatusShowsLatest'
  <2>1. ASSUME NEW u \in Task, u # t
        PROVE  /\ task'[u].status = "pending" => marker'[Latest(u)'] \in {"absent", "reserved"}
               /\ task'[u].status = "cancelled" => river'[Latest(u)'].state = "deleted"
    <3>1. task'[u] = task[u] /\ Latest(u)' = Latest(u) /\ marker' = marker
      BY <1>2, <1>5, <1>8, <2>1
    <3>2. task[u].status = "cancelled" => /\ Latest(u) \in Job
                                          /\ river[Latest(u)].state = "deleted"
      BY DEF RiverInv, StatusShowsLatest, LatestKnown, SenderInv, JobsKnown
    <3>3. QED
      BY <1>7, <3>1, <3>2 DEF RiverInv, StatusShowsLatest
  <2>2. QED
    BY <1>6, <1>7, <1>8, <2>1 DEF RiverInv, StatusShowsLatest, j
<1>13. OldJobsDone'
  BY <1>2, <1>5, <1>7, <1>9 DEF RiverInv, OldJobsDone
<1>14. CancelsDeleted'
  BY <1>1, <1>2, <1>4, <1>7 DEF RiverInv, CancelsDeleted
<1>15. CurrentIsLatest'
  BY <1>5, <1>8 DEF RiverInv, CurrentIsLatest
<1>16. QED
  BY <1>10, <1>11, <1>12, <1>13, <1>14, <1>15 DEF RiverInv

\* A worker's step on the attempt it runs: the task may come to show the job, if
\* it is the latest one, and nothing goes back.
LEMMA RunKeeps ==
  ASSUME RiverInv, SenderInv', NEW w \in Worker, Busy(w),
         UNCHANGED <<links, river, receipts>>,
         worker'[w].job = worker[w].job,
         \A v \in Worker : v # w => worker'[v] = worker[v],
         LET j == worker[w].job
             t == TaskOf(worker[w].job)
         IN /\ \A i \in Job : i # j => marker'[i] = marker[i] /\ history'[i] = history[i]
            /\ \A u \in Task : u # t => task'[u] = task[u]
            /\ history[j][1] \notin {"absent", "reserved"}
                 => history'[j][1] \notin {"absent", "reserved"}
            /\ \/ task'[t] = task[t]
               \/ /\ j = Latest(t)
                  /\ task'[t].status \notin {"absent", "pending", "cancelled"}
                  /\ task'[t].current = j
            /\ task'[t].status = "pending" /\ j = Latest(t)
                 => marker'[j] \in {"absent", "reserved"}
  PROVE  RiverInv'
<1> DEFINE j == worker[w].job
           t == TaskOf(j)
<1>1. j \in Job /\ river[j].state = "running" /\ j # NoJob
  BY ConstantsAssumption DEF RiverInv, RunsAlone, SenderInv, WorkersKnow, Knows, Busy
<1>2. t \in Task
  BY <1>1 DEF RiverInv, SenderInv, JobsKnown, TaskOf, Exists
<1>3. /\ \A i \in Job : i # j => marker'[i] = marker[i] /\ history'[i] = history[i]
      /\ \A u \in Task : u # t => task'[u] = task[u]
      /\ history[j][1] \notin {"absent", "reserved"}
           => history'[j][1] \notin {"absent", "reserved"}
      /\ \/ task'[t] = task[t]
         \/ /\ j = Latest(t)
            /\ task'[t].status \notin {"absent", "pending", "cancelled"}
            /\ task'[t].current = j
      /\ task'[t].status = "pending" /\ j = Latest(t) => marker'[j] \in {"absent", "reserved"}
  OBVIOUS
<1>4. /\ \A u : Latest(u)' = Latest(u)
      /\ \A i : TaskOf(i)' = TaskOf(i) /\ (Exists(i)' <=> Exists(i))
  BY DEF Latest, TaskOf, Exists
<1>5. worker'[w].job = j /\ links' = links /\ river' = river /\ receipts' = receipts
  OBVIOUS
<1> HIDE DEF j, t
<1>6. RunsAlone'
  BY <1>1, <1>5 DEF RiverInv, RunsAlone, Busy, j
<1>7. LatestKnown'
  BY <1>3, <1>4, <1>5 DEF RiverInv, LatestKnown
<1>8. StatusShowsLatest'
  <2>1. ASSUME NEW u \in Task
        PROVE  /\ task'[u].status = "pending" => marker'[Latest(u)] \in {"absent", "reserved"}
               /\ task'[u].status = "cancelled" => river[Latest(u)].state = "deleted"
               /\ task'[u].status \notin {"absent", "pending", "cancelled"}
                    => task'[u].current # NoJob
    <3>1. task'[u] = task[u] \/ (u = t /\ task'[t].current = j
                                 /\ task'[t].status \notin {"absent", "pending", "cancelled"})
      BY <1>3
    <3>2. CASE task'[u] = task[u]
      <4>1. task[u].status = "pending" => Latest(u) \in Job /\ TaskOf(Latest(u)) = u
        BY DEF RiverInv, LatestKnown, SenderInv, JobsKnown
      <4>2. task[u].status = "pending" => marker'[Latest(u)] \in {"absent", "reserved"}
        BY <1>3, <3>2, <4>1 DEF RiverInv, StatusShowsLatest, t
      <4>3. QED
        BY <3>2, <4>2 DEF RiverInv, StatusShowsLatest
    <3>3. QED
      BY <1>1, <3>1, <3>2
  <2>2. QED
    BY <1>4, <1>5, <2>1 DEF StatusShowsLatest
<1>9. OldJobsDone'
  BY <1>3, <1>4, <1>5 DEF RiverInv, OldJobsDone
<1>10. CancelsDeleted'
  BY <1>1, <1>3, <1>5 DEF RiverInv, CancelsDeleted
<1>11. CurrentIsLatest'
  BY <1>3, <1>4 DEF RiverInv, CurrentIsLatest
<1>12. QED
  BY <1>6, <1>7, <1>8, <1>9, <1>10, <1>11 DEF RiverInv

\* The job that takes over a pending or a refused task is its latest one: an old
\* job was deleted, which nobody runs, or its first row is no longer reserved.
LEMMA SendableLatest ==
  ASSUME RiverInv, NEW w \in Worker, Busy(w),
         LET j == worker[w].job
             k == worker[w].attempt
         IN Sendable(j, k) /\ (k = 1 => history[j][1] = "reserved" \/ task[TaskOf(j)].current = j)
  PROVE  worker[w].job = Latest(TaskOf(worker[w].job))
<1> DEFINE j == worker[w].job
           k == worker[w].attempt
<1>1. j \in Job /\ river[j].state = "running" /\ j # NoJob
  BY ConstantsAssumption DEF RiverInv, RunsAlone, SenderInv, WorkersKnow, Knows, Busy
<1>2. TaskOf(j) \in Task /\ Exists(j)
  BY <1>1 DEF RiverInv, SenderInv, JobsKnown, TaskOf, Exists
<1>3. CASE task[TaskOf(j)].current = j
  BY <1>1, <1>2, <1>3 DEF RiverInv, CurrentIsLatest
<1>4. CASE history[j][1] = "reserved"
  BY <1>1, <1>2, <1>4 DEF RiverInv, OldJobsDone
<1>5. QED
  BY <1>3, <1>4 DEF Sendable

\* A worker's steps but for the end of its job.
LEMMA WorkLatest ==
  ASSUME RiverInv, SenderInv', NEW w \in Worker,
         \/ Reserve(w) \/ ReserveConflict(w) \/ Start(w) \/ StartLost(w) \/ StartRejected(w)
         \/ Send(w) \/ Complete(w) \/ Project(w) \/ SettleRejected(w) \/ Fail(w)
  PROVE  RiverInv'
<1> DEFINE j == worker[w].job
           k == worker[w].attempt
           t == TaskOf(j)
<1>1. /\ Busy(w) /\ UNCHANGED <<links, river, receipts>>
      /\ \E pc, r : worker' \in {[worker EXCEPT ![w].pc = pc],
                                 [worker EXCEPT ![w].pc = pc, ![w].result = r]}
  BY DEF Busy, Goto, ProjectWithin, Reserve, ReserveConflict, Start, StartLost, StartRejected,
         Send, Complete, Project, SettleRejected, Fail
<1>2. /\ worker'[w].job = worker[w].job
      /\ \A v \in Worker : v # w => worker'[v] = worker[v]
  BY <1>1 DEF RiverInv, SenderInv, TypeOK, WorkerRow
<1>3. j \in Job /\ k \in Attempt /\ t \in Task /\ river[j].state = "running"
  BY <1>1 DEF RiverInv, RunsAlone, SenderInv, WorkersKnow, Knows, Busy, JobsKnown, TaskOf,
              Exists
<1>4. /\ task \in [Task -> TaskRow] /\ marker \in [Job -> AttemptState]
      /\ history \in [Job -> [Attempt -> AttemptState]]
  BY DEF RiverInv, SenderInv, TypeOK
<1>5. 1 \in Attempt
  BY ConstantsAssumption DEF Attempt
<1>6. task[t].status = "pending" /\ j = Latest(t) => marker[j] \in {"absent", "reserved"}
  BY <1>3 DEF RiverInv, StatusShowsLatest
<1>7. CASE UNCHANGED <<task, marker, history>>
  BY <1>1, <1>2, <1>6, <1>7, RunKeeps
<1>8. CASE Reserve(w)
  <2>1. /\ marker' = [marker EXCEPT ![j] = MarkerAfterUpsert(j)]
        /\ history' = [history EXCEPT ![j] = Reserved(Backfilled(j), k)]
        /\ task' = task
    BY <1>8 DEF Reserve
  <2>2. history[j][1] \notin {"absent", "reserved"}
          => Reserved(Backfilled(j), k)[1] \notin {"absent", "reserved"}
    BY <1>3, <1>4, <1>5 DEF Reserved, Backfilled
  <2>3. marker[j] \in {"absent", "reserved"} => marker'[j] \in {"absent", "reserved"}
    BY <1>3, <1>4, <2>1 DEF MarkerAfterUpsert
  <2> HIDE DEF j, k, t
  <2>4. /\ \A i \in Job : i # j => marker'[i] = marker[i] /\ history'[i] = history[i]
        /\ history[j][1] \notin {"absent", "reserved"}
             => history'[j][1] \notin {"absent", "reserved"}
    BY <1>3, <1>4, <2>1, <2>2
  <2>5. QED
    BY <1>1, <1>2, <1>6, <2>1, <2>3, <2>4, RunKeeps DEF j, t
<1>9. CASE Start(w)
  <2>1. /\ Startable(j, k)
        /\ history' = [history EXCEPT ![j][k] = "dispatching"]
        /\ marker' = [marker EXCEPT ![j] = "dispatching"]
        /\ task' = [task EXCEPT ![t] = [status |-> "sending", count |-> k, current |-> j]]
    BY <1>9 DEF Start, MarkTaskSending
  <2>2. Sendable(j, k) /\ history[j][k] = "reserved"
    BY <2>1 DEF Startable
  <2>3. j = Latest(t)
    BY <1>1, <2>2, SendableLatest
  <2> HIDE DEF j, k, t
  <2>4. /\ \A i \in Job : i # j => marker'[i] = marker[i] /\ history'[i] = history[i]
        /\ history[j][1] \notin {"absent", "reserved"}
             => history'[j][1] \notin {"absent", "reserved"}
        /\ task'[t].status = "sending" /\ task'[t].current = j
        /\ \A u \in Task : u # t => task'[u] = task[u]
    BY <1>3, <1>4, <1>5, <2>1
  <2>5. QED
    BY <1>1, <1>2, <2>3, <2>4, RunKeeps DEF j, t
<1>10. CASE StartLost(w) /\ ~UNCHANGED task
  <2>1. /\ history[j][k] = "dispatching" /\ Sendable(j, k)
        /\ task' = [task EXCEPT ![t] = [status |-> "sending", count |-> k, current |-> j]]
        /\ UNCHANGED <<marker, history>>
    BY <1>10 DEF StartLost, MarkTaskSending
  <2>2. task[t].current = j
    BY <1>3, <2>1, OpenStatus DEF RiverInv
  <2>3. j = Latest(t)
    BY <1>1, <2>1, <2>2, SendableLatest
  <2> HIDE DEF j, k, t
  <2>4. /\ task'[t].status = "sending" /\ task'[t].current = j
        /\ \A u \in Task : u # t => task'[u] = task[u]
    BY <1>3, <1>4, <2>1
  <2>5. QED
    BY <1>1, <1>2, <2>1, <2>3, <2>4, RunKeeps DEF j, t
<1>11. CASE Complete(w) \/ Project(w)
  <2> DEFINE s == IF worker[w].pc = "replayed" THEN history[j][k]
                  ELSE Settled(history[j][k], Verdict(w))
  <2>1. s \in Result
    <3>1. CASE Complete(w)
      BY <3>1 DEF Complete, Completable, Terminal
    <3>2. CASE Project(w)
      BY <3>2 DEF Project, RiverInv, SenderInv, WorkersKnow, Knows, RowOf
    <3>3. QED
      BY <1>11, <3>1, <3>2
  <2>2. task' = [task EXCEPT ![t] = Projected(task[t], j, k, s)]
    BY <1>11 DEF Complete, Project, ProjectWithin
  <2>3. \/ UNCHANGED <<marker, history>>
        \/ /\ history' = [history EXCEPT ![j][k] = s]
           /\ marker' = [marker EXCEPT ![j] = s]
           /\ Terminal(Settled(marker[j], Verdict(w)))
    BY <1>11 DEF Complete, Completable, Project
  <2> HIDE DEF s, j, k, t
  <2>4. /\ \A i \in Job : i # j => marker'[i] = marker[i] /\ history'[i] = history[i]
        /\ history[j][1] \notin {"absent", "reserved"}
             => history'[j][1] \notin {"absent", "reserved"}
        /\ marker[j] \in {"absent", "reserved"} => marker'[j] = marker[j]
    BY <1>3, <1>4, <1>5, <2>1, <2>3 DEF Terminal, Settled, Result
  <2>5. \A u \in Task : u # t => task'[u] = task[u]
    BY <1>4, <2>2
  <2>6. CASE Projects(task[t], j, k, s)
    <3>1. task'[t].status = StatusOf(s) /\ task'[t].current = j
      BY <1>3, <1>4, <2>2, <2>6 DEF Projected
    <3>2. j = Latest(t) /\ task'[t].status \notin {"absent", "pending", "cancelled"}
      <4>1. j = Latest(t)
        BY <1>3, <2>6, ConstantsAssumption DEF Projects, RiverInv, CurrentIsLatest
      <4>2. QED
        BY <2>1, <3>1, <4>1 DEF StatusOf, Result
    <3>3. QED
      BY <1>1, <1>2, <2>4, <2>5, <3>1, <3>2, RunKeeps DEF j, t
  <2>7. CASE ~Projects(task[t], j, k, s)
    <3>1. task'[t] = task[t]
      BY <1>3, <1>4, <2>2, <2>7 DEF Projected
    <3>2. QED
      BY <1>1, <1>2, <1>6, <2>4, <2>5, <3>1, RunKeeps DEF j, t
  <2>8. QED
    BY <2>6, <2>7
<1>12. QED
  BY <1>7, <1>8, <1>9, <1>10, <1>11
     DEF ReserveConflict, StartLost, StartRejected, Send, SettleRejected, Fail

\* Every step keeps it, as long as River runs a job once at a time.
LEMMA RiverStep ==
  ASSUME RiverExclusive
  PROVE  RiverInv /\ [Next]_vars => RiverInv'
<1> SUFFICES ASSUME RiverInv, [Next]_vars
             PROVE  RiverInv'
  OBVIOUS
<1>1. SenderInv'
  BY SenderStep DEF RiverInv
<1>2. ASSUME NEW t \in Task, NEW j \in Job, Enqueue(t, j)
      PROVE  RiverInv'
  BY <1>1, <1>2, InsertLatest DEF Enqueue, RiverInv, SenderInv, TypeOK, TaskRow, JobsKnown
<1>3. ASSUME NEW t \in Task, NEW key \in Key, Cancel(t, key)
      PROVE  RiverInv'
  BY <1>1, <1>3, CancelLatest
<1>4. ASSUME NEW t \in Task, NEW key \in Key, NEW j \in Job, ManualRetry(t, key, j)
      PROVE  RiverInv'
  BY <1>1, <1>4, InsertLatest DEF ManualRetry, UseKey, RiverInv, SenderInv, TypeOK
<1>5. ASSUME NEW w \in Worker, NEW j \in Job, Fetch(w, j) \/ Replay(w, j)
      PROVE  RiverInv'
  BY <1>1, <1>5, RiverSteps DEF Replay, RiverExclusive
<1>6. ASSUME NEW j \in Job, Rescue(j)
      PROVE  RiverInv'
  BY <1>1, <1>6, RiverSteps
<1>7. ASSUME NEW w \in Worker, WorkerStep(w) \/ Crash(w) \/ Fail(w)
      PROVE  RiverInv'
  BY <1>1, <1>7, RiverSteps, WorkLatest DEF WorkerStep
<1>8. CASE UNCHANGED vars
  BY <1>1, <1>8, RiverMoves DEF vars, RiverInv, RunsAlone, Busy
<1>9. QED
  BY <1>2, <1>3, <1>4, <1>5, <1>6, <1>7, <1>8 DEF Next

\* In every reachable state the inductive invariant holds, if River runs a job
\* once at a time.
THEOREM RiverInvariant ==
  ASSUME RiverExclusive
  PROVE  Spec => []RiverInv
  BY RiverInit, RiverStep, PTL DEF Spec

\* An old job never takes over a task that an operator has retried, if River
\* runs a job once at a time.
THEOREM LatestShown ==
  ASSUME RiverExclusive
  PROVE  Spec => []CurrentIsLatest
<1>1. RiverInv => CurrentIsLatest
  BY DEF RiverInv
<1>2. QED
  BY <1>1, RiverInvariant, PTL

\* A job whose cancellation was receipted is never dispatched, if River runs a
\* job once at a time.
THEOREM CancelledStaySilent ==
  ASSUME RiverExclusive
  PROVE  Spec => []CancelledJobSilent
<1>1. RiverInv => CancelledJobSilent
  BY DEF RiverInv, CancelsDeleted, CancelledJobSilent
<1>2. QED
  BY <1>1, RiverInvariant, PTL

-----------------------------------------------------------------------------
(* The sender, with its controls and River, implements OutboundPromise:    *)
(* every transaction, provider call, crash and command is one step of the  *)
(* promise for one task, or changes nothing the promise speaks of.         *)

\* The promise's variables, as the sender's state shows them.
PhaseOf == [t \in Task |-> task[t].status]
ArmedOf == [t \in Task |-> Armed(t)]
HeardOf == [t \in Task |-> Heard(t)]

\* A worker that may call, or holds an answer, for the task.
Serves(w, t) == Live(w) /\ TaskOf(worker[w].job) = t

-----------------------------------------------------------------------------
(* Who is heard.                                                           *)

\* At most one worker serves a task.
LEMMA ServesAlone ==
  ASSUME SenderInv, NEW t, NEW v \in Worker, NEW w \in Worker, Serves(v, t), Serves(w, t)
  PROVE  v = w
<1>1. /\ Shows(worker[v].job, worker[v].attempt)
      /\ Shows(worker[w].job, worker[w].attempt)
  BY DEF SenderInv, LiveShown, Serves
<1>2. worker[v].job = worker[w].job
  BY <1>1 DEF Shows, Serves
<1>3. QED
  BY <1>2 DEF SenderInv, OneLive, Serves

\* What the promise sees of a task that no worker serves.
LEMMA Unserved ==
  ASSUME NEW t, \A w \in Worker : ~Serves(w, t)
  PROVE  Armed(t) = FALSE /\ Heard(t) = "none"
<1>1. Armed(t) = FALSE
  BY DEF Armed, Serves, Live
<1>2. Hearing(t) = {}
  BY DEF Hearing, Serves, Live
<1>3. QED
  BY <1>1, <1>2 DEF Heard

\* The same after a step.
LEMMA UnservedNext ==
  ASSUME NEW t \in Task, \A w \in Worker : ~Serves(w, t)'
  PROVE  Armed(t)' = FALSE /\ Heard(t)' = "none"
<1>1. Armed(t)' = FALSE
  BY DEF Armed, Serves, Live
<1>2. Hearing(t)' = {}
  BY DEF Hearing, Serves, Live
<1>3. QED
  BY <1>1, <1>2 DEF Heard

\* What it sees of a task that one worker serves.
LEMMA Served ==
  ASSUME SenderInv, NEW t, NEW w \in Worker, Serves(w, t)
  PROVE  /\ Armed(t) = (worker[w].pc = "dispatch")
         /\ Heard(t) = IF worker[w].pc = "answered" THEN worker[w].result ELSE "none"
<1>1. \A v \in Worker : Serves(v, t) => v = w
  BY ServesAlone
<1>2. Armed(t) = (worker[w].pc = "dispatch")
  BY <1>1 DEF Armed, Serves, Live
<1>3. Hearing(t) = IF worker[w].pc = "answered" THEN {w} ELSE {}
  BY <1>1 DEF Hearing, Serves, Live
<1>4. QED
  BY <1>2, <1>3 DEF Heard

\* A step that leaves the workers that serve a task leaves what is seen of it.
LEMMA SeenSame ==
  ASSUME NEW t \in Task,
         \A w \in Worker : Serves(w, t)' <=> Serves(w, t),
         \A w \in Worker : Serves(w, t) => worker'[w] = worker[w]
  PROVE  Armed(t)' = Armed(t) /\ Heard(t)' = Heard(t)
<1>1. Armed(t)' = Armed(t)
  BY DEF Armed, Serves, Live
<1>2. Hearing(t)' = Hearing(t)
  BY DEF Hearing, Serves, Live
<1>3. Hearing(t) # {} => (CHOOSE w \in Hearing(t) : TRUE) \in Hearing(t)
  OBVIOUS
<1>4. \A w \in Hearing(t) : worker'[w] = worker[w]
  BY DEF Hearing, Serves, Live
<1>5. Heard(t)' = Heard(t)
  BY <1>2, <1>3, <1>4 DEF Heard
<1>6. QED
  BY <1>1, <1>5

\* A step of one worker leaves what is seen of every task it does not serve.
LEMMA SeenElsewhere ==
  ASSUME SenderInv, NEW w \in Worker, \A v \in Worker \ {w} : worker'[v] = worker[v],
         \A j \in Job : river'[j].task = river[j].task,
         NEW t \in Task, ~Serves(w, t), ~Serves(w, t)'
  PROVE  Armed(t)' = Armed(t) /\ Heard(t)' = Heard(t)
<1>1. \A v \in Worker : Serves(v, t)' <=> Serves(v, t)
  <2>1. \A v \in Worker : Live(v) => worker[v].job \in Job
    BY DEF SenderInv, WorkersKnow, Knows, Live
  <2>2. QED
    BY <2>1 DEF Serves, Live, TaskOf
<1>2. \A v \in Worker : Serves(v, t) => worker'[v] = worker[v]
  OBVIOUS
<1>3. QED
  BY <1>1, <1>2, SeenSame

-----------------------------------------------------------------------------
(* The promise's steps, by what changes for one task.                      *)

Unseen(t) == Armed(t)' = Armed(t) /\ Heard(t)' = Heard(t)

\* A step that leaves everything the promise speaks of.
LEMMA Stutters ==
  ASSUME UNCHANGED <<task, delivered>>, \A t \in Task : Unseen(t)
  PROVE  [Promise!Next]_(Promise!pvars)
<1>1. ArmedOf' = ArmedOf /\ HeardOf' = HeardOf /\ PhaseOf' = PhaseOf
  BY DEF ArmedOf, HeardOf, PhaseOf, Unseen
<1>2. QED
  BY <1>1 DEF Promise!pvars, ArmedOf, HeardOf, PhaseOf

\* A step that changes the status of one task, from and to what one of the
\* promise's commands allows.
LEMMA Commands ==
  ASSUME task \in [Task -> TaskRow], NEW t \in Task,
         \A u \in Task \ {t} : task'[u] = task[u],
         task' \in [Task -> TaskRow],
         UNCHANGED delivered, \A u \in Task : Unseen(u),
         \/ task[t].status = "absent" /\ task'[t].status = "pending"
         \/ task[t].status = "pending" /\ task'[t].status = "cancelled"
         \/ task[t].status \in {"final_failed", "cancelled"} /\ task'[t].status = "pending"
         \/ task[t].status = "sending" /\ task'[t].status = "outcome_unknown"
  PROVE  Promise!Next
<1>1. ArmedOf' = ArmedOf /\ HeardOf' = HeardOf
  BY DEF ArmedOf, HeardOf, Unseen
<1>2. PhaseOf' = [PhaseOf EXCEPT ![t] = task'[t].status]
  BY DEF PhaseOf
<1>3. PhaseOf[t] = task[t].status
  BY DEF PhaseOf
<1>4. Promise!Accept(t) \/ Promise!Cancel(t) \/ Promise!ManualRetry(t) \/ Promise!GiveUp(t)
  BY <1>1, <1>2, <1>3 DEF Promise!Accept, Promise!Cancel, Promise!ManualRetry,
     Promise!GiveUp, ArmedOf, HeardOf, PhaseOf
<1>5. QED
  BY <1>4 DEF Promise!Next

\* A worker that stops serving its task forgets what the promise saw of it.
LEMMA Forgets ==
  ASSUME SenderInv, NEW w \in Worker, \A v \in Worker \ {w} : worker'[v] = worker[v],
         \A j \in Job : river'[j].task = river[j].task, ~Live(w)', UNCHANGED <<task, delivered>>
  PROVE  [Promise!Next]_(Promise!pvars)
<1>1. \A u \in Task : ~Serves(w, u)'
  BY DEF Serves
<1>2. CASE ~Live(w)
  <2>1. \A u \in Task : ~Serves(w, u)
    BY <1>2 DEF Serves
  <2>2. \A u \in Task : Unseen(u)
    BY <1>1, <2>1, SeenElsewhere DEF Unseen
  <2>3. QED
    BY <2>2, Stutters
<1>3. CASE Live(w)
  <2>1. PICK t \in Task : t = TaskOf(worker[w].job) /\ Serves(w, t)
    BY <1>3, LiveStatus DEF Serves
  <2>2. \A u \in Task \ {t} : Unseen(u)
    <3>1. \A u \in Task \ {t} : ~Serves(w, u)
      BY <2>1 DEF Serves
    <3>2. QED
      BY <1>1, <3>1, SeenElsewhere DEF Unseen
  <2>3. \A v \in Worker : ~Serves(v, t)'
    <3>1. \A v \in Worker \ {w} : ~Serves(v, t)
      BY <2>1, ServesAlone
    <3>2. \A v \in Worker : Live(v) => worker[v].job \in Job
      BY DEF SenderInv, WorkersKnow, Knows, Live
    <3>3. QED
      BY <1>1, <2>1, <3>1, <3>2 DEF Serves, Live, TaskOf
  <2>4. Armed(t)' = FALSE /\ Heard(t)' = "none"
    BY <2>1, <2>3, UnservedNext
  <2>5. ArmedOf' = [ArmedOf EXCEPT ![t] = FALSE]
    BY <2>1, <2>2, <2>4 DEF ArmedOf, Unseen
  <2>6. HeardOf' = [HeardOf EXCEPT ![t] = "none"]
    BY <2>1, <2>2, <2>4 DEF HeardOf, Unseen
  <2>7. Promise!Forget(t)
    BY <2>5, <2>6 DEF Promise!Forget, ArmedOf, HeardOf
  <2>8. QED
    BY <2>1, <2>7 DEF Promise!Next
<1>4. QED
  BY <1>2, <1>3

\* The initial states are initial states of the promise.
LEMMA InitRefines == Init => Promise!Init
<1> SUFFICES ASSUME Init
             PROVE  Promise!Init
  OBVIOUS
<1>1. \A t \in Task : Armed(t) = FALSE /\ Heard(t) = "none"
  <2>1. \A w \in Worker, t \in Task : ~Serves(w, t)
    BY DEF Init, Idle, Serves, Live
  <2>2. QED
    BY <2>1, Unserved
<1>2. QED
  BY <1>1 DEF Init, Promise!Init

-----------------------------------------------------------------------------
(* Steps.                                                                  *)

\* Enqueue and ManualRetry are the promise's Accept and ManualRetry: the job
\* they insert is served by nobody.
LEMMA InsertRefines ==
  ASSUME SenderInv, SenderInv', NEW t \in Task, NEW j \in Job,
         Enqueue(t, j) \/ \E key \in Key : ManualRetry(t, key, j)
  PROVE  Promise!Next
<1> USE DEF SenderInv
<1>1. InsertJob(t, j) /\ UNCHANGED <<worker, delivered>>
  BY DEF Enqueue, ManualRetry
<1>2. \A w \in Worker : worker[w].pc # "idle" => worker[w].job \in Job \ {j}
  BY <1>1 DEF InsertJob, WorkersKnow, Knows, Exists
<1>3. \A i \in Job \ {j} : river'[i] = river[i]
  BY <1>1 DEF InsertJob, TypeOK
<1>4. \A u \in Task : Unseen(u)
  <2> SUFFICES ASSUME NEW u \in Task
               PROVE  Unseen(u)
    OBVIOUS
  <2>1. \A w \in Worker : Serves(w, u)' <=> Serves(w, u)
    BY <1>1, <1>2, <1>3 DEF Serves, Live, TaskOf
  <2>2. QED
    BY <1>1, <2>1, SeenSame DEF Unseen
<1>5. /\ task \in [Task -> TaskRow] /\ task' \in [Task -> TaskRow]
      /\ \A u \in Task \ {t} : task'[u] = task[u]
      /\ \/ task[t].status = "absent"
         \/ task[t].status \in {"final_failed", "cancelled"}
      /\ task'[t].status = "pending"
  BY DEF TypeOK, TaskRow, Enqueue, ManualRetry, ManuallyRetryable
<1>6. QED
  BY <1>1, <1>4, <1>5, Commands

\* Cancel is the promise's Cancel.
LEMMA CancelRefines ==
  ASSUME SenderInv, SenderInv', NEW t \in Task, NEW key \in Key, Cancel(t, key)
  PROVE  Promise!Next
<1> USE DEF SenderInv
<1>1. \A j \in Job : river'[j].task = river[j].task
  BY DEF Cancel, TypeOK, RiverRow
<1>2. UNCHANGED <<worker, delivered>>
  BY DEF Cancel
<1>3. \A u \in Task : Unseen(u)
  <2> SUFFICES ASSUME NEW u \in Task
               PROVE  Unseen(u)
    OBVIOUS
  <2>1. \A w \in Worker : Serves(w, u)' <=> Serves(w, u)
    BY <1>1, <1>2 DEF Serves, Live, TaskOf, WorkersKnow, Knows
  <2>2. QED
    BY <1>2, <2>1, SeenSame DEF Unseen
<1>4. /\ task \in [Task -> TaskRow] /\ task' \in [Task -> TaskRow]
      /\ \A u \in Task \ {t} : task'[u] = task[u]
      /\ task[t].status = "pending" /\ task'[t].status = "cancelled"
  BY DEF TypeOK, TaskRow, Cancel
<1>5. QED
  BY <1>2, <1>3, <1>4, Commands

\* Start is the promise's Dispatch: nobody served the task, and now its worker
\* is about to call.
LEMMA StartRefines ==
  ASSUME SenderInv, NEW w \in Worker, Start(w)
  PROVE  Promise!Next
<1> USE DEF SenderInv
<1> DEFINE j == worker[w].job
           k == worker[w].attempt
<1>1. j \in Job /\ k \in Attempt /\ Exists(j) /\ worker[w].pc = "reserved"
  BY DEF WorkersKnow, Knows, Start
<1>2. PICK t \in Task : t = TaskOf(j)
  BY <1>1 DEF JobsKnown, TaskOf
<1>3. /\ task[t].status \in {"pending", "retryable_failed"}
      /\ \A v \in Worker : ~Serves(v, t)
  BY <1>1, <1>2, StartFinds DEF Start, Serves
<1>4. /\ task' = [task EXCEPT ![t] = [status |-> "sending", count |-> k, current |-> j]]
      /\ UNCHANGED <<river, delivered>>
  BY <1>2 DEF Start, MarkTaskSending
<1>5. /\ \A v \in Worker \ {w} : worker'[v] = worker[v]
      /\ worker'[w].pc = "dispatch" /\ worker'[w].job = j
  BY DEF Start, Goto, TypeOK, WorkerRow
<1>6. Armed(t)' = TRUE
  BY <1>2, <1>4, <1>5 DEF Armed, TaskOf
<1>7. Heard(t)' = Heard(t)
  <2>1. Hearing(t)' = {} /\ Hearing(t) = {}
    BY <1>3, <1>4, <1>5 DEF Hearing, Serves, Live, TaskOf
  <2>2. QED
    BY <2>1 DEF Heard
<1>8. \A u \in Task \ {t} : Unseen(u)
  <2> SUFFICES ASSUME NEW u \in Task \ {t}
               PROVE  Unseen(u)
    OBVIOUS
  <2>1. ~Serves(w, u) /\ ~Serves(w, u)'
    BY <1>1, <1>2, <1>4, <1>5 DEF Serves, Live, TaskOf
  <2>2. QED
    BY <1>4, <1>5, <2>1, SeenElsewhere DEF Unseen
<1>9. PhaseOf' = [PhaseOf EXCEPT ![t] = "sending"] /\ PhaseOf[t] = task[t].status
  BY <1>4 DEF PhaseOf, TypeOK
<1>10. ArmedOf' = [ArmedOf EXCEPT ![t] = TRUE]
  BY <1>6, <1>8 DEF ArmedOf, Unseen
<1>11. HeardOf' = HeardOf
  BY <1>7, <1>8 DEF HeardOf, Unseen
<1>12. Promise!Dispatch(t)
  BY <1>3, <1>4, <1>9, <1>10, <1>11 DEF Promise!Dispatch, PhaseOf, ArmedOf, HeardOf
<1>13. QED
  BY <1>12 DEF Promise!Next

\* Send is the promise's Call: the only worker that serves the task calls, and
\* hears the answer.
LEMMA SendRefines ==
  ASSUME SenderInv, NEW w \in Worker, Send(w)
  PROVE  Promise!Next
<1> USE DEF SenderInv
<1> DEFINE j == worker[w].job
<1>1. worker[w].pc = "dispatch" /\ Live(w)
  BY DEF Send, Live
<1>2. PICK t \in Task : t = TaskOf(j) /\ Serves(w, t)
  BY <1>1, LiveStatus DEF Serves
<1>3. PICK r \in Result, d \in {0, 1} :
        /\ r = "succeeded" => d = 1
        /\ r \in {"retryable_failed", "final_failed"} => d = 0
        /\ worker' = [worker EXCEPT ![w].pc = "answered", ![w].result = r]
        /\ delivered' = [delivered EXCEPT ![t] = @ + d]
  BY <1>2 DEF Send, Deliveries
<1>4. UNCHANGED <<task, river>>
  BY DEF Send
<1>5. /\ \A v \in Worker \ {w} : worker'[v] = worker[v]
      /\ worker'[w].pc = "answered" /\ worker'[w].result = r /\ worker'[w].job = j
  BY <1>3 DEF TypeOK, WorkerRow
<1>6. \A v \in Worker \ {w} : ~Serves(v, t)
  BY <1>2, ServesAlone
<1>7. Armed(t) = TRUE /\ Armed(t)' = FALSE
  BY <1>1, <1>2, <1>4, <1>5, <1>6 DEF Armed, Serves, Live, TaskOf
<1>8. Heard(t)' = r
  <2>1. Hearing(t)' = {w}
    BY <1>2, <1>4, <1>5, <1>6 DEF Hearing, Serves, Live, TaskOf
  <2>2. QED
    BY <1>5, <2>1 DEF Heard
<1>9. \A u \in Task \ {t} : Unseen(u)
  <2> SUFFICES ASSUME NEW u \in Task \ {t}
               PROVE  Unseen(u)
    OBVIOUS
  <2>1. ~Serves(w, u) /\ ~Serves(w, u)'
    BY <1>2, <1>4, <1>5 DEF Serves, TaskOf
  <2>2. QED
    BY <1>4, <1>5, <2>1, SeenElsewhere DEF Unseen
<1>10. ArmedOf[t] /\ ArmedOf' = [ArmedOf EXCEPT ![t] = FALSE]
  BY <1>7, <1>9 DEF ArmedOf, Unseen
<1>11. HeardOf' = [HeardOf EXCEPT ![t] = r]
  BY <1>8, <1>9 DEF HeardOf, Unseen
<1>12. PhaseOf' = PhaseOf
  BY <1>4 DEF PhaseOf
<1>13. Promise!Call(t)
  BY <1>3, <1>10, <1>11, <1>12
     DEF Promise!Call, Promise!Answers, Result, PhaseOf, ArmedOf, HeardOf
<1>14. QED
  BY <1>13 DEF Promise!Next

\* Complete is the promise's Store for an answer in hand, its GiveUp for an
\* interrupted dispatch, and otherwise forgets the answer.
LEMMA CompleteRefines ==
  ASSUME SenderInv, SenderInv', NEW w \in Worker, Complete(w)
  PROVE  [Promise!Next]_(Promise!pvars)
<1> USE DEF SenderInv
<1> DEFINE j == worker[w].job
           k == worker[w].attempt
           s == Verdict(w)
<1>1. j \in Job /\ k \in Attempt /\ Exists(j) /\ worker[w].pc \in {"answered", "interrupted"}
  BY DEF WorkersKnow, Knows, Complete
<1>2. UNCHANGED <<river, delivered>>
  BY DEF Complete
<1>3. /\ \A v \in Worker \ {w} : worker'[v] = worker[v]
      /\ worker'[w].pc \in {"ok", "err"}
  <2>1. PICK r : worker' = [worker EXCEPT ![w].pc = ReturnOf(r)]
    BY DEF Complete, ProjectWithin, Goto
  <2>2. QED
    BY <2>1, Returns DEF TypeOK, WorkerRow
<1>4. ~Live(w)'
  BY <1>3 DEF Live
<1>5. CASE history[j][k] # "dispatching"
  <2>1. history[j][k] \in Result
    BY <1>5, CompleteFinds
  <2>2. ProjectWithin(w, j, k, history[j][k])
    BY <1>5 DEF Complete, Settled
  <2>3. UNCHANGED task
    BY <1>1, <2>1, <2>2, ProjectSettled
  <2>4. QED
    BY <1>2, <1>3, <1>4, <2>3, Forgets
<1>6. CASE history[j][k] = "dispatching"
  <2>1. PICK t \in Task : t = TaskOf(j)
    BY <1>1 DEF JobsKnown, TaskOf
  <2>2. task[t] = [status |-> "sending", count |-> k, current |-> j]
    BY <1>1, <1>6, <2>1, OpenStatus
  <2>3. s \in Result
    BY <1>1 DEF Verdict, WorkersKnow, Knows, Result
  <2>4. task' = [task EXCEPT ![t] = [status |-> StatusOf(s), count |-> k, current |-> j]]
    <3>1. ProjectWithin(w, j, k, s)
      BY <1>6 DEF Complete, Settled
    <3>2. Projected(task[t], j, k, s) = [status |-> StatusOf(s), count |-> k, current |-> j]
      BY <2>2 DEF Projected, Projects
    <3>3. QED
      BY <2>1, <3>1, <3>2 DEF ProjectWithin
  <2>5. task[t].status = "sending" /\ task'[t].status = StatusOf(s)
    BY <2>2, <2>4 DEF TypeOK
  <2>6. \A u \in Task \ {t} : task'[u] = task[u]
    BY <2>4 DEF TypeOK
  <2>7. \A u \in Task \ {t} : Unseen(u)
    <3> SUFFICES ASSUME NEW u \in Task \ {t}
                 PROVE  Unseen(u)
      OBVIOUS
    <3>1. ~Serves(w, u) /\ ~Serves(w, u)'
      BY <1>4, <2>1 DEF Serves
    <3>2. QED
      BY <1>2, <1>3, <3>1, SeenElsewhere DEF Unseen
  <2>8. CASE worker[w].pc = "interrupted"
    <3>1. ~Serves(w, t) /\ ~Serves(w, t)'
      BY <1>4, <2>8 DEF Serves, Live
    <3>2. Unseen(t)
      BY <1>2, <1>3, <3>1, SeenElsewhere DEF Unseen
    <3>3. task'[t].status = "outcome_unknown"
      BY <2>5, <2>8 DEF Verdict, StatusOf
    <3>4. task \in [Task -> TaskRow] /\ task' \in [Task -> TaskRow]
      BY DEF TypeOK
    <3>5. Promise!Next
      BY <1>2, <2>5, <2>6, <2>7, <3>2, <3>3, <3>4, Commands
    <3>6. QED
      BY <3>5
  <2>9. CASE worker[w].pc = "answered"
    <3>1. Serves(w, t)
      BY <2>1, <2>9 DEF Serves, Live
    <3>2. Armed(t) = FALSE /\ Heard(t) = s
      <4>1. Armed(t) = (worker[w].pc = "dispatch")
            /\ Heard(t) = IF worker[w].pc = "answered" THEN worker[w].result ELSE "none"
        BY <3>1, Served
      <4>2. QED
        BY <2>9, <4>1 DEF Verdict
    <3>3. \A v \in Worker : ~Serves(v, t)'
      <4>1. \A v \in Worker \ {w} : ~Serves(v, t)
        BY <3>1, ServesAlone
      <4>2. QED
        BY <1>2, <1>3, <1>4, <4>1 DEF Serves, Live, TaskOf
    <3>4. Armed(t)' = FALSE /\ Heard(t)' = "none"
      BY <3>3, UnservedNext
    <3> HIDE DEF s
    <3>5. ArmedOf' = ArmedOf
      BY <2>7, <3>2, <3>4 DEF ArmedOf, Unseen
    <3>6. HeardOf[t] = s /\ HeardOf' = [HeardOf EXCEPT ![t] = "none"]
      BY <2>7, <3>2, <3>4 DEF HeardOf, Unseen
    <3>7. PhaseOf[t] = "sending" /\ PhaseOf' = [PhaseOf EXCEPT ![t] = StatusOf(s)]
      BY <2>5, <2>6 DEF PhaseOf
    <3>8. StatusOf(s) = Promise!Shown(s) /\ s # "none"
      BY <2>3 DEF StatusOf, Promise!Shown, Result
    <3>9. Promise!Store(t)
      BY <1>2, <3>5, <3>6, <3>7, <3>8 DEF Promise!Store, PhaseOf, ArmedOf, HeardOf
    <3>10. QED
      BY <3>9 DEF Promise!Next
  <2>10. QED
    BY <1>1, <2>8, <2>9
<1>7. QED
  BY <1>5, <1>6

\* Every other step of a worker or of River leaves tasks and deliveries alone,
\* and at most ends a worker's service.
LEMMA QuietRefines ==
  ASSUME SenderInv, NEW w \in Worker,
         \/ Reserve(w) \/ ReserveConflict(w) \/ StartLost(w) \/ StartRejected(w)
         \/ Project(w) \/ SettleRejected(w) \/ Finish(w) \/ Crash(w) \/ Fail(w)
         \/ \E j \in Job : Fetch(w, j) \/ Replay(w, j)
  PROVE  [Promise!Next]_(Promise!pvars)
<1> USE DEF SenderInv
<1>1. \A v \in Worker \ {w} : worker'[v] = worker[v]
  BY DEF Reserve, ReserveConflict, StartLost, StartRejected, Project, ProjectWithin,
         SettleRejected, Finish, Crash, Fail, Fetch, Replay, Claim, Goto, TypeOK
<1>2. \A j \in Job : river'[j].task = river[j].task
  <2>1. CASE Finish(w)
    <3>1. CASE river' = river
      BY <3>1
    <3>2. CASE river' # river
      <4>1. PICK n : river' = [river EXCEPT ![worker[w].job].state = n]
        BY <2>1, <3>2 DEF Finish
      <4>2. \A j \in Job : river'[j] = IF j = worker[w].job THEN [river[j] EXCEPT !.state = n]
                                                        ELSE river[j]
        BY <4>1 DEF TypeOK
      <4>3. QED
        BY <4>2 DEF TypeOK, RiverRow
    <3>3. QED
      BY <3>1, <3>2
  <2>2. CASE \E j \in Job : Fetch(w, j)
    <3>1. PICK j \in Job : river' = [river EXCEPT ![j].state = "running", ![j].attempt = @ + 1]
      BY <2>2 DEF Fetch
    <3>2. QED
      BY <3>1 DEF TypeOK, RiverRow
  <2>3. CASE ~Finish(w) /\ ~\E j \in Job : Fetch(w, j)
    BY <2>3 DEF Reserve, ReserveConflict, StartLost, StartRejected, Project,
       SettleRejected, Crash, Fail, Replay
  <2>4. QED
    BY <2>1, <2>2, <2>3
<1>3. UNCHANGED delivered
  BY DEF Reserve, ReserveConflict, StartLost, StartRejected, Project,
         SettleRejected, Finish, Crash, Fail, Fetch, Replay
<1>4. worker'[w].pc \notin {"dispatch", "answered"}
  <2>1. \A s : PhaseFor(s) \notin {"dispatch", "answered"} /\ ReturnOf(s) \notin {"dispatch", "answered"}
    BY DEF PhaseFor, ReturnOf
  <2>2. ASSUME NEW pc, pc \notin {"dispatch", "answered"}, Goto(w, pc)
        PROVE  worker'[w].pc \notin {"dispatch", "answered"}
    BY <2>2 DEF Goto, TypeOK, WorkerRow
  <2>3. CASE Reserve(w) \/ ReserveConflict(w) \/ Fail(w)
    BY <2>1, <2>2, <2>3 DEF Reserve, ReserveConflict, Fail
  <2>4. CASE StartLost(w) \/ StartRejected(w)
    BY <2>1, <2>2, <2>4 DEF StartLost, StartRejected
  <2>5. CASE Project(w)
    BY <2>1, <2>2, <2>5 DEF Project, ProjectWithin
  <2>6. CASE SettleRejected(w)
    BY <2>2, <2>6 DEF SettleRejected
  <2>7. CASE Finish(w) \/ Crash(w)
    BY <2>7 DEF Finish, Crash, Idle, TypeOK
  <2>8. CASE \E j \in Job : Fetch(w, j) \/ Replay(w, j)
    BY <2>8 DEF Fetch, Replay, Claim, TypeOK
  <2>9. QED
    BY <2>3, <2>4, <2>5, <2>6, <2>7, <2>8
<1>5. ~Live(w)'
  BY <1>4 DEF Live
<1>6. UNCHANGED task
  <2>1. CASE StartLost(w)
    <3>1. TypeOK /\ worker[w].job \in Job /\ worker[w].attempt \in Attempt
      BY <2>1 DEF WorkersKnow, Knows, StartLost
    <3>2. CASE history[worker[w].job][worker[w].attempt] = "dispatching"
      <4>1. task' = [task EXCEPT ![TaskOf(worker[w].job)] =
                       [status |-> "sending", count |-> worker[w].attempt, current |-> worker[w].job]]
        BY <2>1, <3>2 DEF StartLost, MarkTaskSending
      <4>2. task[TaskOf(worker[w].job)] =
              [status |-> "sending", count |-> worker[w].attempt, current |-> worker[w].job]
        BY <3>1, <3>2, OpenStatus
      <4>3. QED
        BY <3>1, <4>1, <4>2 DEF TypeOK
    <3>3. CASE history[worker[w].job][worker[w].attempt] # "dispatching"
      BY <2>1, <3>3 DEF StartLost
    <3>4. QED
      BY <3>2, <3>3
  <2>2. CASE Project(w)
    <3>1. /\ worker[w].job \in Job /\ worker[w].attempt \in Attempt
          /\ history[worker[w].job][worker[w].attempt] \in Result
      BY <2>2 DEF WorkersKnow, Knows, RowOf, Project
    <3>2. QED
      BY <2>2, <3>1, ProjectSettled DEF Project
  <2>3. CASE ~StartLost(w) /\ ~Project(w)
    BY <2>3 DEF Reserve, ReserveConflict, StartRejected, SettleRejected, Finish, Crash, Fail,
       Fetch, Replay
  <2>4. QED
    BY <2>1, <2>2, <2>3
<1>7. QED
  BY <1>1, <1>2, <1>3, <1>5, <1>6, Forgets

\* Every step of the sender is a step of the promise or changes nothing in it.
LEMMA StepRefines ==
  SenderInv /\ SenderInv' /\ [Next]_vars => [Promise!Next]_(Promise!pvars)
<1> SUFFICES ASSUME SenderInv, SenderInv', [Next]_vars
             PROVE  [Promise!Next]_(Promise!pvars)
  OBVIOUS
<1>1. ASSUME NEW t \in Task, NEW j \in Job,
             Enqueue(t, j) \/ \E key \in Key : ManualRetry(t, key, j)
      PROVE  Promise!Next
  BY <1>1, InsertRefines
<1>2. ASSUME NEW t \in Task, NEW key \in Key, Cancel(t, key)
      PROVE  Promise!Next
  BY <1>2, CancelRefines
<1>3. ASSUME NEW w \in Worker, NEW j \in Job, Fetch(w, j) \/ Replay(w, j)
      PROVE  [Promise!Next]_(Promise!pvars)
  BY <1>3, QuietRefines
<1>4. ASSUME NEW j \in Job, Rescue(j)
      PROVE  [Promise!Next]_(Promise!pvars)
  <2>1. UNCHANGED <<task, worker, delivered>> /\ \A i : river'[i].task = river[i].task
    BY <1>4 DEF Rescue, SenderInv, TypeOK, RiverRow
  <2>2. \A w \in Worker, t \in Task : Serves(w, t)' <=> Serves(w, t)
    BY <2>1 DEF Serves, Live, TaskOf
  <2>3. \A t \in Task : Unseen(t)
    BY <2>1, <2>2, SeenSame DEF Unseen
  <2>4. QED
    BY <2>1, <2>3, Stutters
<1>5. ASSUME NEW w \in Worker, WorkerStep(w) \/ Crash(w) \/ Fail(w)
      PROVE  [Promise!Next]_(Promise!pvars)
  <2>1. CASE Start(w)
    BY <2>1, StartRefines
  <2>2. CASE Send(w)
    BY <2>2, SendRefines
  <2>3. CASE Complete(w)
    BY <2>3, CompleteRefines
  <2>4. CASE \/ Reserve(w) \/ ReserveConflict(w) \/ StartLost(w) \/ StartRejected(w)
             \/ Project(w) \/ SettleRejected(w) \/ Finish(w) \/ Crash(w) \/ Fail(w)
    BY <2>4, QuietRefines
  <2>5. QED
    BY <1>5, <2>1, <2>2, <2>3, <2>4 DEF WorkerStep
<1>6. CASE UNCHANGED vars
  <2>1. UNCHANGED <<task, river, worker, delivered>>
    BY <1>6 DEF vars
  <2>2. \A w \in Worker, t \in Task : Serves(w, t)' <=> Serves(w, t)
    BY <2>1 DEF Serves, Live, TaskOf
  <2>3. \A t \in Task : Unseen(t)
    BY <2>1, <2>2, SeenSame DEF Unseen
  <2>4. QED
    BY <2>1, <2>3, Stutters
<1>7. QED
  BY <1>1, <1>2, <1>3, <1>4, <1>5, <1>6 DEF Next

\* The sender implements the promise: for any tasks, jobs, workers and bounds,
\* what jobs, markers, histories, replays, rescues and operators do to a task
\* is what OutboundPromise allows.
THEOREM SenderRefinesPromise == Spec => ImplementsPromise
<1>1. Spec => []SenderInv
  BY SenderInvariant
<1>2. QED
  BY <1>1, InitRefines, StepRefines, PTL DEF Spec, ImplementsPromise, Promise!Spec
=============================================================================
