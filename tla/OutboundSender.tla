--------------------------- MODULE OutboundSender ---------------------------
(***************************************************************************)
(* The outbound sender: one River job carries one outbound task to the     *)
(* message provider.                                                       *)
(*                                                                         *)
(* SenderService.Execute (internal/outbound/app/sender.go) runs three      *)
(* database transactions around the provider call:                         *)
(*   tx 1  Reserve   a marker row per River job and a history row per      *)
(*                   River attempt;                                        *)
(*   tx 2  Start     history and marker reserved -> dispatching, the task  *)
(*                   -> sending;                                           *)
(*         Send      the provider call, outside every transaction;         *)
(*   tx 3  Complete  history and marker -> the classified result, the task *)
(*                   projected to it, the result event appended.           *)
(* Operators cancel and manually retry tasks (app/control.go,              *)
(* app/manual_retry.go) while workers run.                                 *)
(*                                                                         *)
(* A marker has UNIQUE (river_job_id), so a marker is named by its job.    *)
(* River itself is external: fetch, completion and rescue are modelled     *)
(* from how the code uses them (River raises the attempt at each fetch).   *)
(***************************************************************************)
EXTENDS Naturals, Sequences, FiniteSets

CONSTANTS
  Task,         \* outbound_tasks rows that may be enqueued
  Job,          \* River job ids that may be allotted
  Worker,       \* sender goroutines, in one or more worker processes
  Key,          \* (scope, idempotency key) pairs of control commands
  MaxAttempts,  \* River's max_attempts of an outbound job
  MaxCrashes,   \* bound on the worker crashes of a behaviour
  MaxRollbacks, \* bound on the transactions that fail by themselves
  Replays,      \* TRUE: Execute may be called again for a running attempt
  Overtake,     \* TRUE: River may rescue a job whose worker still runs
  NoJob, NoTask

ASSUME ConstantsAssumption ==
  /\ MaxAttempts \in Nat \ {0}
  /\ MaxCrashes \in Nat
  /\ MaxRollbacks \in Nat
  /\ Replays \in BOOLEAN
  /\ Overtake \in BOOLEAN
  /\ NoJob \notin Job
  /\ NoTask \notin Task

VARIABLES
  task,       \* outbound_tasks: status, attempt_count, current_attempt_id
  links,      \* outbound_task_job_links: River job of each generation
  river,      \* river_job: state, attempt and task of each job
  marker,     \* outbound_send_attempts.state of each job
  history,    \* outbound_send_attempt_history.state by job and attempt
  results,    \* outbound.send-result events of event_log
  receipts,   \* outbound_control_receipts: completed command of each key
  worker,     \* what each sender goroutine holds between transactions
  delivered,  \* messages of each task the provider really delivered
  crashes,    \* worker crashes so far
  rollbacks   \* transactions that failed by themselves so far

faults == <<crashes, rollbacks>>

vars == <<task, links, river, marker, history, results, receipts, worker,
          delivered, crashes, rollbacks>>

-----------------------------------------------------------------------------
Attempt == 1..MaxAttempts

\* The results classifyProviderResult can store.
Result == {"succeeded", "retryable_failed", "final_failed", "outcome_unknown"}

AttemptState == {"absent", "reserved", "dispatching"} \union Result

TaskStatus == {"absent", "pending", "sending", "sent", "retryable_failed",
               "final_failed", "outcome_unknown", "cancelled"}

TaskRow == [status : TaskStatus, count : 0..MaxAttempts,
            current : Job \union {NoJob}]

RiverState == {"absent", "available", "running", "retryable", "completed",
               "discarded", "deleted"}

RiverRow == [state : RiverState, attempt : 0..MaxAttempts,
             task : Task \union {NoTask}]

Receipt == [op : {"none", "cancel", "manual_retry"},
            task : Task \union {NoTask}, job : Job \union {NoJob}]

\* claimed: before tx 1; reserved: waiting for the rate gate; dispatch: tx 2
\* committed, provider not yet called; answered: the provider's answer is in
\* hand; interrupted, replayed: the attempt was found dispatching or settled;
\* ok, err: Work has returned.
Phase == {"idle", "claimed", "reserved", "dispatch", "answered",
          "interrupted", "replayed", "ok", "err"}

WorkerRow == [pc : Phase, job : Job \union {NoJob}, attempt : 0..MaxAttempts,
              result : Result \union {"none"}]

Idle == [pc |-> "idle", job |-> NoJob, attempt |-> 0, result |-> "none"]

\* Variant: the result is stored as the status, unmapped.
UnmappedStatusOf(s) == s

\* The task status that shows an attempt's result.
StatusOf(s) == IF s = "succeeded" THEN "sent" ELSE s

Terminal(s) == s \in Result

Goto(w, pc) == worker' = [worker EXCEPT ![w].pc = pc]

\* Work returns an error for retryable_failed, so that River retries it.
ReturnOf(s) == IF s = "retryable_failed" THEN "err" ELSE "ok"

Latest(t) == links[t][Len(links[t])]

-----------------------------------------------------------------------------
Init ==
  /\ task = [t \in Task |-> [status |-> "absent", count |-> 0, current |-> NoJob]]
  /\ links = [t \in Task |-> <<>>]
  /\ river = [j \in Job |-> [state |-> "absent", attempt |-> 0, task |-> NoTask]]
  /\ marker = [j \in Job |-> "absent"]
  /\ history = [j \in Job |-> [k \in Attempt |-> "absent"]]
  /\ results = {}
  /\ receipts = [k \in Key |-> [op |-> "none", task |-> NoTask, job |-> NoJob]]
  /\ worker = [w \in Worker |-> Idle]
  /\ delivered = [t \in Task |-> 0]
  /\ crashes = 0
  /\ rollbacks = 0

-----------------------------------------------------------------------------
(* Enqueue and the operators' controls: one transaction each.              *)

InsertJob(t, j) ==
  /\ river[j].state = "absent"
  /\ river' = [river EXCEPT ![j] = [state |-> "available", attempt |-> 0, task |-> t]]
  /\ links' = [links EXCEPT ![t] = Append(@, j)]

\* EnqueueOne: task, event, River job and generation-1 link commit together.
Enqueue(t, j) ==
  /\ task[t].status = "absent"
  /\ task' = [task EXCEPT ![t].status = "pending"]
  /\ InsertJob(t, j)
  /\ UNCHANGED <<marker, history, results, receipts, worker, delivered, faults>>

\* A key that completed a command answers from its receipt and changes nothing.
UseKey(key, op, t, j) ==
  /\ receipts[key].op = "none"
  /\ receipts' = [receipts EXCEPT ![key] = [op |-> op, task |-> t, job |-> j]]

\* Variant: a running job is deleted as well.
DeletableWhileRunning(j) == river[j].state \in {"available", "retryable", "running"}

\* River deletes a job only while it is queued (isPendingRiverState).
Deletable(j) == river[j].state \in {"available", "retryable"}

\* Variant: a task that waits for its next attempt may be cancelled too.
CancelBetweenAttempts(t, key) ==
  /\ task[t].status \in {"pending", "retryable_failed"}
  /\ Deletable(Latest(t))
  /\ UseKey(key, "cancel", t, Latest(t))
  /\ river' = [river EXCEPT ![Latest(t)].state = "deleted"]
  /\ task' = [task EXCEPT ![t].status = "cancelled"]
  /\ UNCHANGED <<links, marker, history, results, worker, delivered, faults>>

Cancel(t, key) ==
  /\ task[t].status = "pending"
  /\ Deletable(Latest(t))
  /\ UseKey(key, "cancel", t, Latest(t))
  /\ river' = [river EXCEPT ![Latest(t)].state = "deleted"]
  /\ task' = [task EXCEPT ![t].status = "cancelled"]
  /\ UNCHANGED <<links, marker, history, results, worker, delivered, faults>>

\* Variants: a task that seems stuck, or whose outcome is unknown, is retried.
RetryableWhileSending(t) == task[t].status \in {"final_failed", "cancelled", "sending"}
RetryableWhenUnknown(t) ==
  task[t].status \in {"final_failed", "cancelled", "outcome_unknown"}

ManuallyRetryable(t) == task[t].status \in {"final_failed", "cancelled"}

ManualRetry(t, key, j) ==
  /\ ManuallyRetryable(t)
  /\ UseKey(key, "manual_retry", t, j)
  /\ InsertJob(t, j)
  /\ task' = [task EXCEPT ![t] = [status |-> "pending", count |-> 0, current |-> NoJob]]
  /\ UNCHANGED <<marker, history, results, worker, delivered, faults>>

-----------------------------------------------------------------------------
(* River (external).                                                       *)

Claim(w, j, k) ==
  worker' = [worker EXCEPT ![w] =
               [pc |-> "claimed", job |-> j, attempt |-> k, result |-> "none"]]

Fetch(w, j) ==
  /\ worker[w].pc = "idle"
  /\ river[j].state \in {"available", "retryable"}
  /\ river[j].attempt < MaxAttempts
  /\ river' = [river EXCEPT ![j].state = "running", ![j].attempt = @ + 1]
  /\ Claim(w, j, river[j].attempt + 1)
  /\ UNCHANGED <<task, links, marker, history, results, receipts, delivered, faults>>

\* The contract Execute is written and tested for: the same River attempt is
\* executed again, possibly while the first execution still runs.
Replay(w, j) ==
  /\ Replays
  /\ worker[w].pc = "idle"
  /\ river[j].state = "running"
  /\ Claim(w, j, river[j].attempt)
  /\ UNCHANGED <<task, links, river, marker, history, results, receipts, delivered, faults>>

\* Variant: attempts never run out.
AlwaysRetryable(k) == "retryable"

AfterFailure(k) == IF k < MaxAttempts THEN "retryable" ELSE "discarded"

\* River's completer changes a job only while it is running.
Finish(w) ==
  LET j == worker[w].job
      next == IF worker[w].pc = "ok" THEN "completed" ELSE AfterFailure(worker[w].attempt)
  IN /\ worker[w].pc \in {"ok", "err"}
     /\ river' = IF river[j].state = "running"
                 THEN [river EXCEPT ![j].state = next] ELSE river
     /\ worker' = [worker EXCEPT ![w] = Idle]
     /\ UNCHANGED <<task, links, marker, history, results, receipts, delivered, faults>>

Rescue(j) ==
  /\ river[j].state = "running"
  /\ Overtake \/ \A w \in Worker : worker[w].job # j
  /\ river' = [river EXCEPT ![j].state = AfterFailure(river[j].attempt)]
  /\ UNCHANGED <<task, links, marker, history, results, receipts, worker, delivered, faults>>

\* The process of a worker is killed: what it held in memory is lost.
Crash(w) ==
  /\ worker[w].pc # "idle"
  /\ crashes < MaxCrashes
  /\ crashes' = crashes + 1
  /\ worker' = [worker EXCEPT ![w] = Idle]
  /\ UNCHANGED <<task, links, river, marker, history, results, receipts, delivered, rollbacks>>

\* A transaction fails and rolls back, or the rate gate's context expires.
Fail(w) ==
  /\ worker[w].pc \in {"claimed", "reserved", "answered", "interrupted", "replayed"}
  /\ rollbacks < MaxRollbacks
  /\ rollbacks' = rollbacks + 1
  /\ Goto(w, "err")
  /\ UNCHANGED <<task, links, river, marker, history, results, receipts, delivered, crashes>>

-----------------------------------------------------------------------------
(* tx 1: ReserveSendAttempt.                                               *)

\* Variant: the upsert resets an existing marker.
MarkerReset(j) == "reserved"

\* BackfillOutboundFirstAttemptHistory, after the marker upsert.
MarkerAfterUpsert(j) == IF marker[j] = "absent" THEN "reserved" ELSE marker[j]

Backfilled(j) ==
  IF history[j][1] = "absent"
  THEN [history[j] EXCEPT ![1] = MarkerAfterUpsert(j)] ELSE history[j]

\* A later attempt gets a row only after a retryable predecessor.
MayReserve(rows, k) == k > 1 => rows[k - 1] = "retryable_failed"

\* Variant: a row that exists is reserved again.
ReservedAgain(rows, k) == [rows EXCEPT ![k] = "reserved"]

Reserved(rows, k) == IF rows[k] = "absent" THEN [rows EXCEPT ![k] = "reserved"] ELSE rows

\* Variant: a dispatch found under way is simply sent.
PhaseResending(s) ==
  CASE s = "reserved" -> "reserved"
    [] s = "dispatching" -> "dispatch"
    [] OTHER -> "replayed"

\* Where Execute goes from the state of the attempt it reserved or reloaded.
PhaseFor(s) ==
  CASE s = "reserved" -> "reserved"
    [] s = "dispatching" -> "interrupted"
    [] OTHER -> "replayed"

Reserve(w) ==
  LET j == worker[w].job
      k == worker[w].attempt
      rows == Reserved(Backfilled(j), k)
  IN /\ worker[w].pc = "claimed"
     /\ MayReserve(Backfilled(j), k)
     /\ marker' = [marker EXCEPT ![j] = MarkerAfterUpsert(j)]
     /\ history' = [history EXCEPT ![j] = rows]
     /\ Goto(w, PhaseFor(rows[k]))
     /\ UNCHANGED <<task, links, river, results, receipts, delivered, faults>>

\* No row: ErrSendAttemptConflict, and the transaction rolls back.
ReserveConflict(w) ==
  /\ worker[w].pc = "claimed"
  /\ ~MayReserve(Backfilled(worker[w].job), worker[w].attempt)
  /\ Goto(w, "err")
  /\ UNCHANGED <<task, links, river, marker, history, results, receipts, delivered, faults>>

-----------------------------------------------------------------------------
(* tx 2: StartSendAttempt and MarkTaskSending.                             *)

TaskOf(j) == river[j].task

\* PrepareOutboundSendAttemptRetry: a retry reopens the marker of the task's
\* last, retryable attempt.
Reopenable(j, k) ==
  LET row == task[TaskOf(j)]
  IN /\ marker[j] = "retryable_failed"
     /\ row.status = "retryable_failed"
     /\ row.current = j
     /\ row.count = k - 1

\* MarkOutboundTaskSending: the task rows attempt k of job j may take over.
Sendable(j, k) ==
  LET row == task[TaskOf(j)]
  IN \/ k = 1 /\ row.status = "pending" /\ row.count = 0 /\ row.current = NoJob
     \/ k = row.count + 1 /\ row.status = "retryable_failed" /\ row.current = j
     \/ k = row.count /\ row.status = "sending" /\ row.current = j

MarkTaskSending(j, k) ==
  task' = [task EXCEPT ![TaskOf(j)] = [status |-> "sending", count |-> k, current |-> j]]

Startable(j, k) ==
  /\ history[j][k] = "reserved"
  /\ IF k > 1 THEN Reopenable(j, k) ELSE marker[j] = "reserved"
  /\ Sendable(j, k)

Start(w) ==
  LET j == worker[w].job
      k == worker[w].attempt
  IN /\ worker[w].pc = "reserved"
     /\ Startable(j, k)
     /\ history' = [history EXCEPT ![j][k] = "dispatching"]
     /\ marker' = [marker EXCEPT ![j] = "dispatching"]
     /\ MarkTaskSending(j, k)
     /\ Goto(w, "dispatch")
     /\ UNCHANGED <<links, river, results, receipts, delivered, faults>>

\* Another execution of the same attempt started or settled it first.
StartLost(w) ==
  LET j == worker[w].job
      k == worker[w].attempt
  IN /\ worker[w].pc = "reserved"
     /\ history[j][k] \notin {"absent", "reserved"}
     /\ IF history[j][k] = "dispatching"
        THEN /\ marker[j] = "dispatching"
             /\ Sendable(j, k)
             /\ MarkTaskSending(j, k)
        ELSE UNCHANGED task
     /\ Goto(w, PhaseFor(history[j][k]))
     /\ UNCHANGED <<links, river, marker, history, results, receipts, delivered, faults>>

\* A condition on marker or task fails: rows = 0, rollback, error.
StartRejected(w) ==
  LET j == worker[w].job
      k == worker[w].attempt
  IN /\ worker[w].pc = "reserved"
     /\ ~Startable(j, k)
     /\ \/ history[j][k] \in {"absent", "reserved"}
        \/ /\ history[j][k] = "dispatching"
           /\ ~(marker[j] = "dispatching" /\ Sendable(j, k))
     /\ Goto(w, "err")
     /\ UNCHANGED <<task, links, river, marker, history, results, receipts, delivered, faults>>

-----------------------------------------------------------------------------
(* The provider call and tx 3.                                             *)

\* A clear success was delivered, a clear refusal was not; an unknown outcome
\* may be either.
Deliveries(r) ==
  CASE r = "succeeded" -> {1}
    [] r = "outcome_unknown" -> {0, 1}
    [] OTHER -> {0}

Send(w) ==
  LET t == TaskOf(worker[w].job)
  IN /\ worker[w].pc = "dispatch"
     /\ \E r \in Result : \E d \in Deliveries(r) :
          /\ worker' = [worker EXCEPT ![w].pc = "answered", ![w].result = r]
          /\ delivered' = [delivered EXCEPT ![t] = @ + d]
     /\ UNCHANGED <<task, links, river, marker, history, results, receipts, faults>>

\* ProjectOutboundTaskResult updates the row only for the task's own attempt.
Projects(row, j, k, s) ==
  /\ row.current = j
  /\ row.count = k
  /\ row.status \in {"sending", StatusOf(s)}

Projected(row, j, k, s) ==
  IF Projects(row, j, k, s)
  THEN [status |-> StatusOf(s), count |-> k, current |-> j] ELSE row

\* The check on the fact that is read back; the caller rolls back without it.
FactHolds(row, k, s) ==
  /\ row.count >= k
  /\ row.count = k => row.status = StatusOf(s)

\* Variant: the event is appended for final results only.
ProjectFinalOnly(w, j, k, s) ==
  LET row == Projected(task[TaskOf(j)], j, k, s)
  IN /\ FactHolds(row, k, s)
     /\ task' = [task EXCEPT ![TaskOf(j)] = row]
     /\ results' = IF s = "retryable_failed" THEN results ELSE results \union {<<j, k, s>>}
     /\ Goto(w, ReturnOf(s))

\* The task row, the result event and Work's return for attempt k settled as s.
ProjectWithin(w, j, k, s) ==
  LET row == Projected(task[TaskOf(j)], j, k, s)
  IN /\ FactHolds(row, k, s)
     /\ task' = [task EXCEPT ![TaskOf(j)] = row]
     /\ results' = results \union {<<j, k, s>>}
     /\ Goto(w, ReturnOf(s))

Project(w) ==
  LET j == worker[w].job
      k == worker[w].attempt
  IN /\ worker[w].pc = "replayed"
     /\ ProjectWithin(w, j, k, history[j][k])
     /\ UNCHANGED <<links, river, marker, history, receipts, delivered, faults>>

Settled(s, r) == IF s = "dispatching" THEN r ELSE s

\* What an execution writes: its answer, or outcome_unknown for a dispatch it
\* found under way.
Verdict(w) ==
  IF worker[w].pc = "answered" THEN worker[w].result ELSE "outcome_unknown"

\* CompleteSendAttempt: marker and history row must agree on one result.
Completable(w) ==
  LET j == worker[w].job
      h == Settled(history[j][worker[w].attempt], Verdict(w))
  IN Terminal(h) /\ h = Settled(marker[j], Verdict(w))

Complete(w) ==
  LET j == worker[w].job
      k == worker[w].attempt
      s == Settled(history[j][k], Verdict(w))
  IN /\ worker[w].pc \in {"answered", "interrupted"}
     /\ Completable(w)
     /\ history' = [history EXCEPT ![j][k] = s]
     /\ marker' = [marker EXCEPT ![j] = s]
     /\ ProjectWithin(w, j, k, s)
     /\ UNCHANGED <<links, river, receipts, delivered, faults>>

\* The agreement or the fact check fails: the transaction rolls back.
SettleRejected(w) ==
  LET j == worker[w].job
      k == worker[w].attempt
      s == IF worker[w].pc = "replayed" THEN history[j][k]
           ELSE Settled(history[j][k], Verdict(w))
  IN /\ worker[w].pc \in {"answered", "interrupted", "replayed"}
     /\ \/ worker[w].pc # "replayed" /\ ~Completable(w)
        \/ ~FactHolds(Projected(task[TaskOf(j)], j, k, s), k, s)
     /\ Goto(w, "err")
     /\ UNCHANGED <<task, links, river, marker, history, results, receipts, delivered, faults>>

-----------------------------------------------------------------------------
WorkerStep(w) ==
  \/ Reserve(w)
  \/ ReserveConflict(w)
  \/ Start(w)
  \/ StartLost(w)
  \/ StartRejected(w)
  \/ Send(w)
  \/ Complete(w)
  \/ Project(w)
  \/ SettleRejected(w)
  \/ Finish(w)

Next ==
  \/ \E t \in Task, j \in Job : Enqueue(t, j)
  \/ \E t \in Task, key \in Key : Cancel(t, key)
  \/ \E t \in Task, key \in Key, j \in Job : ManualRetry(t, key, j)
  \/ \E w \in Worker, j \in Job : Fetch(w, j) \/ Replay(w, j)
  \/ \E j \in Job : Rescue(j)
  \/ \E w \in Worker : WorkerStep(w) \/ Crash(w) \/ Fail(w)

Spec == Init /\ [][Next]_vars

\* Goroutines run, River fetches queued jobs and rescues abandoned ones.
\* Nothing forces an operator, a crash or a failure.
Fairness ==
  /\ \A w \in Worker : WF_vars(WorkerStep(w))
  /\ \A j \in Job : WF_vars(Rescue(j)) /\ WF_vars(\E w \in Worker : Fetch(w, j))

FairSpec == Spec /\ Fairness

-----------------------------------------------------------------------------
(* Properties.                                                             *)

TypeOK ==
  /\ task \in [Task -> TaskRow]
  /\ links \in [Task -> Seq(Job)]
  /\ river \in [Job -> RiverRow]
  /\ marker \in [Job -> AttemptState]
  /\ history \in [Job -> [Attempt -> AttemptState]]
  /\ results \subseteq Job \X Attempt \X Result
  /\ receipts \in [Key -> Receipt]
  /\ worker \in [Worker -> WorkerRow]
  /\ delivered \in [Task -> Nat]
  /\ crashes \in 0..MaxCrashes
  /\ rollbacks \in 0..MaxRollbacks

\* The task row, its marker and the history row of its last attempt, written
\* by different statements of tx 2 and tx 3, always tell the same story
\* (sender_repository.go StartSendAttempt, CompleteSendAttempt).
TaskShowsAttempt ==
  \A t \in Task :
    LET row == task[t]
        s == history[row.current][row.count]
    IN row.current # NoJob =>
         /\ TaskOf(row.current) = t
         /\ row.count > 0
         /\ marker[row.current] = s
         /\ row.status = IF s = "dispatching" THEN "sending" ELSE StatusOf(s)

\* Over all jobs and generations of a task at most one attempt is between its
\* tx 2 and its tx 3, whatever is retried, replayed or cancelled meanwhile.
OneOpenDispatch ==
  \A i, j \in Job : \A k, l \in Attempt :
    /\ history[i][k] = "dispatching"
    /\ history[j][l] = "dispatching"
    /\ TaskOf(i) = TaskOf(j)
    => i = j /\ k = l

\* An attempt exists only after a retryable one: no success, final failure or
\* unknown outcome is ever followed by another attempt of the same job.
RetryChain ==
  \A j \in Job : \A k \in Attempt \ {1} :
    history[j][k] # "absent" => history[j][k - 1] = "retryable_failed"

\* event_log holds exactly one result event for each settled attempt, with
\* the stored result, and none for an unsettled one (atomic tx 3).
ResultEvents ==
  \A j \in Job : \A k \in Attempt : \A s \in Result :
    <<j, k, s>> \in results <=> history[j][k] = s

\* The provider never delivers a task twice.
NoDoubleDelivery == \A t \in Task : delivered[t] <= 1

\* The attempt a task shows belongs to its newest generation: an old job never
\* takes over a task that an operator has retried.
CurrentIsLatest ==
  \A t \in Task : task[t].current # NoJob => task[t].current = Latest(t)

\* Cancel and worker race for the job: a job whose cancellation was receipted
\* is never dispatched (control.go: "a worker that has already claimed or
\* projected dispatch wins").
CancelledJobSilent ==
  \A key \in Key :
    receipts[key].op = "cancel" =>
      marker[receipts[key].job] \in {"absent", "reserved"}

\* A settled attempt is never rewritten, by a late answer or by a replay.
SettledRowsFinal ==
  [][\A j \in Job : \A k \in Attempt :
       Terminal(history[j][k]) => history'[j][k] = history[j][k]]_vars

\* The promise: a task's dispatches, calls and answers as OutboundPromise
\* states them. The call to come and the answer in hand live in a worker.
Armed(t) == \E w \in Worker : worker[w].pc = "dispatch" /\ TaskOf(worker[w].job) = t

Hearing(t) == {w \in Worker : worker[w].pc = "answered" /\ TaskOf(worker[w].job) = t}

Heard(t) ==
  IF Hearing(t) = {} THEN "none" ELSE worker[CHOOSE w \in Hearing(t) : TRUE].result

Promise == INSTANCE OutboundPromise WITH
  phase <- [t \in Task |-> task[t].status],
  armed <- [t \in Task |-> Armed(t)],
  heard <- [t \in Task |-> Heard(t)]

\* The sender, with its controls, implements the promise.
ImplementsPromise == Promise!Spec

\* A task is closed when nothing is left to happen by itself.
Closed(t) ==
  \/ task[t].status \in {"sent", "final_failed", "outcome_unknown", "cancelled"}
  \/ task[t].status = "retryable_failed" /\ river[Latest(t)].state = "discarded"

\* Without crashes and failed transactions every enqueued task is closed.
EveryTaskCloses == \A t \in Task : task[t].status = "pending" ~> Closed(t)

\* What docs/execution/slices/P3-O5.md says of an interrupted dispatch: a later
\* replay settles it as outcome_unknown.
InterruptedDispatchSettles ==
  \A t \in Task : task[t].status = "sending" ~> task[t].status # "sending"
=============================================================================
