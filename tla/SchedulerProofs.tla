---------------------------- MODULE SchedulerProofs ----------------------------
(***************************************************************************)
(* Theorems about Scheduler, for every value of its constants.             *)
(***************************************************************************)
EXTENDS SchedulerRefinement, FiniteSetTheorems, TLAPS

-----------------------------------------------------------------------------
(* The inductive invariants                                                *)

\* Heartbeats land before any scan that could miss them.
Timely == ~StartupRace /\ ~LateHeartbeat

\* DLQ retries do not overlap.
OneOperator == \A o, p \in Operator : o = p

\* The job of an executing task is exactly where the task left it.
HandsOn ==
  \A t \in Task :
    Executing(t) =>
      /\ Registered(task[t].worker)
      /\ jobs[task[t].job].status = task[t].pc
      /\ jobs[task[t].job].worker_id = task[t].worker

\* Only the heartbeat of a process that is gone is old.
BeatsTimely == \A w \in Worker : proc[w] # "gone" => beat[w] # "stale"

\* Tasks are spawned in order, and only a task that ran has a DLQ entry.
TasksCounted ==
  \A t \in Task : t > claims <=> task[t].pc = "free"

EntriesOfTasks == \A e \in Task : dlq[e] # "absent" => task[e].pc \in {"done", "dead"}

\* An open entry is the only one of its job, and its job is failed.
OpenIsFailed == \A e \in Task : dlq[e] = "open" => jobs[task[e].job].status = "failed"

OpenIsOnly ==
  \A d, e \in Task :
    dlq[d] = "open" /\ dlq[e] = "open" /\ task[d].job = task[e].job => d = e

\* A retry request past its checks still finds its entry open.
RetryIsCurrent ==
  \A o \in Operator : retry[o].entry \in Task => dlq[retry[o].entry] = "open"

FailedIsExplained ==
  \A j \in Job : jobs[j].status = "failed" => j \in cancelled \/ Entries(j, "open") # {}

(***************************************************************************)
(* The inductive invariant behind SingleExecution, HolderKnown and         *)
(* DlqAgrees.                                                              *)
(***************************************************************************)
IInv ==
  /\ TypeOK
  /\ TasksCounted
  /\ EntriesOfTasks
  /\ BeatsTimely
  /\ HandsOn
  /\ SingleExecution
  /\ HolderKnown
  /\ OpenIsFailed
  /\ OpenIsOnly
  /\ RetryIsCurrent
  /\ FailedIsExplained

\* Only a process that has registered holds jobs, and its row stays.
HolderRegistered ==
  /\ \A w \in Worker : Registered(w) => beat[w] # "unregistered"
  /\ \A j \in Job, w \in Worker :
       jobs[j].worker_id = w => /\ proc[w] \notin {"new", "started"}
                               /\ beat[w] # "unregistered"

\* Task t executes its job, or did when it was cut off.
Holding(t) == Executing(t) \/ Interrupted(t)

(***************************************************************************)
(* The inductive invariant behind HeldJobHasExecutor, which needs no       *)
(* assumption on heartbeats.                                               *)
(***************************************************************************)
HInv == TypeOK /\ TasksCounted /\ HolderRegistered /\ HeldJobHasExecutor

\* An executing task acts on the attempt number its job still has, and has
\* recorded nothing yet.
AttemptIsCurrent ==
  \A t \in Task :
    Executing(t) => /\ task[t].attempt = jobs[task[t].job].attempt_count
                    /\ task[t].row = "none"

\* No task ever claimed a job that is not in the table.
AbsentIsUnclaimed ==
  \A j \in Job, t \in Task : jobs[j].status = "absent" => task[t].job # j

FailuresCounted ==
  \A j \in Job : jobs[j].attempt_count = Cardinality(Rows(j, "failure"))

\* Failed attempts are numbered below attempt_count, each number once.
FailuresNumbered ==
  \A j \in Job : \A s, t \in Rows(j, "failure") :
    /\ task[t].attempt < jobs[j].attempt_count
    /\ task[s].attempt = task[t].attempt => s = t

\* The successful attempt is the last one.
SuccessIsLast ==
  \A j \in Job : \A s, t \in Rows(j, "success") :
    /\ s = t
    /\ jobs[j].status = "completed"
    /\ task[t].attempt = jobs[j].attempt_count

\* What the submitter and the operators allowed.
Allowed(j) ==
  (IF jobs[j].max_attempts = 0 THEN 1 ELSE jobs[j].max_attempts)
    + Cardinality(Entries(j, "retried"))

\* A job that may still run has an attempt left.
BudgetLeft ==
  \A j \in Job :
    /\ jobs[j].status # "absent" => jobs[j].attempt_count <= Allowed(j)
    /\ jobs[j].status \notin {"absent", "failed"} => jobs[j].attempt_count < Allowed(j)

(***************************************************************************)
(* The inductive invariant behind HistoryConsistent and AttemptBudget, and *)
(* what the refinement of JobContract adds to IInv.                        *)
(***************************************************************************)
HistoryInv ==
  /\ AttemptIsCurrent
  /\ AbsentIsUnclaimed
  /\ FailuresCounted
  /\ FailuresNumbered
  /\ SuccessIsLast
  /\ BudgetLeft

\* Executions of job j that are over and left no row.
CutOff(j) == {t \in Task : task[t].job = j /\ ~Executing(t) /\ task[t].row = "none"}

Stopping == {w \in Worker : proc[w] = "stopping"}

(***************************************************************************)
(* The inductive invariant behind WorkIsAccounted: a process counts as     *)
(* stopped when it begins to shut down, before it cuts off its tasks.      *)
(***************************************************************************)
CutOffIsExplained ==
  /\ IsFiniteSet(Stopping)
  /\ \A j \in Job :
       Cardinality(CutOff(j)) + Cardinality(Stopping) <= stops + faults

(***************************************************************************)
(* The inductive invariant behind QueuedIsClaimable and TerminalIsFinal,   *)
(* which needs no assumption on heartbeats: a job whose scheduled_at lies  *)
(* in the future was never claimed, so nothing but the clock takes it out  *)
(* of its state; no row says pending; only claimed and running jobs name a *)
(* worker; and only a job that was never claimed waits without a next      *)
(* attempt.                                                                *)
(***************************************************************************)
FutureIsUntouched ==
  \A j \in Job :
    jobs[j].scheduled_at = "future" =>
      /\ jobs[j].status \in {"scheduled", "failed"}
      /\ jobs[j].next_attempt_at = "null"
      /\ \A t \in Task : task[t].job # j

\* A retry request past its checks names an entry some task made.
RetryNamesEntry ==
  \A o \in Operator : retry[o].entry \in Task => dlq[retry[o].entry] # "absent"

EntryHasTask == \A e \in Task : dlq[e] # "absent" => task[e].pc # "free"

NeverPending == \A j \in Job : jobs[j].status # "pending"

IdleIsReleased ==
  \A j \in Job : jobs[j].status \notin {"claimed", "running"} => jobs[j].worker_id = NULL

UntimedIsUnclaimed ==
  \A j \in Job :
    jobs[j].status = "scheduled" /\ jobs[j].next_attempt_at = "null" =>
      \A t \in Task : task[t].job # j

ClaimInv ==
  /\ EntryHasTask
  /\ RetryNamesEntry
  /\ AbsentIsUnclaimed
  /\ FutureIsUntouched
  /\ NeverPending
  /\ IdleIsReleased
  /\ UntimedIsUnclaimed

-----------------------------------------------------------------------------
(* Type correctness                                                        *)

(***************************************************************************)
(* Every statement of JobTable turns a row of the table into a row.        *)
(***************************************************************************)
LEMMA RowTypes ==
  ASSUME NEW row \in Row
  PROVE  /\ NextOccurrenceRow(row) \in Row
         /\ \A w \in Worker : ClaimRow(row, w) \in Row
         /\ MarkRunningRow(row) \in Row
         /\ CompleteRow(row) \in Row
         /\ \A n \in Nat : FailRow(row, n) \in Row
         /\ \A n \in Nat : RetryRow(row, n) \in Row
         /\ PromoteRow(row) \in Row
         /\ \A stale \in SUBSET Worker : RecoverRow(row, stale) \in Row
         /\ CancelRow(row) \in Row
         /\ RequeueRow(row) \in Row
         /\ ElapseRow(row) \in Row
  <1>1. NextOccurrenceRow(row) \in Row
    BY DEF Row, Status, Time, NextOccurrenceRow
  <1>2. \A w \in Worker : ClaimRow(row, w) \in Row
    BY DEF Row, Status, Time, ClaimRow
  <1>3. MarkRunningRow(row) \in Row
    BY DEF Row, Status, Time, MarkRunningRow
  <1>4. CompleteRow(row) \in Row
    BY DEF Row, Status, Time, CompleteRow
  <1>5. \A n \in Nat : FailRow(row, n) \in Row
    BY DEF Row, Status, Time, FailRow
  <1>6. \A n \in Nat : RetryRow(row, n) \in Row
    BY DEF Row, Status, Time, RetryRow
  <1>7. PromoteRow(row) \in Row
    BY DEF Row, Status, Time, PromoteRow
  <1>8. \A stale \in SUBSET Worker : RecoverRow(row, stale) \in Row
    BY DEF Row, Status, Time, RecoverRow
  <1>9. CancelRow(row) \in Row
    BY DEF Row, Status, Time, CancelRow
  <1>10. RequeueRow(row) \in Row
    BY DEF Row, Status, Time, RequeueRow
  <1>11. ElapseRow(row) \in Row
    BY DEF Row, Status, Time, ElapseRow
  <1>q. QED
    BY <1>1, <1>2, <1>3, <1>4, <1>5, <1>6, <1>7, <1>8, <1>9, <1>10, <1>11

\* INSERTed rows, those of create_job and of schedule_next_occurrence, are rows.
LEMMA NewRowTypes ==
  /\ AbsentRow \in Row
  /\ \A q \in Queue, sub \in Submission : InsertRow(q, sub) \in Row
  <1>1. AbsentRow \in Row
    BY JobTableAssumption DEF Row, Status, Time, JobType, Queue, AbsentRow
  <1>2. ASSUME NEW q \in Queue, NEW sub \in Submission
        PROVE  InsertRow(q, sub) \in Row
    <2>1. /\ sub.job_type \in JobType /\ sub.cron \in BOOLEAN
          /\ sub.max_attempts \in Nat /\ sub.scheduled_at \in Time
      BY DEF Submission
    <2>2. QED
      BY <1>1, <2>1 DEF Row, Status, Time, InsertRow
  <1>3. QED
    BY <1>1, <1>2

\* The initial state is type correct.
LEMMA TypeInit == Init => TypeOK
  BY NewRowTypes, JobTableAssumption, SchedulerAssumption
  DEF Init, TypeOK, Poller, TaskState, IdlePoller, FreeTask, NoSubmit, NoRetry, Queue, Task

\* Every step of the code keeps the state type correct, one case per action.
LEMMA TypeStep == ASSUME TypeOK, [Next]_vars PROVE TypeOK'
  <1>1. ASSUME NEW w \in Worker, ProcessStep(w) PROVE TypeOK'
    <2>1. CASE StartProcess(w)
      BY <2>1 DEF TypeOK, StartProcess, database, requests, counters
    <2>2. CASE Register(w)
      BY <2>2 DEF TypeOK, Register, requests, counters
    <2>3. CASE Heartbeat(w)
      BY <2>3 DEF TypeOK, Heartbeat, requests, counters
    <2>4. CASE HeartbeatAges(w)
      BY <2>4 DEF TypeOK, HeartbeatAges, requests, counters
    <2>5. CASE Shutdown(w)
      BY <2>5, SchedulerAssumption DEF TypeOK, Shutdown, database, requests
    <2>6. ASSUME Vanish(w)
          PROVE  /\ proc' \in [Worker -> {"new", "started", "polling", "stopping", "gone"}]
                 /\ poller' \in [Worker -> Poller]
                 /\ task' \in [Task -> TaskState \cup {FreeTask}]
                 /\ submit' \in [Client -> [queue : Queue \cup {0}, via : Worker \cup {NULL}]]
                 /\ retry' \in [Operator -> [entry : Task \cup {0}, via : Worker \cup {NULL}]]
      <3>1. IdlePoller \in Poller
        BY JobTableAssumption DEF Poller, IdlePoller, Queue
      <3>2. \A t \in Task : Pending(t) => [task[t] EXCEPT !.pc = "dead"] \in TaskState
        BY DEF TypeOK, TaskState, FreeTask, Pending
      <3>3. task' \in [Task -> TaskState \cup {FreeTask}]
        BY <2>6, <3>2 DEF TypeOK, Vanish
      <3>4. submit' \in [Client -> [queue : Queue \cup {0}, via : Worker \cup {NULL}]]
        BY <2>6 DEF TypeOK, Vanish, NoSubmit
      <3>5. retry' \in [Operator -> [entry : Task \cup {0}, via : Worker \cup {NULL}]]
        BY <2>6 DEF TypeOK, Vanish, NoRetry
      <3>6. QED
        BY <2>6, <3>1, <3>3, <3>4, <3>5 DEF TypeOK, Vanish
    <2>7. CASE Exit(w)
      BY <2>6, <2>7 DEF TypeOK, Exit, database, counters
    <2>8. CASE Crash(w)
      BY <2>6, <2>8, SchedulerAssumption DEF TypeOK, Crash, database
    <2>9. QED
      BY <1>1, <2>1, <2>2, <2>3, <2>4, <2>5, <2>7, <2>8 DEF ProcessStep
  <1>2. ASSUME NEW w \in Worker, PollerStep(w) PROVE TypeOK'
    <2>0. /\ Advance(poller[w]) \in Poller
          /\ [poller[w] EXCEPT !.pc = "count"] \in Poller
          /\ [poller[w] EXCEPT !.pc = "claim"] \in Poller
      BY JobTableAssumption DEF TypeOK, Poller, Advance, NextQueue, Queue
    <2>1. CASE PollQueue(w)
      BY <2>0, <2>1 DEF TypeOK, PollQueue, database, requests, counters
    <2>2. CASE PollCount(w)
      BY <2>0, <2>2 DEF TypeOK, PollCount, database, requests, counters
    <2>3. ASSUME NEW j \in Job, NEW pc \in {"claimed", "lost"}, TakeJob(w, j, pc)
          PROVE  /\ jobs' \in [Job -> Row]
                 /\ task' \in [Task -> TaskState \cup {FreeTask}]
                 /\ claims' \in 0 .. MaxClaims
                 /\ poller' \in [Worker -> Poller]
                 /\ UNCHANGED <<paused, dlq, beat, proc, requests>>
      <3>1. ClaimRow(jobs[j], w) \in Row
        BY RowTypes DEF TypeOK
      <3>2. jobs[j].attempt_count \in Nat
        BY DEF TypeOK, Row
      <3>3. [pc |-> pc, worker |-> w, job |-> j,
             attempt |-> jobs[j].attempt_count, row |-> "none"] \in TaskState
        BY <3>2 DEF TaskState
      <3>4. task' \in [Task -> TaskState \cup {FreeTask}]
        BY <2>3, <3>3 DEF TypeOK, TakeJob
      <3>5. QED
        BY <2>0, <2>3, <3>1, <3>4, SchedulerAssumption DEF TypeOK, TakeJob
    <2>4. CASE PollClaim(w)
      BY <2>3, <2>4 DEF TypeOK, PollClaim, requests, counters
    <2>5. CASE PollNothing(w)
      BY <2>0, <2>5 DEF TypeOK, PollNothing, database, requests, counters
    <2>6. CASE PollError(w)
      BY <2>0, <2>6, SchedulerAssumption DEF TypeOK, PollError, Fault, database, requests
    <2>7. CASE ClaimReplyLost(w)
      BY <2>3, <2>7, SchedulerAssumption DEF TypeOK, ClaimReplyLost, Fault, requests
    <2>8. QED
      BY <1>2, <2>1, <2>2, <2>4, <2>5, <2>6, <2>7 DEF PollerStep
  <1>3. ASSUME NEW t \in Task, ExecutorStep(t) PROVE TypeOK'
    <2>0. /\ task[t] \in TaskState
          /\ task[t].job \in Job
          /\ Attempt(t) \in Nat
          /\ AfterSuccess(t) \in {"running", "recur", "done", "lost"}
      <3>1. task[t].pc # "free"
        BY <1>3
        DEF ExecutorStep, MarkRunning, FinishOk, FinishRetry, FinishDlq,
            ScheduleNextOccurrence, MarkRunningError, TransactionError, RetryPanics, CommitReplyLost,
            SilentRollback, OccurrenceError, Runs
      <3>2. task[t] \in TaskState
        BY <3>1 DEF TypeOK, FreeTask
      <3>3. QED
        BY <3>2 DEF TaskState, Attempt, AfterSuccess
    <2>1. ASSUME NEW r \in Row,
                 NEW pc \in {"running", "recur", "done", "lost"},
                 NEW e \in {"none", "success", "failure"}, Write(t, r, pc, e)
          PROVE  /\ jobs' \in [Job -> Row]
                 /\ task' \in [Task -> TaskState \cup {FreeTask}]
                 /\ paused' = paused /\ beat' = beat /\ proc' = proc
                 /\ poller' = poller /\ claims' = claims /\ submit' = submit
                 /\ retry' = retry /\ cancelled' = cancelled
      <3>1. [task[t] EXCEPT !.pc = pc, !.row = e] \in TaskState
        BY <2>0 DEF TaskState
      <3>2. task' = [task EXCEPT ![t] = [task[t] EXCEPT !.pc = pc, !.row = e]]
        BY <2>1 DEF Write, TypeOK
      <3>3. jobs' \in [Job -> Row]
        BY <2>1 DEF TypeOK, Write
      <3>4. task' \in [Task -> TaskState \cup {FreeTask}]
        BY <3>1, <3>2 DEF TypeOK
      <3>5. QED
        BY <2>1, <3>3, <3>4 DEF Write, requests
    <2>2. /\ JobRow(t) \in Row
          /\ MarkRunningRow(JobRow(t)) \in Row
          /\ CompleteRow(JobRow(t)) \in Row
          /\ RetryRow(JobRow(t), Attempt(t)) \in Row
          /\ FailRow(JobRow(t), Attempt(t)) \in Row
          /\ NextOccurrenceRow(JobRow(t)) \in Row
      <3>1. JobRow(t) \in Row
        BY <2>0 DEF TypeOK, JobRow
      <3>2. QED
        BY <2>0, <3>1, RowTypes
    <2>3. CASE MarkRunning(t)
      BY <2>1, <2>2, <2>3 DEF TypeOK, MarkRunning, counters
    <2>4. CASE FinishOk(t)
      BY <2>0, <2>1, <2>2, <2>4 DEF TypeOK, FinishOk, counters
    <2>5. CASE FinishRetry(t)
      BY <2>1, <2>2, <2>5 DEF TypeOK, FinishRetry, counters
    <2>6. CASE FinishDlq(t)
      BY <2>1, <2>2, <2>6 DEF TypeOK, FinishDlq, counters
    <2>7. CASE ScheduleNextOccurrence(t)
      <3>1. [task[t] EXCEPT !.pc = "done"] \in TaskState
        BY <2>0 DEF TaskState
      <3>2. task' \in [Task -> TaskState \cup {FreeTask}]
        BY <2>7, <3>1 DEF TypeOK, ScheduleNextOccurrence
      <3>3. jobs' \in [Job -> Row]
        BY <2>2, <2>7 DEF TypeOK, ScheduleNextOccurrence
      <3>4. QED
        BY <2>7, <3>2, <3>3 DEF TypeOK, ScheduleNextOccurrence, requests, counters
    <2>8. CASE MarkRunningError(t)
      BY <2>1, <2>2, <2>8, SchedulerAssumption DEF TypeOK, MarkRunningError, Fault
    <2>9. CASE TransactionError(t) \/ RetryPanics(t)
      BY <2>1, <2>2, <2>9, SchedulerAssumption DEF TypeOK, TransactionError, RetryPanics, Fault
    <2>10. CASE CommitReplyLost(t)
      BY <2>1, <2>2, <2>10, SchedulerAssumption DEF TypeOK, CommitReplyLost, Fault
    <2>11. CASE SilentRollback(t)
      BY <2>1, <2>2, <2>11, SchedulerAssumption DEF TypeOK, SilentRollback, Fault
    <2>12. CASE OccurrenceError(t)
      <3>1. task[t].row \in {"none", "success", "failure"}
        BY <2>0 DEF TaskState
      <3>2. QED
        BY <2>1, <2>2, <2>12, <3>1, SchedulerAssumption DEF TypeOK, OccurrenceError, Fault
    <2>13. QED
      BY <1>3, <2>3, <2>4, <2>5, <2>6, <2>7, <2>8, <2>9, <2>10, <2>11, <2>12
      DEF ExecutorStep
  <1>4. CASE ReQueueScheduledJobs
    <2>1. \A j \in Job : PromoteRow(jobs[j]) \in Row
      BY RowTypes DEF TypeOK
    <2>2. QED
      BY <1>4, <2>1 DEF TypeOK, ReQueueScheduledJobs, requests, counters
  <1>5. CASE RecoverStaleJobs
    <2>1. \A j \in Job : RecoverRow(jobs[j], StaleWorkers) \in Row
      BY RowTypes DEF TypeOK, StaleWorkers
    <2>2. QED
      BY <1>5, <2>1 DEF TypeOK, RecoverStaleJobs, requests, counters
  <1>6. CASE ApiStep
    <2>1. ASSUME NEW c \in Client, CreateCheck(c) PROVE TypeOK'
      BY <2>1 DEF TypeOK, CreateCheck, database, counters
    <2>2. ASSUME NEW c \in Client, CreateInsert(c) PROVE TypeOK'
      <3>1. submit[c].queue \in Queue
        BY <2>2 DEF CreateInsert
      <3>2. \A sub \in Submissions : InsertRow(submit[c].queue, sub) \in Row
        BY <3>1, NewRowTypes, SchedulerAssumption
      <3>3. QED
        BY <2>2, <3>2 DEF TypeOK, CreateInsert, NoSubmit, counters
    <2>3. ASSUME NEW o \in Operator, RetryCheck(o) PROVE TypeOK'
      BY <2>3 DEF TypeOK, RetryCheck, database, counters
    <2>4. ASSUME NEW o \in Operator, RetryCommit(o) PROVE TypeOK'
      <3>1. \A j \in Job : RequeueRow(jobs[j]) \in Row
        BY RowTypes DEF TypeOK
      <3>2. QED
        BY <2>4, <3>1 DEF TypeOK, RetryCommit, NoRetry, counters
    <2>5. ASSUME NEW j \in Cancellable, CancelJob(j) PROVE TypeOK'
      <3>1. j \in Job /\ CancelRow(jobs[j]) \in Row
        BY RowTypes, SchedulerAssumption DEF TypeOK
      <3>2. QED
        BY <2>5, <3>1 DEF TypeOK, CancelJob, counters
    <2>6. ASSUME NEW q \in Pausable, SetPaused(q) PROVE TypeOK'
      BY <2>6, SchedulerAssumption DEF TypeOK, SetPaused, requests, counters
    <2>7. CASE RequestFails
      <3>1. submit' \in [Client -> [queue : Queue \cup {0}, via : Worker \cup {NULL}]]
        BY <2>7 DEF TypeOK, RequestFails, NoSubmit
      <3>2. retry' \in [Operator -> [entry : Task \cup {0}, via : Worker \cup {NULL}]]
        BY <2>7 DEF TypeOK, RequestFails, NoRetry
      <3>3. QED
        BY <2>7, <3>1, <3>2 DEF TypeOK, RequestFails, database, counters
    <2>8. QED
      BY <1>6, <2>1, <2>2, <2>3, <2>4, <2>5, <2>6, <2>7 DEF ApiStep
  <1>7. ASSUME NEW j \in Job, Elapse(j) PROVE TypeOK'
    <2>1. ElapseRow(jobs[j]) \in Row
      BY RowTypes DEF TypeOK
    <2>2. QED
      BY <1>7, <2>1 DEF TypeOK, Elapse, requests, counters
  <1>8. CASE UNCHANGED vars
    BY <1>8 DEF TypeOK, vars
  <1>9. QED
    BY <1>1, <1>2, <1>3, <1>4, <1>5, <1>6, <1>7, <1>8 DEF Next

(***************************************************************************)
(* Spec starts in, and never leaves, the states its variables are declared *)
(* for.                                                                    *)
(***************************************************************************)
THEOREM TypeCorrect == Spec => []TypeOK
  BY TypeInit, TypeStep, PTL DEF Spec

-----------------------------------------------------------------------------
(* The inductive invariant IInv                                            *)

(***************************************************************************)
(* What the statements of JobTable do to the two columns ownership is      *)
(* about.                                                                  *)
(***************************************************************************)
LEMMA RowEffects ==
  ASSUME NEW row \in Row
  PROVE  /\ \A w \in Worker : /\ ClaimRow(row, w).status = "claimed"
                              /\ ClaimRow(row, w).worker_id = w
         /\ MarkRunningRow(row).status = "running"
         /\ MarkRunningRow(row).worker_id = row.worker_id
         /\ CompleteRow(row).status = "completed"
         /\ CompleteRow(row).worker_id = NULL
         /\ \A n \in Nat : /\ FailRow(row, n).status = "failed"
                           /\ FailRow(row, n).worker_id = NULL
                           /\ RetryRow(row, n).status = "scheduled"
                           /\ RetryRow(row, n).worker_id = NULL
         /\ NextOccurrenceRow(row).status = "scheduled"
         /\ NextOccurrenceRow(row).worker_id = NULL
         /\ RequeueRow(row).status = "queued"
         /\ RequeueRow(row).worker_id = NULL
         /\ ElapseRow(row).status = row.status
         /\ ElapseRow(row).worker_id = row.worker_id
  BY DEF Row, ClaimRow, MarkRunningRow, CompleteRow, FailRow, RetryRow,
         NextOccurrenceRow, RequeueRow, ElapseRow

(***************************************************************************)
(* The conditional statements change a row only when their WHERE clause    *)
(* matches it.                                                             *)
(***************************************************************************)
LEMMA ConditionalRowEffects ==
  ASSUME NEW row \in Row
  PROVE  /\ PromoteRow(row) # row =>
              /\ row.status = "scheduled"
              /\ PromoteRow(row).status = "queued"
              /\ PromoteRow(row).worker_id = row.worker_id
         /\ \A stale \in SUBSET Worker : RecoverRow(row, stale) # row =>
              /\ row.status \in {"claimed", "running"} /\ row.worker_id \in stale
              /\ RecoverRow(row, stale).status = "queued"
              /\ RecoverRow(row, stale).worker_id = NULL
         /\ CancelRow(row) # row =>
              /\ row.status \in {"pending", "queued", "scheduled"}
              /\ CancelRow(row).status = "failed"
              /\ CancelRow(row).worker_id = row.worker_id
  BY DEF Row, PromoteRow, Due, RecoverRow, Recoverable, CancelRow

(***************************************************************************)
(* A step that leaves the jobs, the tasks and the DLQ alone, takes no      *)
(* process away and ages no heartbeat of a live worker.                    *)
(***************************************************************************)
LEMMA FrameStep ==
  ASSUME IInv, TypeOK', BeatsTimely', RetryIsCurrent',
         UNCHANGED <<jobs, task, dlq, claims, cancelled>>,
         \A w \in Worker : Registered(w) => Registered(w)'
  PROVE  IInv'
  BY DEF IInv, TypeOK, TasksCounted, EntriesOfTasks, HandsOn, SingleExecution, HolderKnown,
         OpenIsFailed, OpenIsOnly, FailedIsExplained, Executing, Entries, TaskState, FreeTask

(***************************************************************************)
(* A step that changes rows no task is executing: it keeps ownership       *)
(* consistent, leaves failed jobs failed, and fails only what the user     *)
(* cancelled.  A task may also end after it scheduled an occurrence.       *)
(***************************************************************************)
LEMMA QuietStep ==
  ASSUME IInv, TypeOK',
         UNCHANGED <<dlq, retry, claims, proc, beat>>,
         cancelled \subseteq cancelled',
         \A t \in Task :
           /\ task'[t].job = task[t].job
           /\ task'[t].worker = task[t].worker
           /\ \/ task'[t].pc = task[t].pc
              \/ task[t].pc = "recur" /\ task'[t].pc = "done",
         \A j \in Job :
           \/ /\ jobs'[j].status = jobs[j].status
              /\ jobs'[j].worker_id = jobs[j].worker_id
           \/ /\ \A t \in Task : Executing(t) => task[t].job # j
              /\ jobs[j].status # "failed"
              /\ jobs'[j].status \in {"claimed", "running"} <=> jobs'[j].worker_id # NULL
              /\ jobs'[j].status = "failed" => j \in cancelled'
  PROVE  IInv'
  <1>1. TasksCounted' /\ EntriesOfTasks' /\ BeatsTimely' /\ RetryIsCurrent'
    BY DEF IInv, TasksCounted, EntriesOfTasks, BeatsTimely, RetryIsCurrent
  <1>2. \A t \in Task : Executing(t)' <=> Executing(t)
    BY DEF Executing
  <1>3. SingleExecution'
    BY <1>2 DEF IInv, SingleExecution
  <1>4. HandsOn'
    <2>1. \A t \in Task : Executing(t) => task[t].job \in Job
      BY DEF IInv, TypeOK, TaskState, FreeTask, Executing
    <2>2. QED
      BY <2>1 DEF IInv, HandsOn, Registered, Executing
  <1>5. HolderKnown'
    BY DEF IInv, HolderKnown
  <1>6. OpenIsFailed' /\ OpenIsOnly'
    <2>1. \A e \in Task : dlq[e] = "open" => task[e].job \in Job
      BY DEF IInv, EntriesOfTasks, TypeOK, TaskState, FreeTask
    <2>2. QED
      BY <2>1 DEF IInv, OpenIsFailed, OpenIsOnly
  <1>7. FailedIsExplained'
    BY DEF IInv, FailedIsExplained, Entries
  <1>8. QED
    BY <1>1, <1>3, <1>4, <1>5, <1>6, <1>7 DEF IInv

(***************************************************************************)
(* The step with which an executing task lets go of its job, or loses      *)
(* track of it.                                                            *)
(***************************************************************************)
LEMMA ReleaseStep ==
  ASSUME IInv, TypeOK', NEW t \in Task, Executing(t),
         NEW r \in Row, NEW pc \in {"recur", "done", "lost"},
         NEW e \in {"none", "success", "failure"}, Write(t, r, pc, e),
         r.status \in {"claimed", "running"} <=> r.worker_id # NULL,
         \/ r.status # "failed" /\ dlq' = dlq
         \/ r.status = "failed" /\ pc = "done" /\ dlq' = [dlq EXCEPT ![t] = "open"]
  PROVE  IInv'
  <1> DEFINE j == task[t].job
  <1>1. /\ task[t] \in TaskState /\ j \in Job
        /\ jobs[j].status = task[t].pc /\ jobs[j].worker_id = task[t].worker
        /\ dlq[t] = "absent"
    BY DEF IInv, TypeOK, TaskState, FreeTask, Executing, HandsOn, EntriesOfTasks
  <1>2. /\ task' = [task EXCEPT ![t] = [task[t] EXCEPT !.pc = pc, !.row = e]]
        /\ jobs' = [jobs EXCEPT ![j] = r]
        /\ UNCHANGED <<beat, proc, claims, retry, cancelled>>
    BY DEF Write, IInv, TypeOK, requests
  <1>3. \A s \in Task : /\ task'[s].job = task[s].job
                         /\ task'[s].worker = task[s].worker
                         /\ task'[s].pc = IF s = t THEN pc ELSE task[s].pc
    BY <1>1, <1>2 DEF IInv, TypeOK, TaskState
  <1>4. \A k \in Job : jobs'[k] = IF k = j THEN r ELSE jobs[k]
    BY <1>1, <1>2 DEF IInv, TypeOK
  <1> HIDE DEF j
  <1>5. TasksCounted' /\ EntriesOfTasks' /\ BeatsTimely'
    BY <1>1, <1>2, <1>3
    DEF IInv, TasksCounted, EntriesOfTasks, BeatsTimely, Executing, TypeOK, TaskState
  <1>6. \A s \in Task : Executing(s)' <=> s # t /\ Executing(s)
    BY <1>3 DEF Executing
  <1>7. \A s \in Task : Executing(s) /\ s # t => task[s].job \in Job /\ task[s].job # j
    BY DEF IInv, SingleExecution, Executing, TypeOK, TaskState, FreeTask, j
  <1>8. SingleExecution'
    BY <1>3, <1>6 DEF IInv, SingleExecution
  <1>9. HandsOn'
    BY <1>2, <1>3, <1>4, <1>6, <1>7 DEF IInv, HandsOn, Registered
  <1>10. HolderKnown'
    BY <1>4 DEF IInv, HolderKnown
  <1>11. \A d \in Task : dlq[d] = "open" => task[d].job \in Job /\ task[d].job # j
    BY <1>1 DEF IInv, OpenIsFailed, EntriesOfTasks, TypeOK, TaskState, FreeTask, Executing
  <1>12. \A d \in Task : dlq'[d] = "open" <=> dlq[d] = "open" \/ (d = t /\ r.status = "failed")
    BY <1>1 DEF IInv, TypeOK
  <1>13. OpenIsFailed' /\ OpenIsOnly'
    BY <1>1, <1>3, <1>4, <1>11, <1>12 DEF IInv, OpenIsFailed, OpenIsOnly, j
  <1>14. RetryIsCurrent'
    BY <1>2, <1>12 DEF IInv, RetryIsCurrent
  <1>15. FailedIsExplained'
    BY <1>1, <1>2, <1>3, <1>4, <1>12 DEF IInv, FailedIsExplained, Entries, j
  <1>16. QED
    BY <1>5, <1>8, <1>9, <1>10, <1>13, <1>14, <1>15 DEF IInv

(***************************************************************************)
(* Processes: a stopping one takes its executing tasks with it.            *)
(***************************************************************************)
LEMMA ProcessKeepsIInv ==
  ASSUME IInv, TypeOK', Timely, NEW w \in Worker, ProcessStep(w)
  PROVE  IInv'
  <1>1. CASE StartProcess(w)
    BY <1>1, FrameStep DEF StartProcess, database, requests, IInv, TypeOK, BeatsTimely,
       RetryIsCurrent, Registered
  <1>2. CASE Register(w)
    BY <1>2, FrameStep DEF Register, requests, IInv, TypeOK, BeatsTimely,
       RetryIsCurrent, Registered
  <1>3. CASE Heartbeat(w)
    BY <1>3, FrameStep DEF Heartbeat, requests, IInv, TypeOK, BeatsTimely,
       RetryIsCurrent, Registered
  <1>4. CASE HeartbeatAges(w)
    BY <1>4, FrameStep DEF HeartbeatAges, Timely, requests, IInv, TypeOK, BeatsTimely,
       RetryIsCurrent, Registered
  <1>5. CASE Shutdown(w)
    BY <1>5, FrameStep DEF Shutdown, database, requests, IInv, TypeOK, BeatsTimely,
       RetryIsCurrent, Registered
  <1>6. ASSUME Vanish(w), UNCHANGED <<jobs, dlq, beat, claims, cancelled>>
        PROVE  IInv'
    <2>1. \A t \in Task :
            /\ task'[t].job = task[t].job
            /\ task'[t].worker = task[t].worker
            /\ task'[t].pc = IF Pending(t) /\ task[t].worker = w THEN "dead" ELSE task[t].pc
      BY <1>6 DEF Vanish, IInv, TypeOK, TaskState, FreeTask, Pending
    <2>2. TasksCounted' /\ EntriesOfTasks' /\ BeatsTimely'
      BY <1>6, <2>1 DEF Vanish, Pending, IInv, TypeOK, TasksCounted, EntriesOfTasks, BeatsTimely
    <2>3. \A t \in Task : Executing(t)' <=> Executing(t) /\ task[t].worker # w
      BY <2>1 DEF Executing, Pending
    <2>4. SingleExecution'
      BY <2>1, <2>3 DEF IInv, SingleExecution
    <2>5. HandsOn'
      BY <1>6, <2>1, <2>3 DEF IInv, HandsOn, Executing, Registered, Vanish, TypeOK
    <2>6. HolderKnown' /\ OpenIsFailed' /\ OpenIsOnly' /\ FailedIsExplained'
      BY <1>6, <2>1
      DEF IInv, HolderKnown, OpenIsFailed, OpenIsOnly, FailedIsExplained, Entries
    <2>7. RetryIsCurrent'
      BY <1>6 DEF IInv, RetryIsCurrent, Vanish, NoRetry, Task
    <2>8. QED
      BY <2>2, <2>4, <2>5, <2>6, <2>7 DEF IInv
  <1>7. CASE Exit(w)
    BY <1>6, <1>7 DEF Exit, database
  <1>8. CASE Crash(w)
    BY <1>6, <1>8 DEF Crash, database
  <1>9. QED
    BY <1>1, <1>2, <1>3, <1>4, <1>5, <1>7, <1>8 DEF ProcessStep

(***************************************************************************)
(* Pollers: a claimable row is free, and the new task takes it.            *)
(***************************************************************************)
LEMMA PollerKeepsIInv ==
  ASSUME IInv, TypeOK', NEW w \in Worker, PollerStep(w)
  PROVE  IInv'
  <1>1. CASE PollQueue(w) \/ PollCount(w) \/ PollNothing(w) \/ PollError(w)
    BY <1>1, FrameStep
    DEF PollQueue, PollCount, PollNothing, PollError, database, requests, IInv,
        BeatsTimely, RetryIsCurrent, Registered
  <1>2. ASSUME NEW j \in Job, NEW pc \in {"claimed", "lost"}, Registered(w), TakeJob(w, j, pc)
        PROVE  IInv'
    <2> DEFINE n == claims + 1
    <2>1. /\ n \in Task /\ task[n].pc = "free" /\ dlq[n] = "absent"
          /\ jobs[j].status = "queued"
      BY <1>2, SchedulerAssumption
      DEF TakeJob, Claimable, Task, IInv, TypeOK, TasksCounted, EntriesOfTasks
    <2>2. /\ \A t \in Task \ {n} : task'[t] = task[t]
          /\ task'[n].pc = pc /\ task'[n].worker = w /\ task'[n].job = j
      BY <1>2, <2>1 DEF TakeJob, IInv, TypeOK
    <2>3. /\ \A k \in Job \ {j} : jobs'[k] = jobs[k]
          /\ jobs'[j].status = "claimed" /\ jobs'[j].worker_id = w
      BY <1>2, RowEffects DEF TakeJob, IInv, TypeOK
    <2>4. claims' = n /\ UNCHANGED <<dlq, beat, proc, retry, cancelled>>
      BY <1>2 DEF TakeJob, requests
    <2> HIDE DEF n
    <2>5. \A t \in Task : Executing(t) => t # n /\ task[t].job \in Job /\ task[t].job # j
      BY <2>1 DEF IInv, TypeOK, TaskState, FreeTask, HandsOn, Executing
    <2>6. \A e \in Task : dlq[e] = "open" => e # n /\ task[e].job \in Job /\ task[e].job # j
      BY <2>1 DEF IInv, TypeOK, TaskState, FreeTask, OpenIsFailed, EntriesOfTasks
    <2>7. TasksCounted'
      BY <2>1, <2>2, <2>4, SchedulerAssumption DEF IInv, TypeOK, TasksCounted, Task, n
    <2>8. EntriesOfTasks' /\ BeatsTimely' /\ RetryIsCurrent'
      BY <2>1, <2>2, <2>4 DEF IInv, EntriesOfTasks, BeatsTimely, RetryIsCurrent
    <2>9. SingleExecution'
      BY <2>1, <2>2, <2>5 DEF IInv, SingleExecution, Executing
    <2>10. HandsOn'
      BY <1>2, <2>1, <2>2, <2>3, <2>4, <2>5 DEF IInv, HandsOn, Executing, Registered
    <2>11. HolderKnown'
      BY <2>3, JobTableAssumption DEF IInv, HolderKnown
    <2>12. OpenIsFailed' /\ OpenIsOnly'
      BY <2>2, <2>3, <2>4, <2>6 DEF IInv, OpenIsFailed, OpenIsOnly
    <2>13. FailedIsExplained'
      BY <2>2, <2>3, <2>4, <2>6 DEF IInv, FailedIsExplained, Entries
    <2>14. QED
      BY <2>7, <2>8, <2>9, <2>10, <2>11, <2>12, <2>13 DEF IInv
  <1>3. CASE PollClaim(w)
    BY <1>2, <1>3 DEF PollClaim, AtPoll
  <1>4. CASE ClaimReplyLost(w)
    BY <1>2, <1>4 DEF ClaimReplyLost, AtPoll
  <1>5. QED
    BY <1>1, <1>3, <1>4 DEF PollerStep

(***************************************************************************)
(* Executors: the unconditional UPDATEs are safe because the task that     *)
(* issues them is the only one that has the job.                           *)
(***************************************************************************)
LEMMA ExecutorKeepsIInv ==
  ASSUME IInv, TypeOK', NEW t \in Task, ExecutorStep(t)
  PROVE  IInv'
  <1>1. /\ task[t] \in TaskState /\ task[t].job \in Job
        /\ JobRow(t) \in Row /\ Attempt(t) \in Nat
    <2>1. task[t].pc # "free"
      BY DEF ExecutorStep, MarkRunning, FinishOk, FinishRetry, FinishDlq,
             ScheduleNextOccurrence, MarkRunningError, TransactionError, RetryPanics, CommitReplyLost,
             SilentRollback, OccurrenceError, Runs
    <2>2. task[t] \in TaskState
      BY <2>1 DEF IInv, TypeOK, FreeTask
    <2>3. QED
      BY <2>2 DEF IInv, TypeOK, TaskState, JobRow, Attempt
  <1>2. Executing(t) =>
          JobRow(t).status \in {"claimed", "running"} /\ JobRow(t).worker_id # NULL
    BY <1>1, JobTableAssumption DEF IInv, HandsOn, HolderKnown, Executing, JobRow
  <1>3. CASE MarkRunning(t)
    <2> DEFINE j == task[t].job
    <2>1. Executing(t) /\ j \in Job
      BY <1>1, <1>3 DEF MarkRunning, Runs, Executing
    <2>2. \A s \in Task : /\ task'[s].job = task[s].job
                          /\ task'[s].worker = task[s].worker
                          /\ task'[s].pc = IF s = t THEN "running" ELSE task[s].pc
      BY <1>1, <1>3 DEF MarkRunning, Write, IInv, TypeOK, TaskState
    <2>3. /\ \A k \in Job \ {j} : jobs'[k] = jobs[k]
          /\ jobs'[j].status = "running" /\ jobs'[j].worker_id = jobs[j].worker_id
      BY <1>1, <1>3, RowEffects DEF MarkRunning, Write, JobRow, IInv, TypeOK
    <2>4. UNCHANGED <<dlq, beat, proc, claims, retry, cancelled>>
      BY <1>3 DEF MarkRunning, Write, requests
    <2>5. /\ \A s \in Task : Executing(s)' <=> Executing(s)
          /\ \A s \in Task \ {t} : Executing(s) => task[s].job \in Job /\ task[s].job # j
      BY <2>1, <2>2 DEF Executing, IInv, TypeOK, TaskState, FreeTask, SingleExecution
    <2>6. \A e \in Task : dlq[e] = "open" => task[e].job \in Job /\ task[e].job # j
      BY <2>1 DEF IInv, TypeOK, TaskState, FreeTask, OpenIsFailed, EntriesOfTasks,
                  HandsOn, Executing
    <2>7. jobs[j].status # "failed" /\ jobs[j].worker_id # NULL
      BY <1>2, <2>1 DEF JobRow
    <2> HIDE DEF j
    <2>8. TasksCounted' /\ EntriesOfTasks' /\ BeatsTimely' /\ RetryIsCurrent'
      BY <2>1, <2>2, <2>4
      DEF IInv, TasksCounted, EntriesOfTasks, BeatsTimely, RetryIsCurrent, Executing
    <2>9. SingleExecution'
      BY <2>2, <2>5 DEF IInv, SingleExecution
    <2>10. HandsOn'
      BY <2>1, <2>2, <2>3, <2>4, <2>5 DEF IInv, HandsOn, Registered, j
    <2>11. HolderKnown'
      BY <2>3, <2>7 DEF IInv, HolderKnown
    <2>12. OpenIsFailed' /\ OpenIsOnly' /\ FailedIsExplained'
      BY <2>2, <2>3, <2>4, <2>6, <2>7
      DEF IInv, OpenIsFailed, OpenIsOnly, FailedIsExplained, Entries
    <2>13. QED
      BY <2>8, <2>9, <2>10, <2>11, <2>12 DEF IInv
  <1>4. CASE FinishOk(t)
    BY <1>1, <1>4, ReleaseStep, RowEffects, RowTypes
    DEF FinishOk, Runs, Executing, AfterSuccess
  <1>5. CASE FinishRetry(t)
    BY <1>1, <1>5, ReleaseStep, RowEffects, RowTypes DEF FinishRetry, Runs, Executing
  <1>6. CASE FinishDlq(t)
    <2>1. /\ FailRow(JobRow(t), Attempt(t)).status = "failed"
          /\ FailRow(JobRow(t), Attempt(t)).worker_id = NULL
      BY <1>1, RowEffects
    <2>2. FailRow(JobRow(t), Attempt(t)) \in Row
      BY <1>1, RowTypes
    <2>3. /\ Executing(t)
          /\ Write(t, FailRow(JobRow(t), Attempt(t)), "done", "failure")
          /\ dlq' = [dlq EXCEPT ![t] = "open"]
      BY <1>6 DEF FinishDlq, Runs, Executing
    <2>4. QED
      BY <2>1, <2>2, <2>3, ReleaseStep
  <1>7. CASE ScheduleNextOccurrence(t)
    <2>1. \A s \in Task : /\ task'[s].job = task[s].job
                          /\ task'[s].worker = task[s].worker
                          /\ \/ task'[s].pc = task[s].pc
                             \/ task[s].pc = "recur" /\ task'[s].pc = "done"
      BY <1>1, <1>7 DEF ScheduleNextOccurrence, Runs, IInv, TypeOK, TaskState
    <2>2. \A j \in Job :
            \/ /\ jobs'[j].status = jobs[j].status
               /\ jobs'[j].worker_id = jobs[j].worker_id
            \/ /\ \A s \in Task : Executing(s) => task[s].job # j
               /\ jobs[j].status # "failed"
               /\ jobs'[j].status \in {"claimed", "running"} <=> jobs'[j].worker_id # NULL
               /\ jobs'[j].status = "failed" => j \in cancelled'
      <3>1. CASE jobs' = jobs
        BY <3>1
      <3>2. ASSUME NEW k \in Job, jobs[k].status = "absent",
                   jobs' = [jobs EXCEPT ![k] = NextOccurrenceRow(JobRow(t))]
            PROVE  \A j \in Job :
                     \/ jobs'[j] = jobs[j]
                     \/ /\ jobs[j].status = "absent"
                        /\ jobs'[j].status = "scheduled"
                        /\ jobs'[j].worker_id = NULL
        BY <1>1, <3>2, RowEffects DEF IInv, TypeOK
      <3>3. \A s \in Task : Executing(s) => jobs[task[s].job].status # "absent"
        BY DEF IInv, HandsOn, Executing
      <3>4. QED
        BY <1>7, <3>1, <3>2, <3>3 DEF ScheduleNextOccurrence
    <2>3. QED
      BY <1>7, <2>1, <2>2, QuietStep DEF ScheduleNextOccurrence, requests
  <1>8. CASE MarkRunningError(t)
    <2>1. Executing(t) /\ dlq' = dlq
      BY <1>8 DEF MarkRunningError, Runs, Executing
    <2>2. CASE Write(t, JobRow(t), "lost", "none")
      BY <1>1, <1>2, <2>1, <2>2, ReleaseStep
    <2>3. CASE Write(t, MarkRunningRow(JobRow(t)), "lost", "none")
      <3>1. /\ MarkRunningRow(JobRow(t)) \in Row
            /\ MarkRunningRow(JobRow(t)).status = "running"
            /\ MarkRunningRow(JobRow(t)).worker_id # NULL
        BY <1>1, <1>2, <2>1, RowEffects, RowTypes
      <3>2. QED
        BY <2>1, <2>3, <3>1, ReleaseStep
    <2>4. QED
      BY <1>8, <2>2, <2>3 DEF MarkRunningError
  <1>9. CASE TransactionError(t) \/ RetryPanics(t)
    BY <1>1, <1>2, <1>9, ReleaseStep DEF TransactionError, RetryPanics, Runs, Executing
  <1>10. CASE CommitReplyLost(t)
    BY <1>1, <1>10, ReleaseStep, RowEffects, RowTypes DEF CommitReplyLost, Runs, Executing
  <1>11. CASE SilentRollback(t)
    BY <1>1, <1>2, <1>11, ReleaseStep DEF SilentRollback, Runs, Executing
  <1>12. CASE OccurrenceError(t)
    <2>1. /\ \A s \in Task : /\ task'[s].job = task[s].job
                             /\ task'[s].worker = task[s].worker
                             /\ \/ task'[s].pc = task[s].pc
                                \/ task[s].pc = "recur" /\ task'[s].pc = "done"
          /\ jobs' = jobs
      BY <1>1, <1>12 DEF OccurrenceError, Write, JobRow, Runs, IInv, TypeOK, TaskState
    <2>2. QED
      BY <1>12, <2>1, QuietStep DEF OccurrenceError, Write, requests
  <1>13. QED
    BY <1>3, <1>4, <1>5, <1>6, <1>7, <1>8, <1>9, <1>10, <1>11, <1>12 DEF ExecutorStep

(***************************************************************************)
(* Promotion moves scheduled rows only.  Recovery takes rows from workers  *)
(* that are gone: a live one has a fresh heartbeat when a scan runs.       *)
(***************************************************************************)
LEMMA BackgroundKeepsIInv ==
  ASSUME IInv, TypeOK', Timely, ReQueueScheduledJobs \/ RecoverStaleJobs
  PROVE  IInv'
  <1>1. CASE ReQueueScheduledJobs
    <2>1. \A j \in Job :
            \/ jobs'[j] = jobs[j]
            \/ /\ jobs[j].status = "scheduled"
               /\ jobs'[j].status = "queued"
               /\ jobs'[j].worker_id = jobs[j].worker_id
      BY <1>1, ConditionalRowEffects DEF ReQueueScheduledJobs, IInv, TypeOK
    <2>2. QED
      BY <1>1, <2>1, QuietStep
      DEF ReQueueScheduledJobs, requests, IInv, HandsOn, HolderKnown, Executing
  <1>2. CASE RecoverStaleJobs
    <2>1. \A j \in Job :
            \/ jobs'[j] = jobs[j]
            \/ /\ jobs[j].status \in {"claimed", "running"}
               /\ jobs[j].worker_id \in StaleWorkers
               /\ jobs'[j].status = "queued"
               /\ jobs'[j].worker_id = NULL
      BY <1>2, ConditionalRowEffects DEF RecoverStaleJobs, StaleWorkers, IInv, TypeOK
    <2>2. \A w \in Worker : Registered(w) => w \notin StaleWorkers
      BY <1>2 DEF RecoverStaleJobs, Timely, StaleWorkers, IInv, BeatsTimely, Registered
    <2>3. \A t \in Task : Executing(t) => jobs[task[t].job].worker_id \notin StaleWorkers
      BY <2>2 DEF IInv, HandsOn, Executing, TypeOK, TaskState, FreeTask
    <2>4. QED
      BY <1>2, <2>1, <2>3, QuietStep DEF RecoverStaleJobs, requests
  <1>3. QED
    BY <1>1, <1>2

(***************************************************************************)
(* API: requests touch rows no task has, and a retry its own entry.        *)
(***************************************************************************)
LEMMA ApiKeepsIInv ==
  ASSUME IInv, TypeOK', OneOperator, ApiStep
  PROVE  IInv'
  <1>1. ASSUME NEW c \in Client, CreateCheck(c) PROVE IInv'
    BY <1>1, FrameStep
    DEF CreateCheck, database, IInv, BeatsTimely, RetryIsCurrent, Registered
  <1>2. ASSUME NEW c \in Client, CreateInsert(c) PROVE IInv'
    <2>1. PICK k \in Job, sub \in Submissions :
            /\ jobs[k].status = "absent"
            /\ jobs' = [jobs EXCEPT ![k] = InsertRow(submit[c].queue, sub)]
      BY <1>2 DEF CreateInsert
    <2>2. /\ InsertRow(submit[c].queue, sub).status \in {"scheduled", "queued"}
          /\ InsertRow(submit[c].queue, sub).worker_id = NULL
      BY DEF InsertRow, AbsentRow
    <2>3. \A j \in Job :
            \/ jobs'[j] = jobs[j]
            \/ /\ jobs[j].status = "absent"
               /\ jobs'[j].status \in {"scheduled", "queued"}
               /\ jobs'[j].worker_id = NULL
      BY <2>1, <2>2 DEF IInv, TypeOK
    <2>4. \A s \in Task : Executing(s) => jobs[task[s].job].status # "absent"
      BY DEF IInv, HandsOn, Executing
    <2>5. QED
      BY <1>2, <2>3, <2>4, QuietStep DEF CreateInsert
  <1>3. ASSUME NEW o \in Operator, RetryCheck(o) PROVE IInv'
    <2>1. RetryIsCurrent'
      BY <1>3 DEF RetryCheck, database, IInv, TypeOK, RetryIsCurrent
    <2>2. QED
      BY <1>3, <2>1, FrameStep DEF RetryCheck, database, IInv, BeatsTimely, Registered
  <1>4. ASSUME NEW o \in Operator, RetryCommit(o) PROVE IInv'
    <2> DEFINE e == retry[o].entry
               j == task[e].job
    <2>1. e \in Task /\ dlq[e] = "open" /\ j \in Job /\ jobs[j].status = "failed"
      BY <1>4 DEF RetryCommit, IInv, RetryIsCurrent, OpenIsFailed, EntriesOfTasks, TypeOK,
                  TaskState, FreeTask
    <2>2. /\ \A k \in Job \ {j} : jobs'[k] = jobs[k]
          /\ jobs'[j].status = "queued" /\ jobs'[j].worker_id = NULL
      BY <1>4, <2>1, RowEffects DEF RetryCommit, IInv, TypeOK
    <2>3. /\ \A d \in Task : dlq'[d] = "open" <=> dlq[d] = "open" /\ d # e
          /\ \A d \in Task : dlq'[d] # "absent" => dlq[d] # "absent"
      BY <1>4, <2>1 DEF RetryCommit, IInv, TypeOK
    <2>4. UNCHANGED <<beat, proc, task, claims, cancelled>>
      BY <1>4 DEF RetryCommit
    <2>5. \A p \in Operator : retry'[p].entry \notin Task
      BY <1>4 DEF RetryCommit, OneOperator, NoRetry, IInv, TypeOK, Task
    <2>6. \A t \in Task : Executing(t) => task[t].job # j
      BY <2>1 DEF IInv, HandsOn, Executing
    <2>7. \A d \in Task \ {e} : dlq[d] = "open" => task[d].job \in Job /\ task[d].job # j
      BY <2>1 DEF IInv, OpenIsOnly, EntriesOfTasks, TypeOK, TaskState, FreeTask
    <2> HIDE DEF e, j
    <2>8. TasksCounted' /\ EntriesOfTasks' /\ BeatsTimely' /\ SingleExecution' /\ RetryIsCurrent'
      BY <2>3, <2>4, <2>5
      DEF IInv, TasksCounted, EntriesOfTasks, BeatsTimely, SingleExecution, RetryIsCurrent,
          Executing
    <2>9. HandsOn'
      <3>1. \A t \in Task : Executing(t) => task[t].job \in Job
        BY DEF IInv, TypeOK, TaskState, FreeTask, Executing
      <3>2. QED
        BY <2>2, <2>4, <2>6, <3>1 DEF IInv, HandsOn, Executing, Registered
    <2>10. HolderKnown'
      BY <2>2 DEF IInv, HolderKnown
    <2>11. OpenIsFailed' /\ OpenIsOnly'
      BY <2>2, <2>3, <2>4, <2>7 DEF IInv, OpenIsFailed, OpenIsOnly
    <2>12. FailedIsExplained'
      BY <2>2, <2>3, <2>4, <2>7 DEF IInv, FailedIsExplained, Entries, j
    <2>13. QED
      BY <2>8, <2>9, <2>10, <2>11, <2>12 DEF IInv
  <1>5. ASSUME NEW j \in Cancellable, CancelJob(j) PROVE IInv'
    <2>1. j \in Job
      BY SchedulerAssumption
    <2>2. \A k \in Job :
            \/ jobs'[k] = jobs[k]
            \/ /\ k = j /\ jobs[k].status \in {"pending", "queued", "scheduled"}
               /\ jobs'[k].status = "failed" /\ jobs'[k].worker_id = jobs[k].worker_id
      BY <1>5, <2>1, ConditionalRowEffects DEF CancelJob, IInv, TypeOK
    <2>3. cancelled' = cancelled \cup {j} /\ UNCHANGED <<dlq, retry, claims, proc, beat, task>>
      BY <1>5 DEF CancelJob
    <2>4. \A s \in Task : Executing(s) =>
            jobs[task[s].job].status \notin {"pending", "queued", "scheduled"}
      BY DEF IInv, HandsOn, Executing
    <2>5. \A k \in Job : jobs[k].status \in {"pending", "queued", "scheduled"} =>
            jobs[k].worker_id = NULL
      BY DEF IInv, HolderKnown
    <2>6. QED
      BY <2>2, <2>3, <2>4, <2>5, QuietStep
  <1>6. ASSUME NEW q \in Pausable, SetPaused(q) PROVE IInv'
    BY <1>6, FrameStep
    DEF SetPaused, requests, IInv, BeatsTimely, RetryIsCurrent, Registered
  <1>7. CASE RequestFails
    <2>1. RetryIsCurrent'
      BY <1>7 DEF RequestFails, database, NoRetry, IInv, TypeOK, RetryIsCurrent, Task
    <2>2. QED
      BY <1>7, <2>1, FrameStep DEF RequestFails, database, IInv, BeatsTimely, Registered
  <1>8. QED
    BY <1>1, <1>2, <1>3, <1>4, <1>5, <1>6, <1>7 DEF ApiStep

\* The inductive invariant holds when no job exists and no process runs.
LEMMA IInvInit == Init => IInv
  BY TypeInit, SchedulerAssumption
  DEF Init, IInv, TasksCounted, EntriesOfTasks, BeatsTimely, HandsOn, SingleExecution,
      HolderKnown, OpenIsFailed, OpenIsOnly, RetryIsCurrent, FailedIsExplained, Executing,
      AbsentRow, FreeTask, NoRetry, Task

\* Every step keeps the inductive invariant: the union of the lemmas per component.
LEMMA IInvStep ==
  ASSUME Timely, OneOperator, IInv, [Next]_vars
  PROVE  IInv'
  <1>1. TypeOK'
    BY TypeStep DEF IInv
  <1>2. ASSUME NEW j \in Job, Elapse(j) PROVE IInv'
    <2>1. \A k \in Job : /\ jobs'[k].status = jobs[k].status
                         /\ jobs'[k].worker_id = jobs[k].worker_id
      BY <1>2, RowEffects DEF Elapse, IInv, TypeOK
    <2>2. QED
      BY <1>1, <1>2, <2>1, QuietStep DEF Elapse, requests
  <1>3. CASE UNCHANGED vars
    BY <1>1, <1>3, FrameStep DEF vars, IInv, BeatsTimely, RetryIsCurrent, Registered
  <1>4. QED
    BY <1>1, <1>2, <1>3, ProcessKeepsIInv, PollerKeepsIInv, ExecutorKeepsIInv,
       BackgroundKeepsIInv, ApiKeepsIInv DEF Next

(***************************************************************************)
(* Without late heartbeats and overlapping DLQ retries, no job is ever     *)
(* executed by two tasks at a time, whatever crashes, shuts down or fails. *)
(***************************************************************************)
THEOREM SingleExecutionHolds ==
  ASSUME Timely, OneOperator
  PROVE  Spec => []SingleExecution
  <1>1. IInv => SingleExecution
    BY DEF IInv
  <1>2. QED
    BY <1>1, IInvInit, IInvStep, PTL DEF Spec

(***************************************************************************)
(* Under the same assumptions the holder of a job is always known, so the  *)
(* recovery scan finds every job of a worker that died.                    *)
(***************************************************************************)
THEOREM HolderKnownHolds ==
  ASSUME Timely, OneOperator
  PROVE  Spec => []HolderKnown
  <1>1. IInv => HolderKnown
    BY DEF IInv
  <1>2. QED
    BY <1>1, IInvInit, IInvStep, PTL DEF Spec

(***************************************************************************)
(* Under the same assumptions the DLQ and the jobs table agree at every    *)
(* moment.                                                                 *)
(***************************************************************************)
THEOREM DlqAgreesHolds ==
  ASSUME Timely, OneOperator
  PROVE  Spec => []DlqAgrees
  <1>1. ASSUME IInv PROVE DlqAgrees
    <2>1. SUFFICES ASSUME NEW j \in Job
                   PROVE  /\ jobs[j].status = "failed" => j \in cancelled \/ Entries(j, "open") # {}
                          /\ Entries(j, "open") # {} => jobs[j].status = "failed"
                          /\ Cardinality(Entries(j, "open")) <= 1
      BY DEF DlqAgrees
    <2>2. Entries(j, "open") # {} => jobs[j].status = "failed"
      BY <1>1 DEF IInv, OpenIsFailed, Entries
    <2>3. CASE Entries(j, "open") = {}
      BY <1>1, <2>2, <2>3, FS_EmptySet DEF IInv, FailedIsExplained
    <2>4. CASE Entries(j, "open") # {}
      <3>1. PICK e \in Entries(j, "open") : TRUE
        BY <2>4
      <3>2. Entries(j, "open") = {e}
        BY <1>1, <3>1 DEF IInv, OpenIsOnly, Entries
      <3>3. Cardinality({e}) = 1
        BY FS_Singleton
      <3>4. QED
        BY <2>2, <2>4, <3>2, <3>3
    <2>5. QED
      BY <2>3, <2>4
  <1>2. QED
    BY <1>1, IInvInit, IInvStep, PTL DEF Spec

-----------------------------------------------------------------------------
(* A live worker's job has an executor: no assumption on heartbeats        *)

(***************************************************************************)
(* A step that gives no job to a worker, and after which every task still  *)
(* holds the job it held before, as far as an error has not cut it off, or *)
(* that job has been let go.                                               *)
(***************************************************************************)
LEMMA KeepExecutors ==
  ASSUME HInv, TypeOK', UNCHANGED claims,
         \A w \in Worker : /\ proc'[w] \in {"new", "started"} => proc[w] \in {"new", "started"}
                           /\ Registered(w)' => Registered(w)
                           /\ beat[w] # "unregistered" => beat'[w] # "unregistered",
         \A j \in Job : jobs'[j].worker_id \in {jobs[j].worker_id, NULL},
         \A t \in Task : /\ task'[t].pc = "free" <=> task[t].pc = "free"
                         /\ task'[t].job = task[t].job
                         /\ task'[t].worker = task[t].worker,
         \A t \in Task : \/ Holding(t) => Holding(t)'
                         \/ ~ Registered(task[t].worker)'
                         \/ jobs'[task[t].job].worker_id = NULL
  PROVE  HInv'
  <1>1. TasksCounted'
    BY DEF HInv, TasksCounted
  <1>2. HolderRegistered'
    BY JobTableAssumption DEF HInv, HolderRegistered
  <1>3. HeldJobHasExecutor'
    <2>1. SUFFICES ASSUME NEW j \in Job, NEW w \in Worker,
                          jobs'[j].worker_id = w, Registered(w)'
                   PROVE  \E t \in Task : Holding(t)' /\ task'[t].job = j /\ task'[t].worker = w
      BY DEF HeldJobHasExecutor, HasTask, Holding
    <2>2. jobs[j].worker_id = w
      BY <2>1, JobTableAssumption
    <2>3. PICK t \in Task : Holding(t) /\ task[t].job = j /\ task[t].worker = w
      BY <2>1, <2>2 DEF HInv, HeldJobHasExecutor, HasTask, Holding
    <2>4. Holding(t)'
      BY <2>1, <2>3, JobTableAssumption
    <2>5. QED
      BY <2>3, <2>4
  <1>4. QED
    BY <1>1, <1>2, <1>3 DEF HInv

\* Every step keeps the invariant behind HeldJobHasExecutor.
LEMMA HInvStep ==
  ASSUME HInv, [Next]_vars
  PROVE  HInv'
  <1>0. TypeOK'
    BY TypeStep DEF HInv
  <1>1. ASSUME NEW w \in Worker, ProcessStep(w) PROVE HInv'
    <2>1. CASE StartProcess(w)
      BY <1>0, <2>1, KeepExecutors
      DEF StartProcess, database, counters, HInv, TypeOK, Registered, Executing, Holding, Interrupted
    <2>2. CASE Register(w)
      <3>1. \A j \in Job : jobs[j].worker_id # w
        BY <2>2 DEF Register, HInv, HolderRegistered
      <3>2. QED
        BY <1>0, <2>2, <3>1
        DEF Register, counters, HInv, TypeOK, TasksCounted, HolderRegistered,
            HeldJobHasExecutor, HasTask, Registered, Executing, Interrupted
    <2>3. CASE Heartbeat(w) \/ HeartbeatAges(w)
      BY <1>0, <2>3, KeepExecutors
      DEF Heartbeat, HeartbeatAges, counters, HInv, TypeOK, Registered, Executing, Holding, Interrupted
    <2>4. CASE Shutdown(w)
      BY <1>0, <2>4, KeepExecutors DEF Shutdown, database, HInv, TypeOK, Registered, Executing, Holding, Interrupted
    <2>5. ASSUME Vanish(w), UNCHANGED <<jobs, beat, claims, faults>> PROVE HInv'
      <3>1. \A t \in Task :
              /\ task'[t].job = task[t].job
              /\ task'[t].worker = task[t].worker
              /\ task'[t].row = task[t].row
              /\ task'[t].pc = IF Pending(t) /\ task[t].worker = w THEN "dead" ELSE task[t].pc
        BY <2>5 DEF Vanish, HInv, TypeOK, TaskState, FreeTask, Pending
      <3>2. \A t \in Task : /\ task'[t].pc = "free" <=> task[t].pc = "free"
                            /\ task[t].worker # w => (Holding(t) => Holding(t)')
        BY <2>5, <3>1 DEF Holding, Executing, Interrupted, Pending
      <3>3. /\ ~ Registered(w)'
            /\ \A v \in Worker :
                 /\ proc'[v] \in {"new", "started"} => proc[v] \in {"new", "started"}
                 /\ Registered(v)' => Registered(v)
        BY <2>5 DEF Vanish, Registered, HInv, TypeOK
      <3>4. QED
        BY <1>0, <2>5, <3>1, <3>2, <3>3, KeepExecutors
    <2>6. CASE Exit(w) \/ Crash(w)
      BY <2>5, <2>6 DEF Exit, Crash, database, counters
    <2>7. QED
      BY <1>1, <2>1, <2>2, <2>3, <2>4, <2>6 DEF ProcessStep
  <1>2. ASSUME NEW w \in Worker, PollerStep(w) PROVE HInv'
    <2>1. CASE PollQueue(w) \/ PollCount(w) \/ PollNothing(w)
      BY <1>0, <2>1, KeepExecutors
      DEF PollQueue, PollCount, PollNothing, database, counters, Registered, Executing,
          Holding, Interrupted
    <2>2. CASE PollError(w)
      <3>1. faults > 0 => faults' > 0
        BY <2>2 DEF PollError, Fault, HInv, TypeOK
      <3>2. QED
        BY <1>0, <2>2, <3>1, KeepExecutors
        DEF PollError, database, Registered, Executing, Holding, Interrupted
    <2>3. ASSUME NEW j \in Job, NEW pc \in {"claimed", "lost"}, Registered(w),
                 TakeJob(w, j, pc), faults > 0 \/ pc = "lost" => faults' > 0
          PROVE  HInv'
      <3> DEFINE n == claims + 1
      <3>1. n \in Task /\ task[n].pc = "free"
        BY <2>3, SchedulerAssumption DEF TakeJob, Task, HInv, TypeOK, TasksCounted
      <3>2. /\ \A t \in Task \ {n} : task'[t] = task[t]
            /\ task'[n].pc = pc /\ task'[n].worker = w /\ task'[n].job = j /\ task'[n].row = "none"
        BY <2>3, <3>1 DEF TakeJob, HInv, TypeOK
      <3>3. /\ \A k \in Job \ {j} : jobs'[k] = jobs[k]
            /\ jobs'[j].worker_id = w
        BY <2>3, RowEffects DEF TakeJob, HInv, TypeOK
      <3>4. claims' = n /\ proc' = proc /\ beat' = beat
        BY <2>3 DEF TakeJob
      <3> HIDE DEF n
      <3>5. TasksCounted'
        <4>1. TasksCounted /\ claims \in Nat /\ Task \subseteq Nat
          BY SchedulerAssumption DEF HInv, TypeOK, Task
        <4>2. \A t \in Task : t > n <=> t > claims /\ t # n
          BY <4>1 DEF n
        <4>3. n > claims /\ ~ (n > n) /\ pc # "free"
          BY <4>1 DEF n
        <4>4. SUFFICES ASSUME NEW t \in Task PROVE t > n <=> task'[t].pc = "free"
          BY <3>4 DEF TasksCounted
        <4>5. CASE t = n
          BY <3>2, <4>3, <4>5
        <4>6. CASE t # n
          <5>1. task'[t] = task[t]
            BY <3>2, <4>6
          <5>2. t > claims <=> task[t].pc = "free"
            BY <4>1 DEF TasksCounted
          <5>3. QED
            BY <4>2, <4>6, <5>1, <5>2
        <4>7. QED
          BY <4>5, <4>6
      <3>6. HolderRegistered'
        BY <2>3, <3>3, <3>4 DEF HInv, HolderRegistered, Registered
      <3>7. HeldJobHasExecutor'
        <4>1. SUFFICES ASSUME NEW k \in Job, NEW v \in Worker,
                              jobs'[k].worker_id = v, Registered(v)'
                       PROVE  \E t \in Task : Holding(t)' /\ task'[t].job = k /\ task'[t].worker = v
          BY DEF HeldJobHasExecutor, HasTask, Holding
        <4>2. CASE k = j
          BY <2>3, <3>1, <3>2, <3>3, <4>1, <4>2 DEF Executing, Interrupted, Holding
        <4>3. CASE k # j
          <5>1. PICK t \in Task : Holding(t) /\ task[t].job = k /\ task[t].worker = v
            BY <2>3, <3>3, <3>4, <4>1, <4>3
            DEF HInv, HeldJobHasExecutor, HasTask, Holding, Registered
          <5>2. t # n
            BY <3>1, <5>1 DEF Executing, Interrupted, Holding
          <5>3. QED
            BY <2>3, <3>2, <5>1, <5>2 DEF Executing, Interrupted, Holding
        <4>4. QED
          BY <4>2, <4>3
      <3>8. QED
        BY <1>0, <3>5, <3>6, <3>7 DEF HInv
    <2>4. CASE PollClaim(w)
      BY <2>3, <2>4 DEF PollClaim, AtPoll, counters
    <2>5. CASE ClaimReplyLost(w)
      <3>1. faults' > 0
        BY <2>5 DEF ClaimReplyLost, Fault, HInv, TypeOK
      <3>2. QED
        BY <2>3, <2>5, <3>1 DEF ClaimReplyLost, AtPoll
    <2>6. QED
      BY <1>2, <2>1, <2>2, <2>4, <2>5 DEF PollerStep
  <1>3. ASSUME NEW t \in Task, ExecutorStep(t) PROVE HInv'
    <2>1. /\ task[t] \in TaskState /\ task[t].job \in Job
          /\ JobRow(t) \in Row /\ Attempt(t) \in Nat
      <3>1. task[t].pc # "free"
        BY <1>3
        DEF ExecutorStep, MarkRunning, FinishOk, FinishRetry, FinishDlq,
            ScheduleNextOccurrence, MarkRunningError, TransactionError, RetryPanics, CommitReplyLost,
            SilentRollback, OccurrenceError, Runs
      <3>2. task[t] \in TaskState
        BY <3>1 DEF HInv, TypeOK, FreeTask
      <3>3. QED
        BY <3>2 DEF HInv, TypeOK, TaskState, JobRow, Attempt
    <2>2. ASSUME NEW r, NEW pc \in {"running", "recur", "done", "lost"}, NEW e,
                 Write(t, r, pc, e), r.worker_id \in {JobRow(t).worker_id, NULL},
                 faults > 0 => faults' > 0,
                 \/ pc = "running" /\ Executing(t)
                 \/ r.worker_id = NULL
                 \/ faults' > 0 /\ e = "none" /\ pc # "running"
                 \/ ~ Executing(t) /\ e = task[t].row /\ pc = "done"
          PROVE  HInv'
      <3>1. /\ \A s \in Task : /\ task'[s].job = task[s].job
                               /\ task'[s].worker = task[s].worker
                               /\ task'[s].pc = IF s = t THEN pc ELSE task[s].pc
                               /\ task'[s].row = IF s = t THEN e ELSE task[s].row
            /\ task[t].pc # "free"
        BY <2>1, <2>2 DEF Write, HInv, TypeOK, TaskState
      <3>2. /\ \A k \in Job \ {task[t].job} : jobs'[k] = jobs[k]
            /\ jobs'[task[t].job] = r
            /\ UNCHANGED <<proc, beat, claims>>
        BY <2>1, <2>2 DEF Write, HInv, TypeOK
      <3>3. \A j \in Job : jobs'[j].worker_id \in {jobs[j].worker_id, NULL}
        BY <2>2, <3>2 DEF JobRow
      <3>4. \A s \in Task : /\ task'[s].pc = "free" <=> task[s].pc = "free"
                            /\ \/ Holding(s) => Holding(s)'
                               \/ s = t /\ r.worker_id = NULL
        BY <2>2, <3>1 DEF Executing, Interrupted, Holding
      <3>5. QED
        BY <1>0, <2>2, <3>1, <3>2, <3>3, <3>4, KeepExecutors DEF Registered
    <2>3. CASE MarkRunning(t)
      BY <2>1, <2>2, <2>3, RowEffects DEF MarkRunning, Runs, Executing, counters
    <2>4. CASE FinishOk(t)
      BY <2>1, <2>2, <2>4, RowEffects DEF FinishOk, AfterSuccess, counters
    <2>5. CASE FinishRetry(t)
      BY <2>1, <2>2, <2>5, RowEffects DEF FinishRetry, counters
    <2>6. CASE FinishDlq(t)
      BY <2>1, <2>2, <2>6, RowEffects DEF FinishDlq, counters
    <2>7. CASE MarkRunningError(t) \/ TransactionError(t) \/ RetryPanics(t)
               \/ CommitReplyLost(t) \/ SilentRollback(t) \/ OccurrenceError(t)
      <3>1. faults' > 0
        BY <2>7 DEF MarkRunningError, TransactionError, RetryPanics, CommitReplyLost,
                    SilentRollback, OccurrenceError, Fault, HInv, TypeOK
      <3>2. CASE MarkRunningError(t) \/ TransactionError(t) \/ RetryPanics(t)
                 \/ SilentRollback(t)
        BY <2>1, <2>2, <3>1, <3>2, RowEffects
        DEF MarkRunningError, TransactionError, RetryPanics, SilentRollback
      <3>3. CASE CommitReplyLost(t)
        BY <2>1, <2>2, <3>1, <3>3, RowEffects DEF CommitReplyLost
      <3>4. CASE OccurrenceError(t)
        BY <2>1, <2>2, <3>1, <3>4 DEF OccurrenceError, Runs, Executing
      <3>5. QED
        BY <2>7, <3>2, <3>3, <3>4
    <2>8. CASE ScheduleNextOccurrence(t)
      <3>1. \A s \in Task : /\ task'[s].job = task[s].job
                            /\ task'[s].worker = task[s].worker
                            /\ task'[s].pc = "free" <=> task[s].pc = "free"
                            /\ Holding(s) => Holding(s)'
        BY <2>1, <2>8
        DEF ScheduleNextOccurrence, Runs, Executing, Interrupted, Holding, counters,
            HInv, TypeOK, TaskState
      <3>2. \A j \in Job : jobs'[j].worker_id \in {jobs[j].worker_id, NULL}
        <4>1. NextOccurrenceRow(JobRow(t)).worker_id = NULL
          BY <2>1, RowEffects
        <4>2. QED
          BY <2>8, <4>1 DEF ScheduleNextOccurrence, HInv, TypeOK
      <3>3. QED
        BY <1>0, <2>8, <3>1, <3>2, KeepExecutors DEF ScheduleNextOccurrence, counters, Registered
    <2>9. QED
      BY <1>3, <2>3, <2>4, <2>5, <2>6, <2>7, <2>8 DEF ExecutorStep
  <1>4. CASE ReQueueScheduledJobs
    <2>1. \A j \in Job : jobs'[j].worker_id = jobs[j].worker_id
      BY <1>4, ConditionalRowEffects DEF ReQueueScheduledJobs, HInv, TypeOK
    <2>2. QED
      BY <1>0, <1>4, <2>1, KeepExecutors
      DEF ReQueueScheduledJobs, counters, Registered, Executing, Holding, Interrupted
  <1>5. CASE RecoverStaleJobs
    <2>1. \A j \in Job : jobs'[j].worker_id \in {jobs[j].worker_id, NULL}
      BY <1>5, ConditionalRowEffects DEF RecoverStaleJobs, StaleWorkers, HInv, TypeOK
    <2>2. QED
      BY <1>0, <1>5, <2>1, KeepExecutors
      DEF RecoverStaleJobs, counters, Registered, Executing, Holding, Interrupted
  <1>6. CASE ApiStep
    <2>1. ASSUME \A j \in Job : jobs'[j].worker_id \in {jobs[j].worker_id, NULL},
                 UNCHANGED <<proc, beat, task, claims, faults>>
          PROVE  HInv'
      BY <1>0, <2>1, KeepExecutors DEF Registered, Executing, Holding, Interrupted
    <2>2. ASSUME NEW c \in Client, CreateCheck(c) PROVE HInv'
      BY <2>1, <2>2 DEF CreateCheck, database, counters
    <2>3. ASSUME NEW c \in Client, CreateInsert(c) PROVE HInv'
      <3>1. \A q, sub : InsertRow(q, sub).worker_id = NULL
        BY DEF InsertRow, AbsentRow
      <3>2. \A j \in Job : jobs'[j].worker_id \in {jobs[j].worker_id, NULL}
        BY <2>3, <3>1 DEF CreateInsert, HInv, TypeOK
      <3>3. QED
        BY <2>1, <2>3, <3>2 DEF CreateInsert, counters
    <2>4. ASSUME NEW o \in Operator, RetryCheck(o) PROVE HInv'
      BY <2>1, <2>4 DEF RetryCheck, database, counters
    <2>5. ASSUME NEW o \in Operator, RetryCommit(o) PROVE HInv'
      <3>1. \A j \in Job : jobs'[j].worker_id \in {jobs[j].worker_id, NULL}
        BY <2>5, RowEffects DEF RetryCommit, HInv, TypeOK
      <3>2. QED
        BY <2>1, <2>5, <3>1 DEF RetryCommit, counters
    <2>6. ASSUME NEW j \in Cancellable, CancelJob(j) PROVE HInv'
      <3>1. \A k \in Job : jobs'[k].worker_id = jobs[k].worker_id
        BY <2>6, ConditionalRowEffects DEF CancelJob, HInv, TypeOK
      <3>2. QED
        BY <2>1, <2>6, <3>1 DEF CancelJob, counters
    <2>7. ASSUME NEW q \in Pausable, SetPaused(q) PROVE HInv'
      BY <2>1, <2>7 DEF SetPaused, counters
    <2>8. CASE RequestFails
      BY <2>1, <2>8 DEF RequestFails, database, counters
    <2>9. QED
      BY <1>6, <2>2, <2>3, <2>4, <2>5, <2>6, <2>7, <2>8 DEF ApiStep
  <1>7. ASSUME NEW j \in Job, Elapse(j) PROVE HInv'
    <2>1. \A k \in Job : jobs'[k].worker_id = jobs[k].worker_id
      BY <1>7, RowEffects DEF Elapse, HInv, TypeOK
    <2>2. QED
      BY <1>0, <1>7, <2>1, KeepExecutors DEF Elapse, counters, Registered, Executing, Holding, Interrupted
  <1>8. CASE UNCHANGED vars
    BY <1>0, <1>8, KeepExecutors DEF vars, Registered, Executing, Holding, Interrupted
  <1>9. QED
    BY <1>1, <1>2, <1>3, <1>4, <1>5, <1>6, <1>7, <1>8 DEF Next

\* The initial state has no holder to account for.
LEMMA HInvInit == Init => HInv
  BY TypeInit, JobTableAssumption, SchedulerAssumption
  DEF Init, HInv, TasksCounted, HolderRegistered, HeldJobHasExecutor, Registered, AbsentRow,
      FreeTask, Task

(***************************************************************************)
(* Whatever the heartbeats do, crashes and concurrent DLQ retries          *)
(* included: a job that names a live worker is in the hands of one of its  *)
(* tasks, or was until a database error or a panic cut that task off.      *)
(***************************************************************************)
THEOREM HeldJobHasExecutorHolds == Spec => []HeldJobHasExecutor
  <1>1. HInv => HeldJobHasExecutor
    BY DEF HInv
  <1>2. QED
    BY <1>1, HInvInit, HInvStep, PTL DEF Spec

-----------------------------------------------------------------------------
(***************************************************************************)
(* What the scheduler records: the executions of a job, its attempts, and  *)
(* the life a client sees.  The thirty-odd actions of Scheduler reduce to  *)
(* seven kinds of step; every proof below has one case per kind.           *)
(***************************************************************************)

Waiting == {"pending", "queued", "scheduled"}
Working == {"claimed", "running"}

-----------------------------------------------------------------------------
(* The seven kinds of step                                                 *)

\* The record of task s is left alone.
SameRecord(s) ==
  /\ task'[s].job = task[s].job
  /\ task'[s].attempt = task[s].attempt
  /\ task'[s].row = task[s].row

SameCounts(j) ==
  /\ jobs'[j].attempt_count = jobs[j].attempt_count
  /\ jobs'[j].max_attempts = jobs[j].max_attempts

\* No task records or begins anything; some may be cut off.
RecordsKept ==
  /\ dlq' = dlq
  /\ \A s \in Task : SameRecord(s) /\ (Executing(s)' => Executing(s))

OtherJobsKept(j) == \A k \in Job : k # j => jobs'[k] = jobs[k]

OtherTasksKept(t) == \A s \in Task : s # t => task'[s] = task[s]

\* Nothing is recorded; jobs move within a phase, or wait again.
StillStep ==
  /\ RecordsKept
  /\ \A j \in Job :
       /\ SameCounts(j)
       /\ \/ jobs'[j].status = jobs[j].status
          \/ jobs[j].status \in Waiting /\ jobs'[j].status \in Waiting
          \/ jobs[j].status \in Working /\ jobs'[j].status \in Waiting \cup Working

InsertStep(j) ==
  /\ RecordsKept
  /\ jobs[j].status = "absent"
  /\ jobs'[j].status \in Waiting
  /\ jobs'[j].attempt_count = 0
  /\ OtherJobsKept(j)

CancelStep(j) ==
  /\ RecordsKept
  /\ jobs[j].status \in Waiting
  /\ jobs'[j].status = "failed"
  /\ SameCounts(j)
  /\ OtherJobsKept(j)

ClaimStep(j, t) ==
  /\ jobs[j].status = "queued"
  /\ jobs'[j].status = "claimed"
  /\ SameCounts(j)
  /\ OtherJobsKept(j)
  /\ task[t].pc = "free"
  /\ task'[t].job = j
  /\ task'[t].attempt = jobs[j].attempt_count
  /\ task'[t].row = "none"
  /\ OtherTasksKept(t)
  /\ dlq' = dlq

\* Executing task t records result r and lets go of its job.
RecordStep(t, r) ==
  /\ Executing(t)
  /\ ~Executing(t)'
  /\ task'[t].job = task[t].job
  /\ task'[t].attempt = task[t].attempt
  /\ task'[t].row = r
  /\ OtherTasksKept(t)
  /\ OtherJobsKept(task[t].job)

SucceedStep(t) ==
  /\ RecordStep(t, "success")
  /\ jobs'[task[t].job].status = "completed"
  /\ SameCounts(task[t].job)
  /\ dlq' = dlq

FailStep(t) ==
  LET row == jobs[task[t].job]
      n   == task[t].attempt + 1
  IN  /\ RecordStep(t, "failure")
      /\ jobs'[task[t].job].attempt_count = n
      /\ jobs'[task[t].job].max_attempts = row.max_attempts
      /\ IF n >= row.max_attempts
           THEN /\ jobs'[task[t].job].status = "failed"
                /\ dlq' = [dlq EXCEPT ![t] = "open"]
           ELSE /\ jobs'[task[t].job].status = "scheduled"
                /\ dlq' = dlq

ReviveStep(e) ==
  /\ dlq[e] = "open"
  /\ dlq' = [dlq EXCEPT ![e] = "retried"]
  /\ jobs'[task[e].job].status = "queued"
  /\ SameCounts(task[e].job)
  /\ OtherJobsKept(task[e].job)
  /\ task' = task

\* What the statements of JobTable do to the counts of a row.
LEMMA RowCounts ==
  ASSUME NEW row \in Row
  PROVE  /\ \A w \in Worker : /\ ClaimRow(row, w).attempt_count = row.attempt_count
                              /\ ClaimRow(row, w).max_attempts = row.max_attempts
         /\ MarkRunningRow(row).attempt_count = row.attempt_count
         /\ MarkRunningRow(row).max_attempts = row.max_attempts
         /\ CompleteRow(row).attempt_count = row.attempt_count
         /\ CompleteRow(row).max_attempts = row.max_attempts
         /\ \A n \in Nat : /\ FailRow(row, n).attempt_count = n
                           /\ FailRow(row, n).max_attempts = row.max_attempts
                           /\ RetryRow(row, n).attempt_count = n
                           /\ RetryRow(row, n).max_attempts = row.max_attempts
         /\ NextOccurrenceRow(row).attempt_count = 0
         /\ RequeueRow(row).attempt_count = row.attempt_count
         /\ RequeueRow(row).max_attempts = row.max_attempts
         /\ ElapseRow(row).attempt_count = row.attempt_count
         /\ ElapseRow(row).max_attempts = row.max_attempts
         /\ PromoteRow(row).attempt_count = row.attempt_count
         /\ PromoteRow(row).max_attempts = row.max_attempts
         /\ \A stale \in SUBSET Worker :
              /\ RecoverRow(row, stale).attempt_count = row.attempt_count
              /\ RecoverRow(row, stale).max_attempts = row.max_attempts
         /\ CancelRow(row).attempt_count = row.attempt_count
         /\ CancelRow(row).max_attempts = row.max_attempts
  BY DEF Row, ClaimRow, MarkRunningRow, CompleteRow, FailRow, RetryRow, NextOccurrenceRow,
         RequeueRow, ElapseRow, PromoteRow, Due, RecoverRow, Recoverable, CancelRow

\* A row INSERTed by create_job waits and has no attempts.
LEMMA InsertedRow ==
  ASSUME NEW q \in Queue, NEW sub \in Submission
  PROVE  InsertRow(q, sub).status \in Waiting /\ InsertRow(q, sub).attempt_count = 0
  BY DEF InsertRow, AbsentRow, Waiting

\* A step that leaves the jobs, the DLQ and the tasks alone, but for tasks that
\* are cut off, is a still one.
LEMMA FrameIsStill ==
  ASSUME dlq' = dlq, jobs' = jobs,
         \A s \in Task : SameRecord(s) /\ (Executing(s)' => Executing(s))
  PROVE  StillStep
  BY DEF StillStep, RecordsKept, SameCounts

\* Processes and pollers record nothing; a poller that claims starts a task.
LEMMA WorkerShape ==
  ASSUME IInv, NEW w \in Worker, ProcessStep(w) \/ PollerStep(w)
  PROVE  \/ StillStep
         \/ \E j \in Job, t \in Task : ClaimStep(j, t)
  <1>1. ASSUME task' = task PROVE \A s \in Task : SameRecord(s) /\ (Executing(s)' => Executing(s))
    BY <1>1 DEF SameRecord, Executing
  <1>2. CASE StartProcess(w) \/ Register(w) \/ Heartbeat(w) \/ HeartbeatAges(w) \/ Shutdown(w)
    <2>1. UNCHANGED <<jobs, dlq, task>>
      BY <1>2 DEF StartProcess, Register, Heartbeat, HeartbeatAges, Shutdown, database
    <2>2. QED
      BY <1>1, <2>1, FrameIsStill
  <1>3. CASE Exit(w) \/ Crash(w)
    <2>1. /\ UNCHANGED <<jobs, dlq>>
          /\ task' = [t \in Task |->
                        IF Pending(t) /\ task[t].worker = w
                          THEN [task[t] EXCEPT !.pc = "dead"] ELSE task[t]]
      BY <1>3 DEF Exit, Crash, Vanish, database
    <2>2. ASSUME NEW s \in Task PROVE SameRecord(s) /\ (Executing(s)' => Executing(s))
      <3>1. task[s].pc # "free" => task[s] \in TaskState
        BY DEF IInv, TypeOK, FreeTask
      <3>2. QED
        BY <2>1, <3>1 DEF SameRecord, Executing, Pending, TaskState
    <2>3. QED
      BY <2>1, <2>2, FrameIsStill
  <1>4. CASE PollQueue(w) \/ PollCount(w) \/ PollNothing(w) \/ PollError(w)
    <2>1. UNCHANGED <<jobs, dlq, task>>
      BY <1>4 DEF PollQueue, PollCount, PollNothing, PollError, database
    <2>2. QED
      BY <1>1, <2>1, FrameIsStill
  <1>5. ASSUME NEW j \in Job, NEW pc \in {"claimed", "lost"}, TakeJob(w, j, pc)
        PROVE  ClaimStep(j, claims + 1) /\ claims + 1 \in Task
    <2> DEFINE t == claims + 1
    <2>1. /\ t \in Task
          /\ jobs[j].status = "queued"
          /\ jobs' = [jobs EXCEPT ![j] = ClaimRow(jobs[j], w)]
          /\ task' = [task EXCEPT ![t] = [pc |-> pc, worker |-> w, job |-> j,
                                          attempt |-> jobs[j].attempt_count, row |-> "none"]]
          /\ dlq' = dlq
      BY <1>5, SchedulerAssumption DEF TakeJob, Claimable, IInv, TypeOK, Task
    <2>2. task[t].pc = "free"
      BY <2>1 DEF IInv, TasksCounted, TypeOK
    <2>3. /\ jobs'[j].status = "claimed"
          /\ SameCounts(j)
      BY <2>1, RowEffects, RowCounts DEF SameCounts, IInv, TypeOK
    <2> HIDE DEF t
    <2>4. OtherJobsKept(j) /\ OtherTasksKept(t)
      BY <2>1 DEF OtherJobsKept, OtherTasksKept, IInv, TypeOK
    <2>5. /\ task'[t].job = j /\ task'[t].attempt = jobs[j].attempt_count
          /\ task'[t].row = "none"
      BY <2>1 DEF IInv, TypeOK
    <2>6. ClaimStep(j, t) /\ t \in Task
      BY <2>1, <2>2, <2>3, <2>4, <2>5 DEF ClaimStep
    <2>7. QED
      BY <2>6 DEF t
  <1>6. CASE PollClaim(w)
    BY <1>5, <1>6 DEF PollClaim
  <1>7. CASE ClaimReplyLost(w)
    BY <1>5, <1>7 DEF ClaimReplyLost
  <1>8. QED
    BY <1>2, <1>3, <1>4, <1>6, <1>7 DEF ProcessStep, PollerStep

(***************************************************************************)
(* An executor task records a success or a failure with the job's row, or  *)
(* records nothing.                                                        *)
(***************************************************************************)
LEMMA ExecutorShape ==
  ASSUME IInv, AttemptIsCurrent, NEW t \in Task, ExecutorStep(t)
  PROVE  \/ StillStep \/ SucceedStep(t) \/ FailStep(t)
         \/ \E j \in Job : InsertStep(j)
  <1> DEFINE j == task[t].job
             row == jobs[j]
  <1>1. task[t].pc # "free"
    BY DEF ExecutorStep, MarkRunning, FinishOk, FinishRetry, FinishDlq,
           ScheduleNextOccurrence, MarkRunningError, TransactionError, RetryPanics, CommitReplyLost,
           SilentRollback, OccurrenceError, Runs
  <1>2. /\ task[t] \in TaskState /\ j \in Job /\ row \in Row
        /\ Attempt(t) = task[t].attempt + 1 /\ Attempt(t) \in Nat
        /\ JobRow(t) = row
    BY <1>1 DEF IInv, TypeOK, TaskState, FreeTask, JobRow, Attempt
  <1>3. Executing(t) => row.status = task[t].pc
    BY DEF IInv, HandsOn
  <1>4. ASSUME NEW r \in Row, NEW pc \in {"running", "recur", "done", "lost"},
               NEW e \in {"none", "success", "failure"}, Write(t, r, pc, e)
        PROVE  /\ \A k \in Job : jobs'[k] = IF k = j THEN r ELSE jobs[k]
               /\ task'[t].job = j /\ task'[t].attempt = task[t].attempt
               /\ task'[t].pc = pc /\ task'[t].row = e
               /\ OtherTasksKept(t) /\ OtherJobsKept(j)
    <2>1. task' = [task EXCEPT ![t] = [task[t] EXCEPT !.pc = pc, !.row = e]]
      BY <1>4 DEF Write, IInv, TypeOK
    <2>2. /\ \A k \in Job : jobs'[k] = IF k = j THEN r ELSE jobs[k]
          /\ OtherJobsKept(j)
      BY <1>2, <1>4 DEF Write, IInv, TypeOK, OtherJobsKept
    <2>3. OtherTasksKept(t) /\ task'[t] = [task[t] EXCEPT !.pc = pc, !.row = e]
      BY <2>1 DEF OtherTasksKept, IInv, TypeOK
    <2>4. QED
      BY <1>2, <2>2, <2>3 DEF TaskState
  <1> HIDE DEF j, row
  \* A write that keeps the execution row and the phase of the job is still.
  <1>5. ASSUME NEW r \in Row, NEW pc \in {"running", "recur", "done", "lost"},
               Write(t, r, pc, task[t].row), dlq' = dlq,
               pc = "running" => Executing(t),
               r.attempt_count = row.attempt_count, r.max_attempts = row.max_attempts,
               r.status = row.status \/ {r.status, row.status} \subseteq Working
        PROVE  StillStep
    <2>1. task[t].row \in {"none", "success", "failure"}
      BY <1>2 DEF TaskState
    <2>2. /\ \A k \in Job : jobs'[k] = IF k = j THEN r ELSE jobs[k]
          /\ task'[t].job = j /\ task'[t].attempt = task[t].attempt
          /\ task'[t].pc = pc /\ task'[t].row = task[t].row
          /\ OtherTasksKept(t)
      BY <1>4, <1>5, <2>1
    <2>3. \A s \in Task : SameRecord(s) /\ (Executing(s)' => Executing(s))
      BY <1>5, <2>2 DEF SameRecord, Executing, OtherTasksKept, j
    <2>4. QED
      BY <1>5, <2>2, <2>3 DEF StillStep, RecordsKept, SameCounts, row
  <1>6. MarkRunningRow(row) \in Row /\ MarkRunningRow(row).status = "running"
    BY <1>2, RowTypes, RowEffects
  <1>7. /\ MarkRunningRow(row).attempt_count = row.attempt_count
        /\ MarkRunningRow(row).max_attempts = row.max_attempts
    BY <1>2, RowCounts
  <1>8. Executing(t) => task[t].row = "none"
    BY DEF AttemptIsCurrent
  <1>9. CASE MarkRunning(t)
    <2>1. /\ Write(t, MarkRunningRow(row), "running", task[t].row) /\ dlq' = dlq
          /\ Executing(t)
      BY <1>2, <1>8, <1>9 DEF MarkRunning, Runs, Executing
    <2>2. QED
      BY <1>3, <1>5, <1>6, <1>7, <2>1 DEF Working, Executing
  <1>10. CASE MarkRunningError(t)
    <2>1. Executing(t) /\ dlq' = dlq
      BY <1>10 DEF MarkRunningError, Runs, Executing
    <2>2. \/ Write(t, row, "lost", task[t].row)
          \/ Write(t, MarkRunningRow(row), "lost", task[t].row)
      BY <1>2, <1>8, <1>10, <2>1 DEF MarkRunningError
    <2>3. QED
      BY <1>2, <1>3, <1>5, <1>6, <1>7, <2>1, <2>2 DEF Working, Executing
  <1>11. CASE TransactionError(t) \/ RetryPanics(t) \/ SilentRollback(t)
    <2>1. Executing(t) /\ dlq' = dlq
      BY <1>11 DEF TransactionError, RetryPanics, SilentRollback, Runs, Executing
    <2>2. \E pc \in {"lost", "recur"} : Write(t, row, pc, task[t].row)
      BY <1>2, <1>8, <1>11, <2>1 DEF TransactionError, RetryPanics, SilentRollback
    <2>3. QED
      BY <1>2, <1>5, <2>1, <2>2
  <1>12. CASE OccurrenceError(t)
    <2>1. Write(t, row, "done", task[t].row) /\ dlq' = dlq
      BY <1>2, <1>12 DEF OccurrenceError
    <2>2. QED
      BY <1>2, <1>5, <2>1
  <1>13. ASSUME NEW pc \in {"recur", "done", "lost"}, Executing(t),
                Write(t, CompleteRow(row), pc, "success"), dlq' = dlq
         PROVE  SucceedStep(t)
    <2>1. CompleteRow(row) \in Row /\ CompleteRow(row).status = "completed"
      BY <1>2, RowTypes, RowEffects
    <2>2. /\ CompleteRow(row).attempt_count = row.attempt_count
          /\ CompleteRow(row).max_attempts = row.max_attempts
      BY <1>2, RowCounts
    <2>3. /\ \A k \in Job : jobs'[k] = IF k = j THEN CompleteRow(row) ELSE jobs[k]
          /\ task'[t].job = j /\ task'[t].attempt = task[t].attempt
          /\ task'[t].pc = pc /\ task'[t].row = "success"
          /\ OtherTasksKept(t) /\ OtherJobsKept(j)
      BY <1>4, <1>13, <2>1
    <2>4. jobs'[j] = CompleteRow(row)
      BY <1>2, <2>3
    <2>5. SameCounts(j) /\ jobs'[j].status = "completed"
      BY <2>1, <2>2, <2>4 DEF SameCounts, row
    <2>6. ~Executing(t)'
      BY <2>3 DEF Executing
    <2>7. QED
      BY <1>13, <2>3, <2>5, <2>6 DEF SucceedStep, RecordStep, j
  <1>14. CASE FinishOk(t) \/ CommitReplyLost(t)
    <2>1. Executing(t) /\ dlq' = dlq
      BY <1>14 DEF FinishOk, CommitReplyLost, Runs, Executing
    <2>2. \E pc \in {"recur", "done", "lost"} : Write(t, CompleteRow(row), pc, "success")
      BY <1>2, <1>14 DEF FinishOk, CommitReplyLost, AfterSuccess
    <2>3. QED
      BY <1>13, <2>1, <2>2
  <1>15. ASSUME NEW r \in Row, Executing(t), Write(t, r, "done", "failure"),
                r.attempt_count = Attempt(t), r.max_attempts = row.max_attempts,
                IF Attempt(t) >= row.max_attempts
                  THEN r.status = "failed" /\ dlq' = [dlq EXCEPT ![t] = "open"]
                  ELSE r.status = "scheduled" /\ dlq' = dlq
         PROVE  FailStep(t)
    <2>1. /\ \A k \in Job : jobs'[k] = IF k = j THEN r ELSE jobs[k]
          /\ task'[t].job = j /\ task'[t].attempt = task[t].attempt
          /\ task'[t].pc = "done" /\ task'[t].row = "failure"
          /\ OtherTasksKept(t) /\ OtherJobsKept(j)
      BY <1>4, <1>15
    <2>2. jobs'[j] = r
      BY <1>2, <2>1
    <2>3. RecordStep(t, "failure")
      BY <1>15, <2>1 DEF RecordStep, Executing, j
    <2>4. QED
      BY <1>2, <1>15, <2>2, <2>3 DEF FailStep, j, row
  <1>16. CASE FinishRetry(t)
    <2>1. /\ Executing(t) /\ dlq' = dlq /\ ~(Attempt(t) >= row.max_attempts)
          /\ Write(t, RetryRow(row, Attempt(t)), "done", "failure")
      BY <1>2, <1>16 DEF FinishRetry, Runs, Executing, ShouldDlq
    <2>2. /\ RetryRow(row, Attempt(t)) \in Row
          /\ RetryRow(row, Attempt(t)).status = "scheduled"
      BY <1>2, RowTypes, RowEffects
    <2>3. /\ RetryRow(row, Attempt(t)).attempt_count = Attempt(t)
          /\ RetryRow(row, Attempt(t)).max_attempts = row.max_attempts
      BY <1>2, RowCounts
    <2>4. QED
      BY <1>15, <2>1, <2>2, <2>3
  <1>17. CASE FinishDlq(t)
    <2>1. /\ Executing(t) /\ dlq' = [dlq EXCEPT ![t] = "open"]
          /\ Attempt(t) >= row.max_attempts
          /\ Write(t, FailRow(row, Attempt(t)), "done", "failure")
      BY <1>2, <1>17 DEF FinishDlq, Runs, Executing, ShouldDlq
    <2>2. /\ FailRow(row, Attempt(t)) \in Row
          /\ FailRow(row, Attempt(t)).status = "failed"
      BY <1>2, RowTypes, RowEffects
    <2>3. /\ FailRow(row, Attempt(t)).attempt_count = Attempt(t)
          /\ FailRow(row, Attempt(t)).max_attempts = row.max_attempts
      BY <1>2, RowCounts
    <2>4. QED
      BY <1>15, <2>1, <2>2, <2>3
  <1>18. CASE ScheduleNextOccurrence(t)
    <2>1. task' = [task EXCEPT ![t] = [task[t] EXCEPT !.pc = "done"]] /\ dlq' = dlq
      BY <1>18 DEF ScheduleNextOccurrence, IInv, TypeOK
    <2>2. RecordsKept
      <3>1. task'[t] = [task[t] EXCEPT !.pc = "done"] /\ OtherTasksKept(t)
        BY <2>1 DEF OtherTasksKept, IInv, TypeOK
      <3>2. QED
        BY <1>2, <2>1, <3>1
        DEF RecordsKept, SameRecord, Executing, OtherTasksKept, TaskState
    <2>3. CASE jobs' = jobs
      BY <2>1, <2>2, <2>3, FrameIsStill DEF RecordsKept
    <2>4. CASE \E k \in Job : /\ jobs[k].status = "absent"
                              /\ jobs' = [jobs EXCEPT ![k] = NextOccurrenceRow(row)]
      <3>1. PICK k \in Job : /\ jobs[k].status = "absent"
                             /\ jobs' = [jobs EXCEPT ![k] = NextOccurrenceRow(row)]
        BY <2>4
      <3>2. jobs'[k] = NextOccurrenceRow(row) /\ OtherJobsKept(k)
        BY <3>1 DEF OtherJobsKept, IInv, TypeOK
      <3>3. jobs'[k].status = "scheduled" /\ jobs'[k].attempt_count = 0
        BY <1>2, <3>2, RowEffects, RowCounts
      <3>4. InsertStep(k)
        BY <2>2, <3>1, <3>2, <3>3 DEF InsertStep, Waiting
      <3>5. QED
        BY <3>4
    <2>5. QED
      BY <1>2, <1>18, <2>3, <2>4 DEF ScheduleNextOccurrence
  <1>19. QED
    BY <1>9, <1>10, <1>11, <1>12, <1>14, <1>16, <1>17, <1>18 DEF ExecutorStep

\* Promotion, recovery and the clock record nothing.
LEMMA BackgroundShape ==
  ASSUME IInv,
         \/ ReQueueScheduledJobs
         \/ RecoverStaleJobs
         \/ \E j \in Job : Elapse(j)
  PROVE  StillStep
  <1>1. UNCHANGED <<dlq, task>>
    BY DEF ReQueueScheduledJobs, RecoverStaleJobs, Elapse
  <1>2. RecordsKept
    BY <1>1 DEF RecordsKept, SameRecord, Executing
  <1>3. \A j \in Job : jobs[j] \in Row
    BY DEF IInv, TypeOK
  <1>4. CASE ReQueueScheduledJobs
    <2>1. \A j \in Job : jobs'[j] = PromoteRow(jobs[j])
      BY <1>4 DEF ReQueueScheduledJobs
    <2>2. \A j \in Job : SameCounts(j)
      BY <1>3, <2>1, RowCounts DEF SameCounts
    <2>3. QED
      BY <1>2, <1>3, <2>1, <2>2, ConditionalRowEffects DEF StillStep, Waiting
  <1>5. CASE RecoverStaleJobs
    <2>1. StaleWorkers \in SUBSET Worker
      BY DEF StaleWorkers
    <2>2. \A j \in Job : jobs'[j] = RecoverRow(jobs[j], StaleWorkers)
      BY <1>5 DEF RecoverStaleJobs
    <2>3. \A j \in Job : SameCounts(j)
      BY <1>3, <2>1, <2>2, RowCounts DEF SameCounts
    <2>4. QED
      BY <1>2, <1>3, <2>1, <2>2, <2>3, ConditionalRowEffects DEF StillStep, Waiting, Working
  <1>6. ASSUME NEW j \in Job, Elapse(j) PROVE StillStep
    <2>1. \A k \in Job : jobs'[k] = IF k = j THEN ElapseRow(jobs[j]) ELSE jobs[k]
      BY <1>6 DEF Elapse, IInv, TypeOK
    <2>2. /\ ElapseRow(jobs[j]).status = jobs[j].status
          /\ ElapseRow(jobs[j]).attempt_count = jobs[j].attempt_count
          /\ ElapseRow(jobs[j]).max_attempts = jobs[j].max_attempts
      BY <1>3, RowEffects, RowCounts
    <2>3. QED
      BY <1>2, <2>1, <2>2 DEF StillStep, SameCounts
  <1>7. QED
    BY <1>4, <1>5, <1>6

\* A request inserts, cancels or revives one job, or records nothing.
LEMMA ApiShape ==
  ASSUME IInv, ApiStep
  PROVE  \/ StillStep
         \/ \E j \in Job : InsertStep(j) \/ CancelStep(j)
         \/ \E e \in Task : ReviveStep(e)
  <1>1. \A j \in Job : jobs[j] \in Row
    BY DEF IInv, TypeOK
  <1>2. task' = task
    BY DEF ApiStep, CreateCheck, CreateInsert, RetryCheck, RetryCommit, CancelJob, SetPaused,
           RequestFails
  <1>3. ASSUME dlq' = dlq PROVE RecordsKept
    BY <1>2, <1>3 DEF RecordsKept, SameRecord, Executing
  <1>4. ASSUME UNCHANGED <<jobs, dlq>> PROVE StillStep
    BY <1>3, <1>4, FrameIsStill DEF RecordsKept
  <1>5. ASSUME NEW c \in Client, CreateInsert(c) PROVE \E j \in Job : InsertStep(j)
    <2>1. PICK j \in Job, sub \in Submissions :
            /\ jobs[j].status = "absent"
            /\ jobs' = [jobs EXCEPT ![j] = InsertRow(submit[c].queue, sub)]
      BY <1>5 DEF CreateInsert
    <2>2. jobs'[j] = InsertRow(submit[c].queue, sub) /\ OtherJobsKept(j) /\ dlq' = dlq
      BY <1>5, <2>1 DEF CreateInsert, OtherJobsKept, IInv, TypeOK
    <2>3. jobs'[j].status \in Waiting /\ jobs'[j].attempt_count = 0
      BY <1>5, <2>2, InsertedRow, SchedulerAssumption DEF CreateInsert
    <2>4. InsertStep(j)
      BY <1>3, <2>1, <2>2, <2>3 DEF InsertStep
    <2>5. QED
      BY <2>4
  <1>6. ASSUME NEW j \in Cancellable, CancelJob(j) PROVE StillStep \/ CancelStep(j)
    <2>1. j \in Job
      BY SchedulerAssumption
    <2>2. jobs'[j] = CancelRow(jobs[j]) /\ OtherJobsKept(j) /\ dlq' = dlq
      BY <1>6, <2>1 DEF CancelJob, OtherJobsKept, IInv, TypeOK
    <2>3. CASE CancelRow(jobs[j]) = jobs[j]
      <3>1. jobs' = jobs
        BY <1>6, <2>1, <2>3 DEF CancelJob, IInv, TypeOK
      <3>2. QED
        BY <1>4, <2>2, <3>1
    <2>4. CASE CancelRow(jobs[j]) # jobs[j]
      <3>1. jobs[j].status \in Waiting /\ jobs'[j].status = "failed"
        BY <1>1, <2>1, <2>2, <2>4, ConditionalRowEffects DEF Waiting
      <3>2. SameCounts(j)
        BY <1>1, <2>1, <2>2, RowCounts DEF SameCounts
      <3>3. QED
        BY <1>3, <2>2, <3>1, <3>2 DEF CancelStep
    <2>5. QED
      BY <2>3, <2>4
  <1>7. ASSUME NEW o \in Operator, RetryCommit(o) PROVE \E e \in Task : ReviveStep(e)
    <2> DEFINE e == retry[o].entry
               j == task[e].job
    <2>1. /\ e \in Task /\ dlq[e] = "open" /\ dlq' = [dlq EXCEPT ![e] = "retried"]
          /\ jobs' = [jobs EXCEPT ![j] = RequeueRow(jobs[j])]
      BY <1>7 DEF RetryCommit, IInv, RetryIsCurrent
    <2> HIDE DEF e
    <2>2. j \in Job
      BY <2>1 DEF IInv, EntriesOfTasks, TypeOK, TaskState, FreeTask
    <2> HIDE DEF j
    <2>3. jobs'[j] = RequeueRow(jobs[j]) /\ OtherJobsKept(j)
      BY <2>1, <2>2 DEF OtherJobsKept, IInv, TypeOK
    <2>4. jobs'[j].status = "queued" /\ SameCounts(j)
      BY <1>1, <2>2, <2>3, RowEffects, RowCounts DEF SameCounts
    <2>5. ReviveStep(e)
      BY <1>2, <2>1, <2>3, <2>4 DEF ReviveStep, j
    <2>6. QED
      BY <2>1, <2>5
  <1>8. ASSUME \/ \E c \in Client : CreateCheck(c)
               \/ \E o \in Operator : RetryCheck(o)
               \/ \E q \in Pausable : SetPaused(q)
               \/ RequestFails
        PROVE  StillStep
    <2>1. UNCHANGED <<jobs, dlq>>
      BY <1>8 DEF CreateCheck, RetryCheck, SetPaused, RequestFails, database
    <2>2. QED
      BY <1>4, <2>1
  <1>9. QED
    <2>1. \A j \in Cancellable : j \in Job
      BY SchedulerAssumption
    <2>2. QED
      BY <1>5, <1>6, <1>7, <1>8, <2>1 DEF ApiStep

(***************************************************************************)
(* Every step of the code is one of the seven kinds.                       *)
(***************************************************************************)
LEMMA StepShape ==
  ASSUME IInv, AttemptIsCurrent, [Next]_vars
  PROVE  \/ StillStep
         \/ \E j \in Job : InsertStep(j) \/ CancelStep(j)
         \/ \E j \in Job, t \in Task : ClaimStep(j, t)
         \/ \E t \in Task : SucceedStep(t) \/ FailStep(t) \/ ReviveStep(t)
  <1>1. CASE UNCHANGED vars
    BY <1>1, FrameIsStill DEF vars, SameRecord, Executing
  <1>2. CASE Next
    BY <1>2, WorkerShape, ExecutorShape, BackgroundShape, ApiShape DEF Next
  <1>3. QED
    BY <1>1, <1>2

-----------------------------------------------------------------------------
(* The execution history                                                   *)

\* Sets of tasks are finite.
LEMMA TaskSets ==
  ASSUME NEW S \in SUBSET Task
  PROVE  IsFiniteSet(S) /\ Cardinality(S) \in Nat
  <1>1. IsFiniteSet(Task)
    BY FS_Interval, SchedulerAssumption DEF Task
  <1>2. QED
    BY <1>1, FS_Subset, FS_CardinalityType

\* A set of tasks that gains a member counts one more.
LEMMA OneMore ==
  ASSUME NEW S \in SUBSET Task, NEW t \in Task, t \notin S
  PROVE  Cardinality(S \cup {t}) = Cardinality(S) + 1
  BY TaskSets, FS_AddElement

\* The execution rows and the entries of every job, when no record changes.
LEMMA KeptRecords ==
  ASSUME RecordsKept
  PROVE  /\ \A j \in Job : Rows(j, "failure")' = Rows(j, "failure")
         /\ \A j \in Job : Rows(j, "success")' = Rows(j, "success")
         /\ \A j \in Job : Entries(j, "retried")' = Entries(j, "retried")
         /\ \A j \in Job : Entries(j, "open")' = Entries(j, "open")
  BY DEF RecordsKept, SameRecord, Rows, Entries

\* The execution rows of every job, when one is added.
LEMMA AddedRecord ==
  ASSUME NEW t \in Task, NEW r \in {"success", "failure"}, RecordStep(t, r),
         task[t].row = "none"
  PROVE  \A j \in Job, q \in {"success", "failure"} :
           Rows(j, q)' = IF j = task[t].job /\ q = r THEN Rows(j, q) \cup {t} ELSE Rows(j, q)
  BY DEF RecordStep, OtherTasksKept, Rows

\* The initial state has no history.
LEMMA HistoryInit == Init => HistoryInv
  <1> SUFFICES ASSUME Init PROVE HistoryInv
    OBVIOUS
  <1>1. \A t \in Task : task[t] = FreeTask
    BY DEF Init
  <1>2. \A t \in Task : ~Executing(t) /\ task[t].row = "none" /\ task[t].job = NULL
    BY <1>1 DEF Executing, FreeTask
  <1>3. \A j \in Job : Rows(j, "failure") = {} /\ Rows(j, "success") = {}
    BY <1>2 DEF Rows
  <1>4. \A j \in Job : jobs[j].attempt_count = 0 /\ jobs[j].status = "absent"
    BY DEF Init, AbsentRow
  <1>5. FailuresCounted
    BY <1>3, <1>4, FS_EmptySet DEF FailuresCounted
  <1>6. BudgetLeft
    BY <1>4 DEF BudgetLeft
  <1>7. QED
    BY <1>2, <1>3, <1>5, <1>6, JobTableAssumption
    DEF HistoryInv, AttemptIsCurrent, AbsentIsUnclaimed, FailuresNumbered, SuccessIsLast

\* Steps that add no record keep the history.
LEMMA QuietHistory ==
  ASSUME IInv, IInv', HistoryInv, RecordsKept,
         \A j \in Job :
           \/ /\ SameCounts(j)
              /\ jobs'[j].status = "absent" <=> jobs[j].status = "absent"
              /\ jobs[j].status = "completed" => jobs'[j].status = "completed"
              /\ jobs[j].status = "failed" => jobs'[j].status = "failed"
           \/ /\ jobs[j].status = "absent" /\ jobs'[j].status # "absent"
              /\ jobs'[j].attempt_count = 0
  PROVE  HistoryInv'
  <1>1. \A j \in Job : /\ jobs[j].attempt_count \in Nat /\ jobs'[j].attempt_count \in Nat
                       /\ jobs[j].max_attempts \in Nat /\ jobs'[j].max_attempts \in Nat
    BY DEF IInv, TypeOK, Row
  <1>2. \A j \in Job : jobs[j].status = "absent" => \A t \in Task : task[t].job # j
    BY DEF HistoryInv, AbsentIsUnclaimed
  <1>3. \A j \in Job : jobs[j].status = "absent" =>
          Rows(j, "failure") = {} /\ Rows(j, "success") = {}
    BY <1>2 DEF Rows
  <1>4. AttemptIsCurrent'
    <2> SUFFICES ASSUME NEW t \in Task, Executing(t)'
                 PROVE  /\ task'[t].attempt = jobs'[task'[t].job].attempt_count
                        /\ task'[t].row = "none"
      BY DEF AttemptIsCurrent
    <2>1. Executing(t) /\ SameRecord(t)
      BY DEF RecordsKept
    <2>2. task[t].job \in Job
      BY <2>1 DEF IInv, TypeOK, TaskState, FreeTask, Executing
    <2>3. QED
      BY <1>2, <2>1, <2>2 DEF HistoryInv, AttemptIsCurrent, SameRecord, SameCounts
  <1>5. AbsentIsUnclaimed'
    BY <1>2 DEF AbsentIsUnclaimed, RecordsKept, SameRecord
  <1>6. FailuresCounted'
    <2>1. \A j \in Job : jobs[j].attempt_count = Cardinality(Rows(j, "failure"))
      BY DEF HistoryInv, FailuresCounted
    <2>2. \A j \in Job : jobs'[j].attempt_count = jobs[j].attempt_count
      BY <1>3, <2>1, FS_EmptySet DEF SameCounts
    <2>3. QED
      BY <2>1, <2>2, KeptRecords DEF FailuresCounted
  <1>7. FailuresNumbered'
    <2>1. \A j \in Job : \A t \in Rows(j, "failure") :
            /\ jobs'[j].attempt_count = jobs[j].attempt_count
            /\ t \in Task /\ task'[t].attempt = task[t].attempt
      BY <1>3 DEF SameCounts, Rows, RecordsKept, SameRecord
    <2>2. QED
      BY <2>1, KeptRecords DEF HistoryInv, FailuresNumbered
  <1>8. SuccessIsLast'
    <2>1. \A j \in Job : \A t \in Rows(j, "success") :
            /\ jobs'[j].attempt_count = jobs[j].attempt_count
            /\ jobs'[j].status = jobs[j].status
            /\ t \in Task /\ task'[t].attempt = task[t].attempt
      BY <1>3 DEF SameCounts, Rows, RecordsKept, SameRecord, HistoryInv, SuccessIsLast
    <2>2. QED
      BY <2>1, KeptRecords DEF HistoryInv, SuccessIsLast
  <1>9. BudgetLeft'
    <2> SUFFICES ASSUME NEW j \in Job
                 PROVE  /\ jobs'[j].status # "absent" => jobs'[j].attempt_count <= Allowed(j)'
                        /\ jobs'[j].status \notin {"absent", "failed"} =>
                             jobs'[j].attempt_count < Allowed(j)'
      BY DEF BudgetLeft
    <2>1. Cardinality(Entries(j, "retried")) \in Nat
      BY TaskSets DEF Entries
    <2>2. Cardinality(Entries(j, "retried"))' = Cardinality(Entries(j, "retried"))
      BY KeptRecords
    <2>3. CASE SameCounts(j) /\ (jobs'[j].status = "absent" <=> jobs[j].status = "absent")
               /\ (jobs[j].status = "failed" => jobs'[j].status = "failed")
      <3>1. Allowed(j)' = Allowed(j)
        BY <2>2, <2>3 DEF Allowed, SameCounts
      <3>2. QED
        BY <2>3, <3>1 DEF HistoryInv, BudgetLeft, SameCounts
    <2>4. CASE jobs'[j].attempt_count = 0
      <3>1. Allowed(j)' \in Nat /\ Allowed(j)' > 0
        BY <1>1, <2>1, <2>2 DEF Allowed
      <3>2. QED
        BY <2>4, <3>1
    <2>5. QED
      BY <2>3, <2>4
  <1>10. QED
    BY <1>4, <1>5, <1>6, <1>7, <1>8, <1>9 DEF HistoryInv

\* The claim of a job opens an execution with the job's own attempt number.
LEMMA ClaimHistory ==
  ASSUME IInv, IInv', HistoryInv, NEW j \in Job, NEW t \in Task, ClaimStep(j, t)
  PROVE  HistoryInv'
  <1>1. task[t] = FreeTask /\ dlq[t] = "absent"
    <2>1. task[t].pc = "free"
      BY DEF ClaimStep
    <2>2. task[t] \in TaskState \cup {FreeTask}
      BY DEF IInv, TypeOK
    <2>3. task[t] = FreeTask
      BY <2>1, <2>2 DEF TaskState
    <2>4. dlq[t] = "absent"
      BY <2>1 DEF IInv, EntriesOfTasks
    <2> QED
      BY <2>3, <2>4
  <1>2. /\ task[t].row = "none" /\ ~Executing(t) /\ \A k \in Job : task[t].job # k
    BY <1>1, JobTableAssumption DEF FreeTask, Executing
  <1>3. \A k \in Job : /\ Rows(k, "failure")' = Rows(k, "failure")
                       /\ Rows(k, "success")' = Rows(k, "success")
                       /\ Entries(k, "retried")' = Entries(k, "retried")
    BY <1>1, <1>2 DEF Rows, Entries, ClaimStep, OtherTasksKept
  <1>4. \A k \in Job : \A s \in Rows(k, "failure") \cup Rows(k, "success") : task'[s] = task[s]
    BY <1>2 DEF Rows, ClaimStep, OtherTasksKept
  <1>5. \A k \in Job : SameCounts(k)
    BY DEF SameCounts, ClaimStep, OtherJobsKept
  <1>6. \A k \in Job : /\ jobs'[k].status = "absent" <=> jobs[k].status = "absent"
                       /\ jobs[k].status = "completed" => jobs'[k].status = "completed"
                       /\ jobs'[k].status = "failed" <=> jobs[k].status = "failed"
    BY DEF ClaimStep, OtherJobsKept
  <1>7. AttemptIsCurrent'
    <2> SUFFICES ASSUME NEW s \in Task, Executing(s)'
                 PROVE  /\ task'[s].attempt = jobs'[task'[s].job].attempt_count
                        /\ task'[s].row = "none"
      BY DEF AttemptIsCurrent
    <2>1. CASE s = t
      BY <1>5, <2>1 DEF ClaimStep, SameCounts
    <2>2. CASE s # t
      <3>1. task'[s] = task[s] /\ Executing(s)
        BY <2>2 DEF ClaimStep, OtherTasksKept, Executing
      <3>2. task[s].job \in Job
        BY <3>1 DEF IInv, TypeOK, TaskState, FreeTask, Executing
      <3>3. QED
        BY <1>5, <3>1, <3>2 DEF HistoryInv, AttemptIsCurrent, SameCounts
    <2>3. QED
      BY <2>1, <2>2
  <1>8. AbsentIsUnclaimed'
    <2> SUFFICES ASSUME NEW k \in Job, NEW s \in Task, jobs'[k].status = "absent"
                 PROVE  task'[s].job # k
      BY DEF AbsentIsUnclaimed
    <2>1. jobs[k].status = "absent" /\ k # j
      BY <1>6 DEF ClaimStep
    <2>2. QED
      BY <2>1 DEF HistoryInv, AbsentIsUnclaimed, ClaimStep, OtherTasksKept
  <1>9. FailuresCounted' /\ FailuresNumbered' /\ SuccessIsLast'
    <2>1. FailuresCounted'
      BY <1>3, <1>5 DEF HistoryInv, FailuresCounted, SameCounts
    <2>2. FailuresNumbered'
      BY <1>3, <1>4, <1>5 DEF HistoryInv, FailuresNumbered, SameCounts
    <2>3. SuccessIsLast'
      BY <1>3, <1>4, <1>5, <1>6 DEF HistoryInv, SuccessIsLast, SameCounts
    <2>4. QED
      BY <2>1, <2>2, <2>3
  <1>10. BudgetLeft'
    <2>1. \A k \in Job : Allowed(k)' = Allowed(k)
      BY <1>3, <1>5 DEF Allowed, SameCounts
    <2>2. QED
      BY <1>5, <1>6, <2>1 DEF HistoryInv, BudgetLeft, SameCounts
  <1>11. QED
    BY <1>7, <1>8, <1>9, <1>10 DEF HistoryInv

\* What holds of a task that records its result, and of its job.
LEMMA Recorder ==
  ASSUME IInv, HistoryInv, NEW t \in Task, Executing(t)
  PROVE  /\ task[t] \in TaskState
         /\ task[t].job \in Job
         /\ task[t].row = "none"
         /\ dlq[t] = "absent"
         /\ task[t].attempt = jobs[task[t].job].attempt_count
         /\ jobs[task[t].job].status \in Working
         /\ \A s \in Task : Executing(s) /\ s # t => task[s].job \in Job /\ task[s].job # task[t].job
  <1>1. task[t] \in TaskState /\ dlq[t] = "absent"
    BY DEF IInv, TypeOK, FreeTask, Executing, EntriesOfTasks
  <1>2. jobs[task[t].job].status \in Working
    BY DEF IInv, HandsOn, Executing, Working
  <1>3. \A s \in Task : Executing(s) /\ s # t => task[s].job \in Job /\ task[s].job # task[t].job
    BY DEF IInv, TypeOK, TaskState, FreeTask, SingleExecution, Executing
  <1>4. QED
    BY <1>1, <1>2, <1>3 DEF HistoryInv, AttemptIsCurrent, TaskState

\* The parts of the history a recorded result does not concern.
LEMMA RecordFrame ==
  ASSUME IInv, HistoryInv, NEW t \in Task, NEW r \in {"success", "failure"}, RecordStep(t, r),
         jobs'[task[t].job].status # "absent"
  PROVE  AttemptIsCurrent' /\ AbsentIsUnclaimed'
  <1> DEFINE j == task[t].job
  <1>1. /\ j \in Job /\ jobs[j].status # "absent"
        /\ \A s \in Task : Executing(s) /\ s # t => task[s].job \in Job /\ task[s].job # j
    BY Recorder DEF RecordStep, Working
  <1>2. /\ \A s \in Task : s # t => task'[s] = task[s]
        /\ \A k \in Job : k # j => jobs'[k] = jobs[k]
        /\ task'[t].job = j /\ ~Executing(t)'
        /\ jobs'[j].status # "absent"
    BY DEF RecordStep, OtherTasksKept, OtherJobsKept
  <1>3. \A s \in Task : Executing(s)' => Executing(s) /\ s # t
    BY <1>2 DEF Executing
  <1>4. AttemptIsCurrent'
    BY <1>1, <1>2, <1>3 DEF HistoryInv, AttemptIsCurrent
  <1>5. AbsentIsUnclaimed'
    <2> SUFFICES ASSUME NEW k \in Job, NEW s \in Task, jobs'[k].status = "absent"
                 PROVE  task'[s].job # k
      BY DEF AbsentIsUnclaimed
    <2>1. k # j /\ jobs[k].status = "absent"
      BY <1>2
    <2>2. QED
      BY <1>2, <2>1 DEF HistoryInv, AbsentIsUnclaimed
  <1>6. QED
    BY <1>4, <1>5

\* A success is recorded once, after all failures.
LEMMA SuccessHistory ==
  ASSUME IInv, IInv', HistoryInv, NEW t \in Task, SucceedStep(t)
  PROVE  HistoryInv'
  <1> DEFINE j == task[t].job
  <1>1. /\ RecordStep(t, "success") /\ dlq' = dlq
        /\ jobs'[j].status = "completed" /\ SameCounts(j)
    BY DEF SucceedStep
  <1>2. /\ j \in Job /\ task[t].row = "none" /\ task[t].attempt = jobs[j].attempt_count
        /\ jobs[j].status \in Working
    BY <1>1, Recorder DEF RecordStep
  <1>3. \A k \in Job : /\ Rows(k, "failure")' = Rows(k, "failure")
                       /\ Rows(k, "success")' = IF k = j THEN Rows(k, "success") \cup {t}
                                                ELSE Rows(k, "success")
    BY <1>1, <1>2, AddedRecord
  <1>4. /\ \A s \in Task : s # t => task'[s] = task[s]
        /\ \A k \in Job : k # j => jobs'[k] = jobs[k]
        /\ task'[t].job = j /\ task'[t].attempt = task[t].attempt
    BY <1>1 DEF RecordStep, OtherTasksKept, OtherJobsKept
  <1> HIDE DEF j
  <1>5. \A k \in Job : SameCounts(k)
    BY <1>1, <1>4 DEF SameCounts
  <1>6. AttemptIsCurrent' /\ AbsentIsUnclaimed'
    BY <1>1, RecordFrame DEF j
  <1>7. FailuresCounted'
    BY <1>3, <1>5 DEF HistoryInv, FailuresCounted, SameCounts
  <1>8. FailuresNumbered'
    <2>1. \A k \in Job : \A s \in Rows(k, "failure") : task'[s] = task[s]
      BY <1>2, <1>4 DEF Rows
    <2>2. QED
      BY <1>3, <1>5, <2>1 DEF HistoryInv, FailuresNumbered, SameCounts
  <1>9. SuccessIsLast'
    <2>1. Rows(j, "success") = {}
      BY <1>2 DEF HistoryInv, SuccessIsLast, Working
    <2>2. ASSUME NEW k \in Job, NEW s \in Rows(k, "success")', NEW u \in Rows(k, "success")'
          PROVE  /\ s = u /\ jobs'[k].status = "completed"
                 /\ task'[u].attempt = jobs'[k].attempt_count
      <3>1. CASE k = j
        <4>1. s = t /\ u = t
          BY <1>3, <2>1, <2>2, <3>1
        <4>2. QED
          BY <1>1, <1>2, <1>4, <3>1, <4>1 DEF SameCounts
      <3>2. CASE k # j
        <4>1. s \in Rows(k, "success") /\ u \in Rows(k, "success")
          BY <1>3, <2>2, <3>2
        <4>2. u \in Task /\ u # t
          BY <1>2, <4>1 DEF Rows
        <4>3. QED
          BY <1>4, <3>2, <4>1, <4>2 DEF HistoryInv, SuccessIsLast
      <3>3. QED
        BY <3>1, <3>2
    <2>3. QED
      BY <2>2 DEF SuccessIsLast
  <1>10. BudgetLeft'
    <2>1. \A s \in Task : task'[s].job = task[s].job
      BY <1>4 DEF j
    <2>2. \A k \in Job : Entries(k, "retried")' = Entries(k, "retried")
      BY <1>1, <2>1 DEF Entries
    <2>3. \A k \in Job : Allowed(k)' = Allowed(k)
      BY <1>5, <2>2 DEF Allowed, SameCounts
    <2>4. \A k \in Job : /\ jobs'[k].status = "absent" <=> jobs[k].status = "absent"
                         /\ jobs'[k].status = "failed" <=> jobs[k].status = "failed"
      BY <1>1, <1>2, <1>4 DEF Working
    <2>5. QED
      BY <1>5, <2>3, <2>4 DEF HistoryInv, BudgetLeft, SameCounts
  <1>11. QED
    BY <1>6, <1>7, <1>8, <1>9, <1>10 DEF HistoryInv

\* A failure is recorded under the next attempt number, and counted.
LEMMA FailureHistory ==
  ASSUME IInv, IInv', HistoryInv, NEW t \in Task, FailStep(t)
  PROVE  HistoryInv'
  <1>0. PICK j \in Job, n \in Nat : j = task[t].job /\ n = task[t].attempt + 1
    <2>1. task[t].job \in Job /\ task[t].attempt + 1 \in Nat
      BY Recorder DEF FailStep, RecordStep, TaskState
    <2>2. QED
      BY <2>1
  <1>1. /\ RecordStep(t, "failure")
        /\ jobs'[j].attempt_count = n /\ jobs'[j].max_attempts = jobs[j].max_attempts
        /\ IF n >= jobs[j].max_attempts
             THEN jobs'[j].status = "failed" /\ dlq' = [dlq EXCEPT ![t] = "open"]
             ELSE jobs'[j].status = "scheduled" /\ dlq' = dlq
    BY <1>0 DEF FailStep
  <1>2. /\ j \in Job /\ task[t].row = "none" /\ task[t].attempt = jobs[j].attempt_count
        /\ jobs[j].status \in Working /\ dlq[t] = "absent" /\ task[t].attempt \in Nat
    BY <1>0, <1>1, Recorder DEF RecordStep, TaskState
  <1>3. \A k \in Job : /\ Rows(k, "success")' = Rows(k, "success")
                       /\ Rows(k, "failure")' = IF k = j THEN Rows(k, "failure") \cup {t}
                                                ELSE Rows(k, "failure")
    BY <1>0, <1>1, <1>2, AddedRecord
  <1>4. /\ \A s \in Task : s # t => task'[s] = task[s]
        /\ \A k \in Job : k # j => jobs'[k] = jobs[k]
        /\ task'[t].job = j /\ task'[t].attempt = task[t].attempt
    BY <1>0, <1>1 DEF RecordStep, OtherTasksKept, OtherJobsKept
  <1>5. t \notin Rows(j, "failure")
    BY <1>2 DEF Rows
  <1>6. AttemptIsCurrent' /\ AbsentIsUnclaimed'
    BY <1>0, <1>1, RecordFrame
  <1>7. FailuresCounted'
    <2>1. Cardinality(Rows(j, "failure") \cup {t}) = Cardinality(Rows(j, "failure")) + 1
      BY <1>5, OneMore DEF Rows
    <2>2. jobs[j].attempt_count = Cardinality(Rows(j, "failure"))
      BY <1>2 DEF HistoryInv, FailuresCounted
    <2>3. jobs'[j].attempt_count = Cardinality(Rows(j, "failure"))'
      BY <1>0, <1>1, <1>2, <1>3, <2>1, <2>2
    <2>4. QED
      BY <1>3, <1>4, <2>3 DEF HistoryInv, FailuresCounted
  <1>8. FailuresNumbered'
    <2>1. \A k \in Job : \A s \in Rows(k, "failure") : s \in Task /\ s # t /\ task'[s] = task[s]
      BY <1>2, <1>4 DEF Rows
    <2>2. \A s \in Rows(j, "failure") :
            task[s].attempt \in Nat /\ task[s].attempt < task[t].attempt
      BY <1>2, <2>1 DEF HistoryInv, FailuresNumbered, IInv, TypeOK, TaskState, FreeTask
    <2>3. ASSUME NEW s \in Rows(j, "failure")', NEW u \in Rows(j, "failure")'
          PROVE  /\ task'[u].attempt < jobs'[j].attempt_count
                 /\ task'[s].attempt = task'[u].attempt => s = u
      <3>1. s \in Rows(j, "failure") \cup {t} /\ u \in Rows(j, "failure") \cup {t}
        BY <1>2, <1>3, <2>3
      <3>2. /\ task'[s].attempt = task[s].attempt /\ task'[u].attempt = task[u].attempt
        BY <1>4, <2>1, <3>1
      <3>3. task[u].attempt < n
        BY <1>0, <1>2, <2>2, <3>1
      <3>4. task[s].attempt = task[u].attempt => s = u
        <4>1. CASE s \in Rows(j, "failure") /\ u \in Rows(j, "failure")
          BY <1>2, <4>1 DEF HistoryInv, FailuresNumbered
        <4>2. CASE s = t \/ u = t
          BY <1>2, <2>2, <3>1, <4>2
        <4>3. QED
          BY <3>1, <4>1, <4>2
      <3>5. QED
        BY <1>1, <3>2, <3>3, <3>4
    <2>4. ASSUME NEW k \in Job, k # j,
                 NEW s \in Rows(k, "failure")', NEW u \in Rows(k, "failure")'
          PROVE  /\ task'[u].attempt < jobs'[k].attempt_count
                 /\ task'[s].attempt = task'[u].attempt => s = u
      BY <1>3, <1>4, <2>1, <2>4 DEF HistoryInv, FailuresNumbered
    <2>5. QED
      BY <2>3, <2>4 DEF FailuresNumbered
  <1>9. SuccessIsLast'
    <2>1. Rows(j, "success") = {}
      BY <1>2 DEF HistoryInv, SuccessIsLast, Working
    <2>2. \A k \in Job : \A s \in Rows(k, "success") : k # j /\ task'[s] = task[s]
      BY <1>2, <1>4, <2>1 DEF Rows
    <2>3. QED
      BY <1>3, <1>4, <2>2 DEF HistoryInv, SuccessIsLast
  <1>10. BudgetLeft'
    <2>1. \A k \in Job : Entries(k, "retried")' = Entries(k, "retried")
      <3>1. \A s \in Task : task'[s].job = task[s].job
        BY <1>0, <1>4
      <3>2. \A s \in Task : dlq'[s] = "retried" <=> dlq[s] = "retried"
        BY <1>1, <1>2 DEF IInv, TypeOK
      <3>3. QED
        BY <3>1, <3>2 DEF Entries
    <2>2. \A k \in Job : Allowed(k)' = Allowed(k)
      BY <1>1, <1>4, <2>1 DEF Allowed
    <2>3. jobs[j].attempt_count < Allowed(j)
      BY <1>2 DEF HistoryInv, BudgetLeft, Working
    <2>4. Allowed(j) \in Nat /\ (jobs[j].max_attempts > 0 => Allowed(j) >= jobs[j].max_attempts)
          /\ jobs[j].max_attempts \in Nat
      <3>1. Cardinality(Entries(j, "retried")) \in Nat
        BY TaskSets DEF Entries
      <3>2. jobs[j].max_attempts \in Nat
        BY <1>2 DEF IInv, TypeOK, Row
      <3>3. QED
        BY <3>1, <3>2 DEF Allowed
    <2>5. n <= Allowed(j) /\ (jobs'[j].status # "failed" => n < Allowed(j))
      BY <1>0, <1>1, <1>2, <2>3, <2>4
    <2>6. QED
      BY <1>1, <1>4, <2>2, <2>5 DEF HistoryInv, BudgetLeft
  <1>11. QED
    BY <1>6, <1>7, <1>8, <1>9, <1>10 DEF HistoryInv

\* The retry of a dead letter keeps the history and allows one attempt more.
LEMMA ReviveHistory ==
  ASSUME IInv, IInv', HistoryInv, NEW e \in Task, ReviveStep(e)
  PROVE  HistoryInv'
  <1>0. PICK j \in Job : j = task[e].job
    BY DEF ReviveStep, IInv, EntriesOfTasks, TypeOK, TaskState, FreeTask
  <1>1. /\ dlq[e] = "open" /\ dlq' = [dlq EXCEPT ![e] = "retried"] /\ task' = task
        /\ jobs'[j].status = "queued" /\ SameCounts(j)
        /\ \A k \in Job : k # j => jobs'[k] = jobs[k]
    BY <1>0 DEF ReviveStep, OtherJobsKept
  <1>2. jobs[j].status = "failed"
    BY <1>0, <1>1 DEF IInv, OpenIsFailed
  <1>3. \A k \in Job : SameCounts(k)
    BY <1>1 DEF SameCounts
  <1>4. \A k \in Job, r \in {"success", "failure"} : Rows(k, r)' = Rows(k, r)
    BY <1>1 DEF Rows
  <1>5. \A s \in Task : Executing(s)' <=> Executing(s)
    BY <1>1 DEF Executing
  <1>6. \A k \in Job : Entries(k, "retried")' = IF k = j THEN Entries(k, "retried") \cup {e}
                                                ELSE Entries(k, "retried")
    BY <1>0, <1>1 DEF Entries, IInv, TypeOK
  <1>7. e \notin Entries(j, "retried")
    BY <1>1 DEF Entries
  <1>8. \A k \in Job : /\ jobs'[k].status = "absent" <=> jobs[k].status = "absent"
                       /\ jobs[k].status = "completed" => jobs'[k].status = "completed"
    BY <1>1, <1>2
  <1>9. AttemptIsCurrent'
    <2>1. \A s \in Task : Executing(s) => task[s].job \in Job
      BY DEF IInv, TypeOK, TaskState, FreeTask, Executing
    <2>2. QED
      BY <1>1, <1>3, <1>5, <2>1 DEF HistoryInv, AttemptIsCurrent, SameCounts
  <1>10. AbsentIsUnclaimed'
    BY <1>1, <1>8 DEF HistoryInv, AbsentIsUnclaimed
  <1>11. FailuresCounted'
    BY <1>3, <1>4 DEF HistoryInv, FailuresCounted, SameCounts
  <1>12. FailuresNumbered'
    BY <1>1, <1>3, <1>4 DEF HistoryInv, FailuresNumbered, SameCounts
  <1>13. SuccessIsLast'
    BY <1>1, <1>3, <1>4, <1>8 DEF HistoryInv, SuccessIsLast, SameCounts
  <1>14. BudgetLeft'
    <2>1. \A k \in Job : k # j => Allowed(k)' = Allowed(k)
      BY <1>3, <1>6 DEF Allowed, SameCounts
    <2>2. /\ Cardinality(Entries(j, "retried"))' = Cardinality(Entries(j, "retried")) + 1
          /\ Cardinality(Entries(j, "retried")) \in Nat
      <3>1. Entries(j, "retried") \in SUBSET Task
        BY DEF Entries
      <3>2. QED
        BY <1>2, <1>6, <1>7, <3>1, OneMore, TaskSets
    <2>3. jobs[j].max_attempts \in Nat /\ jobs[j].attempt_count \in Nat
      BY <1>2 DEF IInv, TypeOK, Row
    <2>4. Allowed(j)' = Allowed(j) + 1 /\ Allowed(j) \in Nat
      BY <1>2, <1>3, <2>2, <2>3 DEF Allowed, SameCounts
    <2>5. jobs[j].attempt_count <= Allowed(j)
      BY <1>2 DEF HistoryInv, BudgetLeft
    <2>6. jobs'[j].attempt_count < Allowed(j)' /\ jobs'[j].attempt_count <= Allowed(j)'
      BY <1>2, <1>3, <2>3, <2>4, <2>5 DEF SameCounts
    <2>7. QED
      BY <1>1, <2>1, <2>6 DEF HistoryInv, BudgetLeft
  <1>15. QED
    BY <1>9, <1>10, <1>11, <1>12, <1>13, <1>14 DEF HistoryInv

(***************************************************************************)
(* Every step keeps the history, one case per kind of step.                *)
(***************************************************************************)
LEMMA HistoryStep ==
  ASSUME IInv, IInv', HistoryInv, [Next]_vars
  PROVE  HistoryInv'
  <1>1. CASE StillStep
    <2>1. RecordsKept
      BY <1>1 DEF StillStep
    <2>2. \A j \in Job : /\ SameCounts(j)
                         /\ jobs'[j].status = "absent" <=> jobs[j].status = "absent"
                         /\ jobs[j].status = "completed" => jobs'[j].status = "completed"
                         /\ jobs[j].status = "failed" => jobs'[j].status = "failed"
      BY <1>1 DEF StillStep, Waiting, Working
    <2>3. QED
      BY <2>1, <2>2, QuietHistory
  <1>2. ASSUME NEW j \in Job, InsertStep(j) PROVE HistoryInv'
    <2>1. RecordsKept /\ \A k \in Job : k # j => SameCounts(k) /\ jobs'[k].status = jobs[k].status
      BY <1>2 DEF InsertStep, OtherJobsKept, SameCounts
    <2>2. /\ jobs[j].status = "absent" /\ jobs'[j].status # "absent"
          /\ jobs'[j].attempt_count = 0
      BY <1>2 DEF InsertStep, Waiting
    <2>3. QED
      BY <2>1, <2>2, QuietHistory
  <1>3. ASSUME NEW j \in Job, CancelStep(j) PROVE HistoryInv'
    <2>1. /\ RecordsKept /\ SameCounts(j)
          /\ \A k \in Job : k # j => SameCounts(k) /\ jobs'[k].status = jobs[k].status
      BY <1>3 DEF CancelStep, OtherJobsKept, SameCounts
    <2>2. /\ jobs[j].status \notin {"absent", "completed", "failed"}
          /\ jobs'[j].status = "failed"
      BY <1>3 DEF CancelStep, Waiting
    <2>3. QED
      BY <2>1, <2>2, QuietHistory
  <1>4. QED
    <2>1. AttemptIsCurrent
      BY DEF HistoryInv
    <2>2. QED
      BY <1>1, <1>2, <1>3, <2>1, StepShape, ClaimHistory, SuccessHistory, FailureHistory,
         ReviveHistory

(***************************************************************************)
(* With timely heartbeats and one operator, the execution rows of a job    *)
(* are consistent at every moment: attempt_count counts the failures, no   *)
(* attempt number occurs twice, and no job succeeds twice, although the    *)
(* executor computes the number from the row it claimed and not from the   *)
(* row it updates.                                                         *)
(***************************************************************************)
THEOREM HistoryConsistentHolds ==
  ASSUME Timely, OneOperator
  PROVE  Spec => []HistoryConsistent
  <1>1. ASSUME IInv, HistoryInv PROVE HistoryConsistent
    <2> SUFFICES ASSUME NEW j \in Job
                 PROVE  /\ jobs[j].attempt_count = Cardinality(Rows(j, "failure"))
                        /\ Cardinality(Rows(j, "success")) <= 1
                        /\ \A s, t \in Rows(j, "failure") \cup Rows(j, "success") :
                             task[s].attempt = task[t].attempt => s = t
      BY DEF HistoryConsistent
    <2>1. jobs[j].attempt_count = Cardinality(Rows(j, "failure"))
      BY <1>1 DEF HistoryInv, FailuresCounted
    <2>2. Cardinality(Rows(j, "success")) <= 1
      <3>1. CASE Rows(j, "success") = {}
        BY <3>1, FS_EmptySet
      <3>2. CASE Rows(j, "success") # {}
        <4>1. PICK t \in Rows(j, "success") : TRUE
          BY <3>2
        <4>2. Rows(j, "success") = {t}
          BY <1>1, <4>1 DEF HistoryInv, SuccessIsLast
        <4>3. Cardinality({t}) = 1
          BY FS_Singleton
        <4>4. QED
          BY <4>2, <4>3
      <3>3. QED
        BY <3>1, <3>2
    <2>3. jobs[j].attempt_count \in Nat
      BY <1>1 DEF IInv, TypeOK, Row
    <2>4. ASSUME NEW s \in Rows(j, "failure"), NEW t \in Rows(j, "success")
          PROVE  task[s].attempt # task[t].attempt
      BY <1>1, <2>3 DEF HistoryInv, FailuresNumbered, SuccessIsLast
    <2>5. QED
      BY <1>1, <2>1, <2>2, <2>4 DEF HistoryInv, FailuresNumbered, SuccessIsLast
  <1>2. QED
    BY <1>1, IInvInit, IInvStep, HistoryInit, HistoryStep, PTL DEF Spec

(***************************************************************************)
(* Under the same assumptions failures are bounded by max_attempts and the *)
(* retries operators ask for, for every max_attempts, zero included.       *)
(***************************************************************************)
THEOREM AttemptBudgetHolds ==
  ASSUME Timely, OneOperator
  PROVE  Spec => []AttemptBudget
  <1>1. ASSUME IInv, HistoryInv PROVE AttemptBudget
    BY <1>1 DEF AttemptBudget, HistoryInv, FailuresCounted, BudgetLeft, Allowed
  <1>2. QED
    BY <1>1, IInvInit, IInvStep, HistoryInit, HistoryStep, PTL DEF Spec

-----------------------------------------------------------------------------
(* The contract                                                            *)

\* The initial tables show no jobs.
LEMMA ContractInit == Init => Contract!Init
  BY DEF Init, Contract!Init, PhaseOf, AbsentRow

(***************************************************************************)
(* Each kind of step is an action of JobContract, or shows nothing.        *)
(***************************************************************************)
LEMMA ContractStep ==
  ASSUME IInv, IInv', HistoryInv, [Next]_vars
  PROVE  [Contract!Next]_(Contract!vars)
  <1>1. \A j \in Job : /\ jobs[j].status \in Status /\ jobs'[j].status \in Status
                       /\ jobs[j].attempt_count \in Nat /\ jobs'[j].attempt_count \in Nat
                       /\ jobs[j].max_attempts \in Nat /\ jobs'[j].max_attempts \in Nat
    BY DEF IInv, TypeOK, Row
  <1>2. \A j \in Job :
          /\ jobs[j].status = "absent" => PhaseOf(j) = "none"
          /\ jobs[j].status \in Waiting => PhaseOf(j) = "waiting"
          /\ jobs[j].status \in Working => PhaseOf(j) = "working"
          /\ jobs[j].status = "completed" => PhaseOf(j) = "completed"
          /\ jobs[j].status = "failed" =>
               PhaseOf(j) = IF Entries(j, "open") = {} THEN "cancelled" ELSE "dead"
    BY DEF PhaseOf, Waiting, Working
  <1>3. \A j \in Job :
          /\ jobs'[j].status = "absent" => PhaseOf(j)' = "none"
          /\ jobs'[j].status \in Waiting => PhaseOf(j)' = "waiting"
          /\ jobs'[j].status \in Working => PhaseOf(j)' = "working"
          /\ jobs'[j].status = "completed" => PhaseOf(j)' = "completed"
          /\ jobs'[j].status = "failed" =>
               PhaseOf(j)' = IF Entries(j, "open")' = {} THEN "cancelled" ELSE "dead"
    BY DEF PhaseOf, Waiting, Working
  <1>4. \A j \in Job : jobs[j].status # "failed" => Entries(j, "open") = {}
    BY DEF IInv, OpenIsFailed, Entries
  \* Jobs a step leaves alone look the same.
  <1>5. ASSUME NEW j \in Job, \A k \in Job : k # j => jobs'[k] = jobs[k],
               \A k \in Job : k # j => Entries(k, "open")' = Entries(k, "open")
        PROVE  \A k \in Job : k # j => /\ PhaseOf(k)' = PhaseOf(k) /\ SameCounts(k)
    BY <1>5 DEF PhaseOf, SameCounts
  <1>6. CASE StillStep
    <2> DEFINE lost == {j \in Job : jobs[j].status \in Working /\ jobs'[j].status \in Waiting}
    <2>1. /\ \A j \in Job : Entries(j, "open")' = Entries(j, "open")
          /\ \A j \in Job : SameCounts(j)
      BY <1>6, KeptRecords DEF StillStep
    <2>2. \A j \in Job : PhaseOf(j)' = IF j \in lost THEN "waiting" ELSE PhaseOf(j)
      <3> SUFFICES ASSUME NEW j \in Job
                   PROVE  PhaseOf(j)' = IF j \in lost THEN "waiting" ELSE PhaseOf(j)
        OBVIOUS
      <3>1. CASE jobs'[j].status = jobs[j].status
        BY <1>1, <1>2, <1>3, <2>1, <3>1 DEF Status, Waiting, Working
      <3>2. CASE jobs'[j].status # jobs[j].status
        BY <1>2, <1>3, <1>6, <3>2 DEF StillStep, Waiting, Working
      <3>3. QED
        BY <3>1, <3>2
    <2>3. Contract!Recover
      <3>1. \A j \in lost : j \in Job /\ PhaseOf(j) = "working"
        BY <1>2
      <3>2. lost \in SUBSET Job
        OBVIOUS
      <3> HIDE DEF lost
      <3>3. QED
        BY <2>1, <2>2, <3>1, <3>2 DEF Contract!Recover, SameCounts
    <2>4. QED
      BY <2>3 DEF Contract!Next
  <1>7. ASSUME NEW j \in Job, InsertStep(j) PROVE Contract!Submit(j)
    <2>1. \A k \in Job : Entries(k, "open")' = Entries(k, "open")
      BY <1>7, KeptRecords DEF InsertStep
    <2>2. \A k \in Job : k # j => PhaseOf(k)' = PhaseOf(k) /\ SameCounts(k)
      BY <1>5, <1>7, <2>1 DEF InsertStep, OtherJobsKept
    <2>3. PhaseOf(j) = "none" /\ PhaseOf(j)' = "waiting"
      BY <1>2, <1>3, <1>7 DEF InsertStep
    <2>4. jobs'[j].attempt_count = jobs[j].attempt_count
      <3>1. Rows(j, "failure") = {}
        BY <1>7 DEF InsertStep, HistoryInv, AbsentIsUnclaimed, Rows
      <3>2. QED
        BY <1>7, <3>1, FS_EmptySet DEF InsertStep, HistoryInv, FailuresCounted
    <2>5. QED
      BY <1>1, <2>2, <2>3, <2>4 DEF Contract!Submit, Contract!Move, SameCounts
  <1>8. ASSUME NEW j \in Job, CancelStep(j) PROVE Contract!Cancel(j)
    <2>1. \A k \in Job : Entries(k, "open")' = Entries(k, "open")
      BY <1>8, KeptRecords DEF CancelStep
    <2>2. \A k \in Job : k # j => PhaseOf(k)' = PhaseOf(k) /\ SameCounts(k)
      BY <1>5, <1>8, <2>1 DEF CancelStep, OtherJobsKept
    <2>3. PhaseOf(j) = "waiting" /\ PhaseOf(j)' = "cancelled"
      <3>1. Entries(j, "open")' = {}
        BY <1>4, <1>8, <2>1 DEF CancelStep, Waiting
      <3>2. QED
        BY <1>2, <1>3, <1>8, <3>1 DEF CancelStep
    <2>4. QED
      BY <1>8, <2>2, <2>3 DEF Contract!Cancel, Contract!Move, SameCounts, CancelStep
  <1>9. ASSUME NEW j \in Job, NEW t \in Task, ClaimStep(j, t) PROVE Contract!Start(j)
    <2>1. \A k \in Job : Entries(k, "open")' = Entries(k, "open")
      <3>1. dlq[t] = "absent"
        BY <1>9 DEF ClaimStep, IInv, EntriesOfTasks, TypeOK
      <3>2. QED
        BY <1>9, <3>1 DEF ClaimStep, OtherTasksKept, Entries
    <2>2. \A k \in Job : k # j => PhaseOf(k)' = PhaseOf(k) /\ SameCounts(k)
      BY <1>5, <1>9, <2>1 DEF ClaimStep, OtherJobsKept
    <2>3. PhaseOf(j) = "waiting" /\ PhaseOf(j)' = "working"
      BY <1>2, <1>3, <1>9 DEF ClaimStep, Waiting, Working
    <2>4. QED
      BY <1>9, <2>2, <2>3 DEF Contract!Start, Contract!Move, SameCounts, ClaimStep
  <1>10. ASSUME NEW t \in Task, SucceedStep(t) PROVE \E j \in Job : Contract!Complete(j)
    <2>1. RecordStep(t, "success") /\ dlq' = dlq
      BY <1>10 DEF SucceedStep
    <2>2. PICK j \in Job : j = task[t].job /\ jobs[j].status \in Working
      BY <2>1, Recorder DEF RecordStep
    <2>3. \A k \in Job : Entries(k, "open")' = Entries(k, "open")
      BY <2>1, <2>2 DEF RecordStep, OtherTasksKept, Entries
    <2>4. \A k \in Job : k # j => PhaseOf(k)' = PhaseOf(k) /\ SameCounts(k)
      BY <1>5, <2>1, <2>2, <2>3 DEF RecordStep, OtherJobsKept
    <2>5. SameCounts(j) /\ jobs'[j].status = "completed"
      BY <1>10, <2>2 DEF SucceedStep
    <2>6. PhaseOf(j) = "working" /\ PhaseOf(j)' = "completed"
      BY <1>2, <1>3, <2>2, <2>5
    <2>7. Contract!Complete(j)
      BY <2>4, <2>5, <2>6 DEF Contract!Complete, Contract!Move, SameCounts
    <2>8. QED
      BY <2>7
  <1>11. ASSUME NEW t \in Task, FailStep(t) PROVE \E j \in Job : Contract!Fail(j)
    <2>1. RecordStep(t, "failure")
      BY <1>11 DEF FailStep
    <2>2. PICK j \in Job : /\ j = task[t].job /\ jobs[j].status \in Working
                           /\ task[t].attempt = jobs[j].attempt_count
      BY <2>1, Recorder DEF RecordStep
    <2>3. \A s \in Task : task'[s].job = task[s].job
      BY <2>1 DEF RecordStep, OtherTasksKept
    <2>4. \A k \in Job : k # j => Entries(k, "open")' = Entries(k, "open")
      <3>1. \A s \in Task : s # t => dlq'[s] = dlq[s]
        BY <1>11 DEF FailStep, IInv, TypeOK
      <3>2. QED
        BY <2>2, <2>3, <3>1 DEF Entries
    <2>5. \A k \in Job : k # j => PhaseOf(k)' = PhaseOf(k) /\ SameCounts(k)
      BY <1>5, <2>1, <2>2, <2>4 DEF RecordStep, OtherJobsKept
    <2>6. /\ jobs'[j].attempt_count = jobs[j].attempt_count + 1
          /\ jobs'[j].max_attempts = jobs[j].max_attempts
      BY <1>11, <2>2 DEF FailStep
    <2>7. PhaseOf(j) = "working"
      BY <1>2, <2>2
    <2>8. CASE jobs[j].attempt_count + 1 >= jobs[j].max_attempts
      <3>1. jobs'[j].status = "failed" /\ dlq' = [dlq EXCEPT ![t] = "open"]
        BY <1>11, <2>2, <2>8 DEF FailStep
      <3>2. t \in Entries(j, "open")'
        BY <2>2, <2>3, <3>1 DEF Entries, IInv, TypeOK
      <3>3. PhaseOf(j)' = "dead"
        BY <1>3, <3>1, <3>2
      <3>4. Contract!Fail(j)
        BY <2>5, <2>6, <2>7, <2>8, <3>3 DEF Contract!Fail, Contract!Move, SameCounts
      <3>5. QED
        BY <3>4
    <2>9. CASE ~(jobs[j].attempt_count + 1 >= jobs[j].max_attempts)
      <3>1. jobs'[j].status = "scheduled"
        BY <1>11, <2>2, <2>9 DEF FailStep
      <3>2. PhaseOf(j)' = "waiting"
        BY <1>3, <3>1 DEF Waiting
      <3>3. Contract!Fail(j)
        BY <2>5, <2>6, <2>7, <2>9, <3>2 DEF Contract!Fail, Contract!Move, SameCounts
      <3>4. QED
        BY <3>3
    <2>10. QED
      BY <2>8, <2>9
  <1>12. ASSUME NEW e \in Task, ReviveStep(e) PROVE \E j \in Job : Contract!Revive(j)
    <2>1. dlq[e] = "open" /\ dlq' = [dlq EXCEPT ![e] = "retried"] /\ task' = task
      BY <1>12 DEF ReviveStep
    <2>2. PICK j \in Job : j = task[e].job /\ jobs[j].status = "failed"
      BY <2>1 DEF IInv, OpenIsFailed, EntriesOfTasks, TypeOK, TaskState, FreeTask
    <2>3. \A k \in Job : k # j => Entries(k, "open")' = Entries(k, "open")
      BY <2>1, <2>2 DEF Entries, IInv, TypeOK
    <2>4. \A k \in Job : k # j => PhaseOf(k)' = PhaseOf(k) /\ SameCounts(k)
      BY <1>5, <1>12, <2>2, <2>3 DEF ReviveStep, OtherJobsKept
    <2>5. SameCounts(j) /\ jobs'[j].status = "queued"
      BY <1>12, <2>2 DEF ReviveStep
    <2>6. e \in Entries(j, "open")
      BY <2>1, <2>2 DEF Entries
    <2>7. PhaseOf(j) = "dead" /\ PhaseOf(j)' = "waiting"
      BY <1>2, <1>3, <2>2, <2>5, <2>6 DEF Waiting
    <2>8. Contract!Revive(j)
      BY <2>4, <2>5, <2>7 DEF Contract!Revive, Contract!Move, SameCounts
    <2>9. QED
      BY <2>8
  <1>13. QED
    <2>1. AttemptIsCurrent
      BY DEF HistoryInv
    <2>2. QED
      BY <1>6, <1>7, <1>8, <1>9, <1>10, <1>11, <1>12, <2>1, StepShape DEF Contract!Next

(***************************************************************************)
(* With timely heartbeats and one operator the scheduler implements        *)
(* JobContract, for any number of jobs, workers, queues, crashes and       *)
(* database errors.                                                        *)
(***************************************************************************)
THEOREM ContractImplemented ==
  ASSUME Timely, OneOperator
  PROVE  Spec => ImplementsContract
  BY IInvInit, IInvStep, HistoryInit, HistoryStep, ContractInit, ContractStep, PTL
  DEF Spec, ImplementsContract, Contract!Spec

-----------------------------------------------------------------------------
(* Work that left no record                                                *)

\* A set of tasks that gains at most one member counts at most one more.
LEMMA AtMostOneMore ==
  ASSUME NEW S \in SUBSET Task, NEW T \in SUBSET Task, NEW t \in Task, S \subseteq T \cup {t}
  PROVE  Cardinality(S) <= Cardinality(T) + 1
  <1>1. Cardinality(T \cup {t}) <= Cardinality(T) + 1
    <2>1. CASE t \in T
      <3>1. T \cup {t} = T
        BY <2>1
      <3>2. QED
        BY <3>1, TaskSets
    <2>2. CASE t \notin T
      BY <2>2, OneMore, TaskSets
    <2>3. QED
      BY <2>1, <2>2
  <1>2. T \cup {t} \in SUBSET Task
    OBVIOUS
  <1>3. IsFiniteSet(T \cup {t}) /\ Cardinality(T \cup {t}) \in Nat
    BY <1>2, TaskSets
  <1>4. Cardinality(S) <= Cardinality(T \cup {t})
    BY <1>3, FS_Subset
  <1>5. QED
    BY <1>1, <1>3, <1>4, TaskSets

\* What a step that cuts off at most one execution of each job has to pay.
LEMMA Charge ==
  ASSUME TypeOK, TypeOK', CutOffIsExplained, IsFiniteSet(Stopping'),
         \A j \in Job : \/ CutOff(j)' \subseteq CutOff(j)
                        \/ \E t \in Task : CutOff(j)' \subseteq CutOff(j) \cup {t},
         stops + faults + 1 + Cardinality(Stopping') <= stops' + faults' + Cardinality(Stopping)
  PROVE  CutOffIsExplained'
  <1> SUFFICES ASSUME NEW j \in Job
               PROVE  Cardinality(CutOff(j)') + Cardinality(Stopping') <= stops' + faults'
    BY DEF CutOffIsExplained
  <1>1. CutOff(j) \in SUBSET Task /\ CutOff(j)' \in SUBSET Task
    BY DEF CutOff
  <1>2. Cardinality(CutOff(j)') <= Cardinality(CutOff(j)) + 1
    <2>1. CASE CutOff(j)' \subseteq CutOff(j)
      BY <1>1, <2>1, TaskSets, FS_Subset
    <2>2. CASE \E t \in Task : CutOff(j)' \subseteq CutOff(j) \cup {t}
      BY <1>1, <2>2, AtMostOneMore
    <2>3. QED
      BY <2>1, <2>2
  <1>3. /\ Cardinality(CutOff(j)) \in Nat /\ Cardinality(CutOff(j)') \in Nat
        /\ Cardinality(Stopping) \in Nat /\ Cardinality(Stopping') \in Nat
    BY <1>1, TaskSets, FS_CardinalityType DEF CutOffIsExplained
  <1>4. Cardinality(CutOff(j)) + Cardinality(Stopping) <= stops + faults
    BY DEF CutOffIsExplained
  <1>5. stops \in Nat /\ faults \in Nat /\ stops' \in Nat /\ faults' \in Nat
    BY SchedulerAssumption DEF TypeOK
  <1>6. QED
    BY <1>2, <1>3, <1>4, <1>5

\* A step that cuts off nothing.
LEMMA NoCharge ==
  ASSUME TypeOK, TypeOK', CutOffIsExplained, IsFiniteSet(Stopping'),
         \A j \in Job : CutOff(j)' \subseteq CutOff(j),
         stops + faults + Cardinality(Stopping') <= stops' + faults' + Cardinality(Stopping)
  PROVE  CutOffIsExplained'
  <1> SUFFICES ASSUME NEW j \in Job
               PROVE  Cardinality(CutOff(j)') + Cardinality(Stopping') <= stops' + faults'
    BY DEF CutOffIsExplained
  <1>1. CutOff(j) \in SUBSET Task /\ CutOff(j)' \in SUBSET Task
    BY DEF CutOff
  <1>2. Cardinality(CutOff(j)') <= Cardinality(CutOff(j))
    BY <1>1, TaskSets, FS_Subset
  <1>3. /\ Cardinality(CutOff(j)) \in Nat /\ Cardinality(CutOff(j)') \in Nat
        /\ Cardinality(Stopping) \in Nat /\ Cardinality(Stopping') \in Nat
    BY <1>1, TaskSets, FS_CardinalityType DEF CutOffIsExplained
  <1>4. Cardinality(CutOff(j)) + Cardinality(Stopping) <= stops + faults
    BY DEF CutOffIsExplained
  <1>5. stops \in Nat /\ faults \in Nat /\ stops' \in Nat /\ faults' \in Nat
    BY SchedulerAssumption DEF TypeOK
  <1>6. QED
    BY <1>2, <1>3, <1>4, <1>5

\* A process that begins to stop is counted, and pays for what it cuts off
\* when it is gone.
LEMMA ProcessPays ==
  ASSUME IInv, IInv', CutOffIsExplained, NEW w \in Worker, ProcessStep(w)
  PROVE  CutOffIsExplained'
  <1> USE DEF IInv
  <1>1. /\ stops \in Nat /\ faults \in Nat /\ IsFiniteSet(Stopping)
        /\ Cardinality(Stopping) \in Nat
    BY SchedulerAssumption, FS_CardinalityType DEF TypeOK, CutOffIsExplained
  <1>2. ASSUME task' = task PROVE \A j \in Job : CutOff(j)' \subseteq CutOff(j)
    BY <1>2 DEF CutOff, Executing
  <1>3. CASE StartProcess(w) \/ Register(w) \/ Heartbeat(w) \/ HeartbeatAges(w)
    <2>1. UNCHANGED <<task, stops, faults>>
      BY <1>3 DEF StartProcess, Register, Heartbeat, HeartbeatAges, counters
    <2>2. Stopping' = Stopping
      BY <1>3 DEF StartProcess, Register, Heartbeat, HeartbeatAges, Stopping, TypeOK
    <2>3. QED
      BY <1>1, <1>2, <2>1, <2>2, NoCharge
  <1>4. CASE Shutdown(w)
    <2>1. task' = task /\ faults' = faults /\ stops' = stops + 1
      BY <1>4 DEF Shutdown
    <2>2. w \notin Stopping /\ Stopping' = Stopping \cup {w}
      BY <1>4 DEF Shutdown, Stopping, TypeOK
    <2>3. IsFiniteSet(Stopping') /\ Cardinality(Stopping') = Cardinality(Stopping) + 1
      BY <1>1, <2>2, FS_AddElement
    <2>4. QED
      BY <1>1, <1>2, <2>1, <2>3, NoCharge
  <1>5. ASSUME Vanish(w)
        PROVE  /\ \A j \in Job : \/ CutOff(j)' \subseteq CutOff(j)
                              \/ \E t \in Task : CutOff(j)' \subseteq CutOff(j) \cup {t}
               /\ IsFiniteSet(Stopping')
               /\ Cardinality(Stopping') = IF w \in Stopping THEN Cardinality(Stopping) - 1
                                           ELSE Cardinality(Stopping)
    <2>1. Stopping' = Stopping \ {w}
      BY <1>5 DEF Vanish, Stopping, TypeOK
    <2>2. \A t \in Task : /\ task'[t].job = task[t].job /\ task'[t].row = task[t].row
                          /\ Executing(t)' => Executing(t)
      BY <1>5 DEF Vanish, Pending, Executing, TypeOK, TaskState, FreeTask
    <2>3. ASSUME NEW j \in Job
          PROVE  \/ CutOff(j)' \subseteq CutOff(j)
                 \/ \E t \in Task : CutOff(j)' \subseteq CutOff(j) \cup {t}
      <3>1. CASE \E t \in Task : Executing(t) /\ task[t].job = j
        <4>1. PICK t \in Task : Executing(t) /\ task[t].job = j
          BY <3>1
        <4>2. CutOff(j)' \subseteq CutOff(j) \cup {t}
          BY <2>2, <4>1 DEF CutOff, SingleExecution
        <4>3. QED
          BY <4>2
      <3>2. CASE ~\E t \in Task : Executing(t) /\ task[t].job = j
        <4>1. CutOff(j)' \subseteq CutOff(j)
          BY <2>2, <3>2 DEF CutOff
        <4>2. QED
          BY <4>1
      <3>3. QED
        BY <3>1, <3>2
    <2>4. QED
      BY <1>1, <2>1, <2>3, FS_RemoveElement
  <1>6. CASE Exit(w)
    <2>1. w \in Stopping /\ Vanish(w) /\ UNCHANGED <<stops, faults>>
      BY <1>6 DEF Exit, Stopping, counters
    <2>2. QED
      BY <1>1, <1>5, <2>1, Charge
  <1>7. CASE Crash(w)
    <2>1. Vanish(w) /\ faults' = faults /\ stops' = stops + 1
      BY <1>7 DEF Crash
    <2>2. QED
      BY <1>1, <1>5, <2>1, Charge
  <1>8. QED
    BY <1>3, <1>4, <1>6, <1>7 DEF ProcessStep

\* A poller or an executor task pays a database error for what it cuts off.
LEMMA WorkPays ==
  ASSUME IInv, IInv', HistoryInv, CutOffIsExplained,
         \/ \E w \in Worker : PollerStep(w)
         \/ \E t \in Task : ExecutorStep(t)
  PROVE  CutOffIsExplained'
  <1>1. /\ stops \in Nat /\ faults \in Nat /\ IsFiniteSet(Stopping)
        /\ Cardinality(Stopping) \in Nat /\ TypeOK /\ TypeOK'
    BY SchedulerAssumption, FS_CardinalityType DEF IInv, TypeOK, CutOffIsExplained
  <1>2. proc' = proc
    BY DEF PollerStep, PollQueue, PollCount, PollClaim, PollNothing, PollError, ClaimReplyLost,
           TakeJob, ExecutorStep, MarkRunning, FinishOk, FinishRetry, FinishDlq,
           ScheduleNextOccurrence, MarkRunningError, TransactionError, RetryPanics, CommitReplyLost,
           SilentRollback, OccurrenceError, Write
  <1>3. Stopping' = Stopping
    BY <1>2 DEF Stopping
  <1>4. stops' = stops /\ faults' \in {faults, faults + 1}
    BY DEF PollerStep, PollQueue, PollCount, PollClaim, PollNothing, PollError, ClaimReplyLost,
           ExecutorStep, MarkRunning, FinishOk, FinishRetry, FinishDlq,
           ScheduleNextOccurrence, MarkRunningError, TransactionError, RetryPanics, CommitReplyLost,
           SilentRollback, OccurrenceError, Fault, counters
  <1>5. ASSUME \A j \in Job : CutOff(j)' \subseteq CutOff(j) PROVE CutOffIsExplained'
    <2>1. stops + faults + Cardinality(Stopping') <= stops' + faults' + Cardinality(Stopping)
      BY <1>1, <1>3, <1>4
    <2>2. QED
      BY <1>1, <1>3, <1>5, <2>1, NoCharge
  <1>6. ASSUME NEW t \in Task, \A j \in Job : CutOff(j)' \subseteq CutOff(j) \cup {t},
               faults' = faults + 1
        PROVE  CutOffIsExplained'
    <2>1. stops + faults + 1 + Cardinality(Stopping') <= stops' + faults' + Cardinality(Stopping)
      BY <1>1, <1>3, <1>4, <1>6
    <2>2. QED
      BY <1>1, <1>3, <1>6, <2>1, Charge
  <1>7. ASSUME NEW w \in Worker, PollerStep(w) PROVE CutOffIsExplained'
    <2>1. CASE PollQueue(w) \/ PollCount(w) \/ PollNothing(w) \/ PollError(w)
      <3>1. task' = task
        BY <2>1 DEF PollQueue, PollCount, PollNothing, PollError
      <3>2. \A j \in Job : CutOff(j)' \subseteq CutOff(j)
        BY <3>1 DEF CutOff, Executing
      <3>3. QED
        BY <1>5, <3>2
    <2>2. ASSUME NEW j \in Job, NEW pc, TakeJob(w, j, pc)
          PROVE  /\ claims + 1 \in Task
                 /\ task'[claims + 1].pc = pc
                 /\ \A s \in Task : s # claims + 1 => task'[s] = task[s]
      BY <2>2, SchedulerAssumption DEF TakeJob, IInv, TypeOK, Task
    <2>3. CASE PollClaim(w)
      <3>1. /\ claims + 1 \in Task /\ task'[claims + 1].pc = "claimed"
            /\ \A s \in Task : s # claims + 1 => task'[s] = task[s]
        BY <2>2, <2>3 DEF PollClaim
      <3>2. \A j \in Job : CutOff(j)' \subseteq CutOff(j)
        BY <3>1 DEF CutOff, Executing
      <3>3. QED
        BY <1>5, <3>2
    <2>4. CASE ClaimReplyLost(w)
      <3>1. /\ claims + 1 \in Task
            /\ \A s \in Task : s # claims + 1 => task'[s] = task[s]
        BY <2>2, <2>4 DEF ClaimReplyLost
      <3>2. PICK t \in Task : t = claims + 1
        BY <3>1
      <3>3. \A j \in Job : CutOff(j)' \subseteq CutOff(j) \cup {t}
        BY <3>1, <3>2 DEF CutOff, Executing
      <3>4. QED
        BY <1>6, <2>4, <3>3 DEF ClaimReplyLost, Fault
    <2>5. QED
      BY <1>7, <2>1, <2>3, <2>4 DEF PollerStep
  <1>8. ASSUME NEW t \in Task, ExecutorStep(t) PROVE CutOffIsExplained'
    <2>1. task[t].pc # "free"
      BY <1>8 DEF ExecutorStep, MarkRunning, FinishOk, FinishRetry, FinishDlq,
           ScheduleNextOccurrence, MarkRunningError, TransactionError, RetryPanics, CommitReplyLost,
           SilentRollback, OccurrenceError, Runs
    <2>2. task[t] \in TaskState
      BY <2>1 DEF IInv, TypeOK, FreeTask
    <2>3. ASSUME NEW r, NEW pc, NEW e, Write(t, r, pc, e)
          PROVE  /\ \A s \in Task : s # t => task'[s] = task[s]
                 /\ task'[t].job = task[t].job /\ task'[t].pc = pc /\ task'[t].row = e
      <3>1. task' = [task EXCEPT ![t] = [task[t] EXCEPT !.pc = pc, !.row = e]]
        BY <2>3 DEF Write, IInv, TypeOK
      <3>2. QED
        BY <2>2, <3>1 DEF IInv, TypeOK, TaskState
    <2>4. ASSUME \A s \in Task : s # t => task'[s] = task[s]
          PROVE  \A j \in Job : CutOff(j)' \subseteq CutOff(j) \cup {t}
      BY <2>4 DEF CutOff, Executing
    <2>5. CASE MarkRunning(t)
      <3>1. task'[t].pc = "running" /\ \A s \in Task : s # t => task'[s] = task[s]
        BY <2>3, <2>5 DEF MarkRunning
      <3>2. QED
        BY <1>5, <3>1 DEF CutOff, Executing
    <2>6. CASE FinishOk(t) \/ FinishRetry(t) \/ FinishDlq(t) \/ CommitReplyLost(t)
      <3>1. task'[t].row # "none" /\ \A s \in Task : s # t => task'[s] = task[s]
        BY <2>3, <2>6 DEF FinishOk, FinishRetry, FinishDlq, CommitReplyLost
      <3>2. \A j \in Job : CutOff(j)' \subseteq CutOff(j)
        BY <3>1 DEF CutOff, Executing
      <3>3. QED
        BY <1>5, <3>2
    <2>7. CASE MarkRunningError(t) \/ TransactionError(t) \/ RetryPanics(t) \/ SilentRollback(t)
      <3>1. faults' = faults + 1 /\ \A s \in Task : s # t => task'[s] = task[s]
        BY <2>3, <2>7 DEF MarkRunningError, TransactionError, RetryPanics, SilentRollback, Fault
      <3>2. QED
        BY <1>6, <2>4, <3>1
    <2>8. CASE ScheduleNextOccurrence(t) \/ OccurrenceError(t)
      <3>1. task[t].pc = "recur"
        BY <2>8 DEF ScheduleNextOccurrence, OccurrenceError, Runs
      <3>2. /\ \A s \in Task : s # t => task'[s] = task[s]
            /\ task'[t].job = task[t].job /\ task'[t].row = task[t].row
        <4>1. CASE OccurrenceError(t)
          BY <2>3, <4>1 DEF OccurrenceError
        <4>2. CASE ScheduleNextOccurrence(t)
          <5>1. task' = [task EXCEPT ![t] = [task[t] EXCEPT !.pc = "done"]]
            BY <4>2 DEF ScheduleNextOccurrence, IInv, TypeOK
          <5>2. QED
            BY <2>2, <5>1 DEF IInv, TypeOK, TaskState
        <4>3. QED
          BY <2>8, <4>1, <4>2
      <3>3. \A j \in Job : CutOff(j)' \subseteq CutOff(j)
        BY <3>1, <3>2 DEF CutOff, Executing
      <3>4. QED
        BY <1>5, <3>3
    <2>9. QED
      BY <1>8, <2>5, <2>6, <2>7, <2>8 DEF ExecutorStep
  <1>9. QED
    BY <1>7, <1>8

\* Every execution that is cut off is paid for by a stop or a database error.
LEMMA CutOffStep ==
  ASSUME IInv, IInv', HistoryInv, CutOffIsExplained, [Next]_vars
  PROVE  CutOffIsExplained'
  <1>1. CASE \/ ReQueueScheduledJobs \/ RecoverStaleJobs \/ ApiStep
             \/ (\E j \in Job : Elapse(j)) \/ UNCHANGED vars
    <2>1. UNCHANGED <<task, proc, stops, faults>>
      BY <1>1 DEF ReQueueScheduledJobs, RecoverStaleJobs, ApiStep, CreateCheck, CreateInsert,
        RetryCheck, RetryCommit, CancelJob, SetPaused, RequestFails, Elapse, vars, counters
    <2>2. Stopping' = Stopping /\ \A j \in Job : CutOff(j)' = CutOff(j)
      BY <2>1 DEF Stopping, CutOff, Executing
    <2>3. QED
      BY <2>1, <2>2 DEF CutOffIsExplained
  <1>2. QED
    BY <1>1, ProcessPays, WorkPays DEF Next

(***************************************************************************)
(* With timely heartbeats and one operator, a job is executed once for     *)
(* each row in job_executions, once more while a task holds it, and        *)
(* otherwise only as often as processes stopped or statements failed.      *)
(***************************************************************************)
THEOREM WorkIsAccountedHolds ==
  ASSUME Timely, OneOperator
  PROVE  Spec => []WorkIsAccounted
  <1>1. Init => CutOffIsExplained
    <2> SUFFICES ASSUME Init PROVE CutOffIsExplained
      OBVIOUS
    <2>1. Stopping = {}
      BY DEF Init, Stopping
    <2>2. \A j \in Job : CutOff(j) = {}
      BY JobTableAssumption DEF Init, CutOff, FreeTask
    <2>3. stops = 0 /\ faults = 0
      BY DEF Init
    <2>4. QED
      BY <2>1, <2>2, <2>3, FS_EmptySet DEF CutOffIsExplained
  <1>2. ASSUME IInv, HistoryInv, CutOffIsExplained PROVE WorkIsAccounted
    <2> SUFFICES ASSUME NEW j \in Job
                 PROVE  Cardinality({t \in Task : task[t].job = j})
                          <= Cardinality(Rows(j, "success") \cup Rows(j, "failure"))
                               + stops + faults
                               + (IF jobs[j].status \in {"claimed", "running"} THEN 1 ELSE 0)
      BY DEF WorkIsAccounted
    <2> DEFINE All == {t \in Task : task[t].job = j}
               Done == Rows(j, "success") \cup Rows(j, "failure")
               Exec == {t \in Task : task[t].job = j /\ Executing(t)}
    <2>1. \A t \in Task : task[t].row \in {"none", "success", "failure"}
      BY <1>2 DEF IInv, TypeOK, TaskState, FreeTask
    <2>2. All = (Done \cup CutOff(j)) \cup Exec
      BY <2>1 DEF Rows, CutOff
    <2>3. Cardinality(Exec) <= IF jobs[j].status \in {"claimed", "running"} THEN 1 ELSE 0
      <3>1. CASE Exec = {}
        BY <3>1, FS_EmptySet
      <3>2. CASE Exec # {}
        <4>1. PICK t \in Task : Executing(t) /\ task[t].job = j
          BY <3>2
        <4>2. jobs[j].status \in {"claimed", "running"}
          BY <1>2, <4>1 DEF IInv, HandsOn, Executing
        <4>3. Exec = {t}
          BY <1>2, <4>1 DEF IInv, SingleExecution
        <4>4. Cardinality({t}) = 1
          BY FS_Singleton
        <4>5. QED
          BY <4>2, <4>3, <4>4
      <3>3. QED
        BY <3>1, <3>2
    <2>4. /\ Done \in SUBSET Task /\ CutOff(j) \in SUBSET Task /\ Exec \in SUBSET Task
      BY DEF Rows, CutOff
    <2>5. \A S, T \in SUBSET Task : Cardinality(S \cup T) <= Cardinality(S) + Cardinality(T)
      <3> SUFFICES ASSUME NEW S \in SUBSET Task, NEW T \in SUBSET Task
                   PROVE  Cardinality(S \cup T) <= Cardinality(S) + Cardinality(T)
        OBVIOUS
      <3>1. S \cap T \in SUBSET Task
        OBVIOUS
      <3>2. Cardinality(S \cup T) = Cardinality(S) + Cardinality(T) - Cardinality(S \cap T)
        BY TaskSets, FS_Union
      <3>3. /\ Cardinality(S) \in Nat /\ Cardinality(T) \in Nat
            /\ Cardinality(S \cap T) \in Nat
        BY <3>1, TaskSets
      <3>4. QED
        BY <3>2, <3>3
    <2>6. /\ Cardinality(Done) \in Nat /\ Cardinality(CutOff(j)) \in Nat
          /\ Cardinality(Exec) \in Nat /\ Cardinality(Done \cup CutOff(j)) \in Nat
          /\ Cardinality(All) \in Nat
      <3>1. Done \cup CutOff(j) \in SUBSET Task /\ All \in SUBSET Task
        BY <2>4
      <3>2. QED
        BY <2>4, <3>1, TaskSets
    <2>7. /\ Cardinality(All) <= Cardinality(Done \cup CutOff(j)) + Cardinality(Exec)
          /\ Cardinality(Done \cup CutOff(j)) <= Cardinality(Done) + Cardinality(CutOff(j))
      <3>1. Done \cup CutOff(j) \in SUBSET Task
        BY <2>4
      <3> HIDE DEF Done, Exec, All
      <3>2. QED
        BY <2>2, <2>4, <2>5, <3>1
    <2>8. /\ stops \in Nat /\ faults \in Nat /\ Cardinality(Stopping) \in Nat
          /\ Cardinality(CutOff(j)) + Cardinality(Stopping) <= stops + faults
      BY <1>2, SchedulerAssumption, FS_CardinalityType DEF IInv, TypeOK, CutOffIsExplained
    <2> HIDE DEF Exec
    <2>9. QED
      BY <2>3, <2>6, <2>7, <2>8
  <1>3. QED
    BY <1>1, <1>2, IInvInit, IInvStep, HistoryInit, HistoryStep, CutOffStep, PTL DEF Spec

-----------------------------------------------------------------------------
(* Queued jobs are claimable: no assumption on heartbeats                  *)

\* What the statements of JobTable do to scheduled_at and next_attempt_at.
LEMMA RowTimes ==
  ASSUME NEW row \in Row
  PROVE  /\ \A w \in Worker : ClaimRow(row, w).scheduled_at = row.scheduled_at
         /\ MarkRunningRow(row).scheduled_at = row.scheduled_at
         /\ CompleteRow(row).scheduled_at = row.scheduled_at
         /\ \A n \in Nat : /\ FailRow(row, n).scheduled_at = row.scheduled_at
                           /\ RetryRow(row, n).scheduled_at = row.scheduled_at
         /\ RequeueRow(row).scheduled_at = row.scheduled_at
         /\ \A n \in Nat : RetryRow(row, n).next_attempt_at = "future"
         /\ ElapseRow(row).scheduled_at # "future"
         /\ ElapseRow(row).next_attempt_at = "null" => row.next_attempt_at = "null"
         /\ NextOccurrenceRow(row).next_attempt_at = "null"
         /\ PromoteRow(row).scheduled_at = row.scheduled_at
         /\ PromoteRow(row).next_attempt_at = row.next_attempt_at
         /\ \A stale \in SUBSET Worker :
              RecoverRow(row, stale).scheduled_at = row.scheduled_at
         /\ CancelRow(row).scheduled_at = row.scheduled_at
         /\ CancelRow(row).next_attempt_at = row.next_attempt_at
  BY DEF Row, ClaimRow, MarkRunningRow, CompleteRow, FailRow, RetryRow, NextOccurrenceRow,
         RequeueRow, ElapseRow, PromoteRow, Due, RecoverRow, Recoverable, CancelRow

\* Row r may follow row as far as ClaimInv is concerned, whoever wrote it.
Harmless(row, r) ==
  /\ r.status = "absent" => row.status = "absent"
  /\ r.scheduled_at = "future" =>
       /\ row.scheduled_at = "future" \/ row.status = "absent"
       /\ r.status \in {"scheduled", "failed"}
       /\ r.next_attempt_at = "null"
  /\ r.status # "pending"
  /\ r.status \notin {"claimed", "running"} => r.worker_id = NULL
  /\ r.status = "scheduled" /\ r.next_attempt_at = "null" =>
       \/ row.status = "absent"
       \/ row.status = "scheduled" /\ row.next_attempt_at = "null"

\* Steps that claim nothing and write only harmless rows.
LEMMA HarmlessStep ==
  ASSUME HInv, HInv', ClaimInv, RetryNamesEntry',
         \A t \in Task : /\ task'[t].job = task[t].job
                         /\ task[t].pc # "free" => task'[t].pc # "free"
                         /\ dlq'[t] # "absent" => dlq[t] # "absent" \/ task[t].pc # "free",
         \A j \in Job : Harmless(jobs[j], jobs'[j])
  PROVE  ClaimInv'
  <1>1. EntryHasTask'
    BY DEF ClaimInv, EntryHasTask
  <1>2. AbsentIsUnclaimed'
    BY DEF ClaimInv, AbsentIsUnclaimed, Harmless
  <1>3. FutureIsUntouched'
    BY DEF ClaimInv, FutureIsUntouched, AbsentIsUnclaimed, Harmless
  <1>4. NeverPending' /\ IdleIsReleased'
    BY DEF NeverPending, IdleIsReleased, Harmless
  <1>5. UntimedIsUnclaimed'
    BY DEF ClaimInv, UntimedIsUnclaimed, AbsentIsUnclaimed, Harmless
  <1>6. QED
    BY <1>1, <1>2, <1>3, <1>4, <1>5 DEF ClaimInv

(***************************************************************************)
(* Every step keeps ClaimInv.                                              *)
(***************************************************************************)
LEMMA ClaimInvStep ==
  ASSUME HInv, HInv', ClaimInv, [Next]_vars
  PROVE  ClaimInv'
  <1>1. \A j \in Job : jobs[j] \in Row
    BY DEF HInv, TypeOK
  <1>2. \A j \in Job : (\E t \in Task : task[t].job = j) =>
          jobs[j].status # "absent" /\ jobs[j].scheduled_at # "future"
    BY DEF ClaimInv, AbsentIsUnclaimed, FutureIsUntouched
  <1>3. \A j \in Job : Harmless(jobs[j], jobs[j])
    BY DEF Harmless, ClaimInv, FutureIsUntouched, NeverPending, IdleIsReleased
  \* Steps that leave the jobs alone.
  <1>4. ASSUME UNCHANGED <<jobs, dlq>>, RetryNamesEntry',
               \A t \in Task : /\ task'[t].job = task[t].job
                               /\ task[t].pc # "free" => task'[t].pc # "free"
        PROVE  ClaimInv'
    BY <1>3, <1>4, HarmlessStep
  <1>5. ASSUME UNCHANGED <<retry, dlq>> PROVE RetryNamesEntry'
    BY <1>5 DEF ClaimInv, RetryNamesEntry
  <1>6. ASSUME NEW w \in Worker, ProcessStep(w) PROVE ClaimInv'
    <2>1. CASE StartProcess(w) \/ Register(w) \/ Heartbeat(w) \/ HeartbeatAges(w) \/ Shutdown(w)
      <3>1. UNCHANGED <<jobs, dlq, retry, task>>
        BY <2>1 DEF StartProcess, Register, Heartbeat, HeartbeatAges, Shutdown, database, requests
      <3>2. QED
        BY <1>4, <1>5, <3>1
    <2>2. CASE Exit(w) \/ Crash(w)
      <3>1. UNCHANGED <<jobs, dlq>> /\ Vanish(w)
        BY <2>2 DEF Exit, Crash, database
      <3>2. \A t \in Task : /\ task'[t].job = task[t].job
                            /\ task[t].pc # "free" => task'[t].pc # "free"
        BY <3>1 DEF Vanish, Pending, HInv, TypeOK, TaskState, FreeTask
      <3>3. RetryNamesEntry'
        <4>1. \A o \in Operator : retry'[o].entry \in Task => retry'[o] = retry[o]
          BY <3>1 DEF Vanish, NoRetry, Task
        <4>2. QED
          BY <3>1, <4>1 DEF ClaimInv, RetryNamesEntry
      <3>4. QED
        BY <1>4, <3>1, <3>2, <3>3
    <2>3. QED
      BY <1>6, <2>1, <2>2 DEF ProcessStep
  <1>7. ASSUME NEW w \in Worker, PollerStep(w) PROVE ClaimInv'
    <2>1. CASE PollQueue(w) \/ PollCount(w) \/ PollNothing(w) \/ PollError(w)
      <3>1. UNCHANGED <<jobs, dlq, retry, task>>
        BY <2>1 DEF PollQueue, PollCount, PollNothing, PollError, database, requests
      <3>2. QED
        BY <1>4, <1>5, <3>1
    <2>2. ASSUME NEW j \in Job, NEW pc \in {"claimed", "lost"}, TakeJob(w, j, pc) PROVE ClaimInv'
      <3>1. PICK t \in Task : t = claims + 1
        BY <2>2, SchedulerAssumption DEF TakeJob, HInv, TypeOK, Task
      <3>2. /\ jobs[j].status = "queued" /\ jobs[j].scheduled_at # "future"
            /\ jobs' = [jobs EXCEPT ![j] = ClaimRow(jobs[j], w)]
            /\ UNCHANGED <<dlq, retry>>
        BY <2>2 DEF TakeJob, Claimable, requests
      <3>3. /\ task'[t].pc = pc /\ task'[t].job = j
            /\ \A s \in Task : s # t => task'[s] = task[s]
        BY <2>2, <3>1 DEF TakeJob, HInv, TypeOK
      <3>4. /\ \A k \in Job : k # j => jobs'[k] = jobs[k]
            /\ jobs'[j].status = "claimed" /\ jobs'[j].scheduled_at # "future"
        BY <1>1, <3>2, RowEffects, RowTimes DEF HInv, TypeOK
      <3>5. EntryHasTask'
        BY <3>2, <3>3 DEF ClaimInv, EntryHasTask
      <3>6. AbsentIsUnclaimed'
        <4> SUFFICES ASSUME NEW k \in Job, NEW s \in Task, jobs'[k].status = "absent"
                     PROVE  task'[s].job # k
          BY DEF AbsentIsUnclaimed
        <4>1. k # j /\ jobs[k].status = "absent"
          BY <3>4
        <4>2. QED
          BY <3>3, <4>1 DEF ClaimInv, AbsentIsUnclaimed
      <3>7. FutureIsUntouched'
        <4> SUFFICES ASSUME NEW k \in Job, jobs'[k].scheduled_at = "future"
                     PROVE  /\ jobs'[k].status \in {"scheduled", "failed"}
                            /\ jobs'[k].next_attempt_at = "null"
                            /\ \A s \in Task : task'[s].job # k
          BY DEF FutureIsUntouched
        <4>1. k # j /\ jobs'[k] = jobs[k]
          BY <3>4
        <4>2. QED
          BY <3>3, <4>1 DEF ClaimInv, FutureIsUntouched
      <3>8. NeverPending' /\ IdleIsReleased'
        BY <3>4 DEF ClaimInv, NeverPending, IdleIsReleased
      <3>9. UntimedIsUnclaimed'
        <4> SUFFICES ASSUME NEW k \in Job, jobs'[k].status = "scheduled",
                            jobs'[k].next_attempt_at = "null"
                     PROVE  \A s \in Task : task'[s].job # k
          BY DEF UntimedIsUnclaimed
        <4>1. k # j /\ jobs'[k] = jobs[k]
          BY <3>4
        <4>2. QED
          BY <3>3, <4>1 DEF ClaimInv, UntimedIsUnclaimed
      <3>10. QED
        BY <1>5, <3>2, <3>5, <3>6, <3>7, <3>8, <3>9 DEF ClaimInv
    <2>3. QED
      BY <1>7, <2>1, <2>2 DEF PollerStep, PollClaim, ClaimReplyLost
  <1>8. ASSUME NEW t \in Task, ExecutorStep(t) PROVE ClaimInv'
    <2>1. task[t].pc # "free" /\ retry' = retry
      BY <1>8 DEF ExecutorStep, MarkRunning, FinishOk, FinishRetry, FinishDlq,
        ScheduleNextOccurrence, MarkRunningError, TransactionError, RetryPanics, CommitReplyLost,
        SilentRollback, OccurrenceError, Runs, Write, requests
    <2>2. task[t] \in TaskState /\ task[t].job \in Job
      BY <2>1 DEF HInv, TypeOK, FreeTask, TaskState
    <2>3. PICK j \in Job : j = task[t].job
      BY <2>2
    <2>4. /\ jobs[j] \in Row /\ jobs[j].status # "absent" /\ jobs[j].scheduled_at # "future"
          /\ JobRow(t) = jobs[j] /\ Attempt(t) \in Nat
      BY <1>1, <1>2, <2>2, <2>3 DEF JobRow, Attempt, TaskState
    <2>5. ASSUME NEW r, NEW pc \in {"running", "recur", "done", "lost"}, NEW e, Write(t, r, pc, e),
                 Harmless(jobs[j], r),
                 dlq' = dlq \/ dlq' = [dlq EXCEPT ![t] = "open"]
          PROVE  ClaimInv'
      <3>1. task' = [task EXCEPT ![t] = [task[t] EXCEPT !.pc = pc, !.row = e]]
        BY <2>5 DEF Write, HInv, TypeOK
      <3>2. \A s \in Task : /\ task'[s].job = task[s].job
                            /\ task[s].pc # "free" => task'[s].pc # "free"
                            /\ s # t => task'[s] = task[s]
        BY <2>2, <3>1 DEF HInv, TypeOK, TaskState
      <3>3. \A s \in Task : /\ dlq'[s] # "absent" => dlq[s] # "absent" \/ task[s].pc # "free"
                            /\ dlq[s] # "absent" => dlq'[s] # "absent"
        BY <2>1, <2>5 DEF HInv, TypeOK
      <3>4. RetryNamesEntry'
        BY <2>1, <3>3 DEF ClaimInv, RetryNamesEntry
      <3>5. \A k \in Job : jobs'[k] = IF k = j THEN r ELSE jobs[k]
        BY <2>3, <2>5 DEF Write, HInv, TypeOK
      <3>6. \A k \in Job : Harmless(jobs[k], jobs'[k])
        BY <1>3, <2>5, <3>5
      <3>7. QED
        BY <3>2, <3>3, <3>4, <3>6, HarmlessStep
    <2>6. Harmless(jobs[j], jobs[j])
      BY <1>3
    <2>7. /\ Harmless(jobs[j], MarkRunningRow(jobs[j]))
          /\ Harmless(jobs[j], CompleteRow(jobs[j]))
          /\ Harmless(jobs[j], FailRow(jobs[j], Attempt(t)))
          /\ Harmless(jobs[j], RetryRow(jobs[j], Attempt(t)))
      BY <2>4, RowEffects, RowTimes DEF Harmless
    <2>8. CASE MarkRunning(t) \/ MarkRunningError(t) \/ TransactionError(t) \/ RetryPanics(t)
               \/ SilentRollback(t) \/ OccurrenceError(t)
      BY <2>4, <2>5, <2>6, <2>7, <2>8
      DEF MarkRunning, MarkRunningError, TransactionError, RetryPanics, SilentRollback,
          OccurrenceError
    <2>9. CASE FinishOk(t) \/ CommitReplyLost(t)
      BY <2>4, <2>5, <2>7, <2>9 DEF FinishOk, CommitReplyLost, AfterSuccess
    <2>10. CASE FinishRetry(t) \/ FinishDlq(t)
      BY <2>4, <2>5, <2>7, <2>10 DEF FinishRetry, FinishDlq
    <2>11. CASE ScheduleNextOccurrence(t)
      <3>1. task' = [task EXCEPT ![t] = [task[t] EXCEPT !.pc = "done"]] /\ dlq' = dlq
        BY <2>11 DEF ScheduleNextOccurrence, HInv, TypeOK
      <3>2. \A s \in Task : /\ task'[s].job = task[s].job
                            /\ task[s].pc # "free" => task'[s].pc # "free"
        BY <2>2, <3>1 DEF HInv, TypeOK, TaskState
      <3>3. CASE jobs' = jobs
        BY <1>4, <1>5, <2>1, <3>1, <3>2, <3>3
      <3>4. ASSUME NEW k \in Job, jobs[k].status = "absent",
                   jobs' = [jobs EXCEPT ![k] = NextOccurrenceRow(jobs[j])]
            PROVE  ClaimInv'
        <4>1. /\ jobs'[k].status = "scheduled" /\ jobs'[k].next_attempt_at = "null"
              /\ jobs'[k].worker_id = NULL
              /\ \A i \in Job : i # k => jobs'[i] = jobs[i]
          BY <2>4, <3>4, RowEffects, RowTimes DEF HInv, TypeOK
        <4>2. \A i \in Job : Harmless(jobs[i], jobs'[i])
          BY <1>3, <3>4, <4>1 DEF Harmless
        <4>3. QED
          BY <1>5, <2>1, <3>1, <3>2, <4>2, HarmlessStep
      <3>5. QED
        BY <2>4, <2>11, <3>3, <3>4 DEF ScheduleNextOccurrence
    <2>12. QED
      BY <1>8, <2>8, <2>9, <2>10, <2>11 DEF ExecutorStep
  \* Steps that touch only the jobs.
  <1>9. ASSUME UNCHANGED <<task, dlq, retry>>, \A j \in Job : Harmless(jobs[j], jobs'[j])
        PROVE  ClaimInv'
    BY <1>5, <1>9, HarmlessStep
  <1>10. CASE ReQueueScheduledJobs
    <2>1. \A j \in Job : Harmless(jobs[j], PromoteRow(jobs[j]))
      <3> SUFFICES ASSUME NEW j \in Job PROVE Harmless(jobs[j], PromoteRow(jobs[j]))
        OBVIOUS
      <3>1. CASE PromoteRow(jobs[j]) = jobs[j]
        BY <1>3, <3>1
      <3>2. CASE PromoteRow(jobs[j]) # jobs[j]
        <4>1. /\ jobs[j].status = "scheduled" /\ PromoteRow(jobs[j]).status = "queued"
              /\ PromoteRow(jobs[j]).worker_id = jobs[j].worker_id
          BY <1>1, <3>2, ConditionalRowEffects
        <4>2. jobs[j].scheduled_at # "future"
          BY <3>2 DEF PromoteRow, Due, ClaimInv, FutureIsUntouched
        <4>3. PromoteRow(jobs[j]).scheduled_at = jobs[j].scheduled_at
          BY <1>1, RowTimes
        <4>4. QED
          BY <4>1, <4>2, <4>3 DEF Harmless, ClaimInv, IdleIsReleased
      <3>3. QED
        BY <3>1, <3>2
    <2>2. QED
      BY <1>9, <1>10, <2>1 DEF ReQueueScheduledJobs, requests
  <1>11. CASE RecoverStaleJobs
    <2>1. StaleWorkers \in SUBSET Worker
      BY DEF StaleWorkers
    <2>2. \A j \in Job : Harmless(jobs[j], RecoverRow(jobs[j], StaleWorkers))
      <3> SUFFICES ASSUME NEW j \in Job
                   PROVE  Harmless(jobs[j], RecoverRow(jobs[j], StaleWorkers))
        OBVIOUS
      <3>1. CASE RecoverRow(jobs[j], StaleWorkers) = jobs[j]
        BY <1>3, <3>1
      <3>2. CASE RecoverRow(jobs[j], StaleWorkers) # jobs[j]
        <4>1. /\ jobs[j].status \in {"claimed", "running"}
              /\ RecoverRow(jobs[j], StaleWorkers).status = "queued"
              /\ RecoverRow(jobs[j], StaleWorkers).worker_id = NULL
          BY <1>1, <2>1, <3>2, ConditionalRowEffects
        <4>2. jobs[j].scheduled_at # "future"
          BY <4>1 DEF ClaimInv, FutureIsUntouched
        <4>3. RecoverRow(jobs[j], StaleWorkers).scheduled_at = jobs[j].scheduled_at
          BY <1>1, <2>1, RowTimes
        <4>4. QED
          BY <4>1, <4>2, <4>3 DEF Harmless
      <3>3. QED
        BY <3>1, <3>2
    <2>3. QED
      BY <1>9, <1>11, <2>2 DEF RecoverStaleJobs, requests
  <1>12. ASSUME NEW j \in Job, Elapse(j) PROVE ClaimInv'
    <2>1. \A k \in Job : jobs'[k] = IF k = j THEN ElapseRow(jobs[j]) ELSE jobs[k]
      BY <1>12 DEF Elapse, HInv, TypeOK
    <2>2. Harmless(jobs[j], ElapseRow(jobs[j]))
      BY <1>1, RowEffects, RowTimes DEF Harmless, ClaimInv, NeverPending, IdleIsReleased
    <2>3. QED
      BY <1>3, <1>9, <1>12, <2>1, <2>2 DEF Elapse, requests
  <1>13. CASE ApiStep
    <2>1. ASSUME NEW c \in Client, CreateCheck(c) PROVE ClaimInv'
      BY <1>4, <1>5, <2>1 DEF CreateCheck, database
    <2>2. ASSUME NEW c \in Client, CreateInsert(c) PROVE ClaimInv'
      <3>1. PICK j \in Job, sub \in Submissions :
              /\ jobs[j].status = "absent"
              /\ jobs' = [jobs EXCEPT ![j] = InsertRow(submit[c].queue, sub)]
        BY <2>2 DEF CreateInsert
      <3>2. \A k \in Job : jobs'[k] = IF k = j THEN InsertRow(submit[c].queue, sub) ELSE jobs[k]
        BY <3>1 DEF HInv, TypeOK
      <3>3. Harmless(jobs[j], InsertRow(submit[c].queue, sub))
        BY <3>1 DEF Harmless, InsertRow, AbsentRow
      <3>4. QED
        BY <1>3, <1>9, <2>2, <3>2, <3>3 DEF CreateInsert
    <2>3. ASSUME NEW o \in Operator, RetryCheck(o) PROVE ClaimInv'
      <3>1. RetryNamesEntry'
        BY <2>3 DEF RetryCheck, database, ClaimInv, RetryNamesEntry, HInv, TypeOK
      <3>2. QED
        BY <1>4, <2>3, <3>1 DEF RetryCheck, database
    <2>4. ASSUME NEW o \in Operator, RetryCommit(o) PROVE ClaimInv'
      <3>1. PICK e \in Task : e = retry[o].entry
        BY <2>4 DEF RetryCommit
      <3>2. /\ dlq[e] # "absent" /\ dlq' = [dlq EXCEPT ![e] = "retried"] /\ task' = task
            /\ jobs' = [jobs EXCEPT ![task[e].job] = RequeueRow(jobs[task[e].job])]
            /\ retry' = [retry EXCEPT ![o] = NoRetry]
        BY <2>4, <3>1 DEF RetryCommit, ClaimInv, RetryNamesEntry
      <3>3. task[e].job \in Job
        BY <3>2 DEF ClaimInv, EntryHasTask, HInv, TypeOK, TaskState, FreeTask
      <3>4. PICK j \in Job : j = task[e].job
        BY <3>3
      <3>5. \A k \in Job : jobs'[k] = IF k = j THEN RequeueRow(jobs[j]) ELSE jobs[k]
        BY <3>2, <3>4 DEF HInv, TypeOK
      <3>6. Harmless(jobs[j], RequeueRow(jobs[j]))
        BY <1>1, <1>2, <3>4, RowEffects, RowTimes DEF Harmless
      <3>7. \A k \in Job : Harmless(jobs[k], jobs'[k])
        BY <1>3, <3>5, <3>6
      <3>8. \A s \in Task : dlq'[s] # "absent" <=> dlq[s] # "absent"
        BY <3>2 DEF HInv, TypeOK
      <3>9. RetryNamesEntry'
        <4>1. \A p \in Operator : retry'[p].entry \in Task => retry'[p] = retry[p]
          BY <3>2 DEF NoRetry, Task, HInv, TypeOK
        <4>2. QED
          BY <3>8, <4>1 DEF ClaimInv, RetryNamesEntry
      <3>10. QED
        BY <3>2, <3>7, <3>8, <3>9, HarmlessStep
    <2>5. ASSUME NEW j \in Cancellable, CancelJob(j) PROVE ClaimInv'
      <3>1. j \in Job
        BY SchedulerAssumption
      <3>2. \A k \in Job : jobs'[k] = IF k = j THEN CancelRow(jobs[j]) ELSE jobs[k]
        BY <2>5, <3>1 DEF CancelJob, HInv, TypeOK
      <3>3. Harmless(jobs[j], CancelRow(jobs[j]))
        <4>1. CASE CancelRow(jobs[j]) = jobs[j]
          BY <1>3, <3>1, <4>1
        <4>2. CASE CancelRow(jobs[j]) # jobs[j]
          <5>1. /\ CancelRow(jobs[j]).status = "failed"
                /\ CancelRow(jobs[j]).worker_id = jobs[j].worker_id
                /\ jobs[j].status \notin {"claimed", "running"}
            BY <1>1, <3>1, <4>2, ConditionalRowEffects
          <5>2. /\ CancelRow(jobs[j]).scheduled_at = jobs[j].scheduled_at
                /\ CancelRow(jobs[j]).next_attempt_at = jobs[j].next_attempt_at
            BY <1>1, <3>1, RowTimes
          <5>3. QED
            BY <3>1, <5>1, <5>2 DEF Harmless, ClaimInv, FutureIsUntouched, IdleIsReleased
        <4>3. QED
          BY <4>1, <4>2
      <3>4. QED
        BY <1>3, <1>9, <2>5, <3>2, <3>3 DEF CancelJob
    <2>6. ASSUME NEW q \in Pausable, SetPaused(q) PROVE ClaimInv'
      BY <1>4, <1>5, <2>6 DEF SetPaused, requests
    <2>7. CASE RequestFails
      <3>1. RetryNamesEntry'
        <4>1. \A o \in Operator : retry'[o].entry \in Task => retry'[o] = retry[o]
          BY <2>7 DEF RequestFails, NoRetry, Task, HInv, TypeOK
        <4>2. dlq' = dlq
          BY <2>7 DEF RequestFails, database
        <4>3. QED
          BY <4>1, <4>2 DEF ClaimInv, RetryNamesEntry
      <3>2. QED
        BY <1>4, <2>7, <3>1 DEF RequestFails, database
    <2>8. QED
      BY <1>13, <2>1, <2>2, <2>3, <2>4, <2>5, <2>6, <2>7 DEF ApiStep
  <1>14. CASE UNCHANGED vars
    BY <1>4, <1>5, <1>14 DEF vars
  <1>15. QED
    BY <1>6, <1>7, <1>8, <1>10, <1>11, <1>12, <1>13, <1>14 DEF Next

\* The initial state satisfies both invariants.
LEMMA ClaimInvInit == Init => HInv /\ ClaimInv
  <1> SUFFICES ASSUME Init PROVE HInv /\ ClaimInv
    OBVIOUS
  <1>1. HInv
    BY HInvInit
  <1>2. ClaimInv
    BY JobTableAssumption
    DEF Init, ClaimInv, EntryHasTask, RetryNamesEntry, AbsentIsUnclaimed, FutureIsUntouched,
        NeverPending, IdleIsReleased, UntimedIsUnclaimed, FreeTask, NoRetry, AbsentRow, Task
  <1>3. QED
    BY <1>1, <1>2

(***************************************************************************)
(* A queued job can be claimed at once, whatever the heartbeats do and     *)
(* however many operators retry: scheduled_at is in the future only for    *)
(* jobs nothing has claimed, and promotion waits for it.                   *)
(***************************************************************************)
THEOREM QueuedIsClaimableHolds == Spec => []QueuedIsClaimable
  <1>1. ASSUME HInv, ClaimInv PROVE QueuedIsClaimable
    BY <1>1
    DEF QueuedIsClaimable, Claimable, ClaimInv, FutureIsUntouched, HInv, TypeOK, Row, Time
  <1>2. QED
    BY <1>1, ClaimInvInit, HInvStep, ClaimInvStep, PTL DEF Spec

-----------------------------------------------------------------------------
(* Terminal states: no assumption on heartbeats or operators               *)

\* The two ways out of a terminal state, as TerminalIsFinal names them.
Requeued(j) ==
  /\ jobs'[j].status = "queued"
  /\ \E e \in Entries(j, "open") \cup Entries(j, "retried") :
       /\ \E o \in Operator : retry[o].entry = e
       /\ dlq'[e] = "retried"

WrittenLate(j) ==
  \E t \in Task : /\ Executing(t) /\ task[t].job = j /\ task'[t] # task[t]
                  /\ jobs[j].worker_id # task[t].worker

(***************************************************************************)
(* A step leaves the status of job j alone, or j was neither completed nor *)
(* failed, or the step is the retry of one of its entries or a late write. *)
(***************************************************************************)
LEMMA TerminalStep ==
  ASSUME HInv, ClaimInv, [Next]_vars, NEW j \in Job
  PROVE  \/ jobs'[j].status = jobs[j].status
         \/ jobs[j].status \notin {"completed", "failed"}
         \/ Requeued(j)
         \/ WrittenLate(j)
  <1> DEFINE Quiet == \/ jobs'[j].status = jobs[j].status
                      \/ jobs[j].status \notin {"completed", "failed"}
  <1>0. jobs \in [Job -> Row] /\ task \in [Task -> TaskState \cup {FreeTask}]
    BY DEF HInv, TypeOK
  <1>1. ASSUME NEW w \in Worker, ProcessStep(w) \/ PollerStep(w) PROVE Quiet
    <2>1. ASSUME NEW k \in Job, NEW pc, TakeJob(w, k, pc) PROVE Quiet
      BY <1>0, <2>1 DEF TakeJob, Claimable
    <2>2. QED
      BY <1>1, <2>1
      DEF ProcessStep, StartProcess, Register, Heartbeat, HeartbeatAges, Shutdown, Exit, Crash,
          PollerStep, PollQueue, PollCount, PollClaim, PollNothing, PollError, ClaimReplyLost,
          database
  <1>2. ASSUME NEW t \in Task, ExecutorStep(t) PROVE Quiet \/ WrittenLate(j)
    <2>1. ASSUME NEW r, NEW pc, NEW e, Write(t, r, pc, e), Executing(t), pc # task[t].pc
          PROVE  Quiet \/ WrittenLate(j)
      <3>1. task[t] \in TaskState /\ task[t].worker # NULL
        BY <1>0, <2>1, JobTableAssumption DEF Executing, FreeTask, TaskState
      <3>2. task'[t].pc = pc
        BY <1>0, <2>1, <3>1 DEF Write, TaskState
      <3>3. jobs'[j].status = jobs[j].status \/ task[t].job = j
        BY <1>0, <2>1 DEF Write
      <3>4. jobs[j].status \in {"completed", "failed"} => jobs[j].worker_id = NULL
        BY DEF ClaimInv, IdleIsReleased
      <3>5. QED
        BY <2>1, <3>1, <3>2, <3>3, <3>4 DEF WrittenLate
    <2>2. CASE ScheduleNextOccurrence(t)
      BY <1>0, <2>2 DEF ScheduleNextOccurrence
    <2>3. CASE OccurrenceError(t)
      BY <1>0, <2>3 DEF OccurrenceError, Write, JobRow
    <2>4. QED
      BY <1>2, <2>1, <2>2, <2>3
      DEF ExecutorStep, MarkRunning, FinishOk, FinishRetry, FinishDlq, MarkRunningError,
          TransactionError, RetryPanics, CommitReplyLost, SilentRollback, AfterSuccess,
          Runs, Executing
  <1>3. CASE ReQueueScheduledJobs \/ RecoverStaleJobs
    <2>1. CASE ReQueueScheduledJobs
      BY <1>0, <2>1, ConditionalRowEffects DEF ReQueueScheduledJobs
    <2>2. CASE RecoverStaleJobs
      BY <1>0, <2>2, ConditionalRowEffects DEF RecoverStaleJobs, StaleWorkers
    <2>3. QED
      BY <1>3, <2>1, <2>2
  <1>4. ASSUME NEW o \in Operator, RetryCommit(o) PROVE Quiet \/ Requeued(j)
    <2>1. PICK e \in Task : e = retry[o].entry
      BY <1>4 DEF RetryCommit
    <2>2. dlq[e] \in {"open", "retried"} /\ dlq'[e] = "retried"
      BY <1>4, <2>1 DEF RetryCommit, ClaimInv, RetryNamesEntry, HInv, TypeOK
    <2>3. jobs'[j].status = IF j = task[e].job THEN "queued" ELSE jobs[j].status
      BY <1>0, <1>4, <2>1, RowEffects DEF RetryCommit
    <2>4. QED
      BY <2>1, <2>2, <2>3 DEF Requeued, Entries
  <1>5. CASE ApiStep
    <2>1. ASSUME NEW c \in Client, CreateCheck(c) \/ CreateInsert(c) PROVE Quiet
      BY <1>0, <2>1 DEF CreateCheck, CreateInsert, database
    <2>2. ASSUME NEW k \in Cancellable, CancelJob(k) PROVE Quiet
      BY <1>0, <2>2, ConditionalRowEffects DEF CancelJob
    <2>3. QED
      BY <1>4, <1>5, <2>1, <2>2 DEF ApiStep, RetryCheck, SetPaused, RequestFails, database
  <1>6. ASSUME NEW k \in Job, Elapse(k) PROVE Quiet
    BY <1>0, <1>6, RowEffects DEF Elapse
  <1>7. CASE UNCHANGED vars
    BY <1>7 DEF vars
  <1>8. QED
    BY <1>1, <1>2, <1>3, <1>5, <1>6, <1>7 DEF Next

(***************************************************************************)
(* With late heartbeats, overlapping retries, crashes and errors: nothing  *)
(* but the retry of one of its own DLQ entries, or the late write of a     *)
(* task that lost its claim, takes a job out of a terminal state.          *)
(***************************************************************************)
THEOREM TerminalIsFinalHolds == Spec => TerminalIsFinal
  <1>1. ASSUME HInv, ClaimInv, [Next]_vars
        PROVE  [\A j \in Job :
                  jobs[j].status \in {"completed", "failed"} /\ jobs'[j].status # jobs[j].status =>
                    \/ /\ jobs'[j].status = "queued"
                       /\ \E e \in Entries(j, "open") \cup Entries(j, "retried") :
                            /\ \E o \in Operator : retry[o].entry = e
                            /\ dlq'[e] = "retried"
                    \/ \E t \in Task :
                         /\ Executing(t) /\ task[t].job = j /\ task'[t] # task[t]
                         /\ jobs[j].worker_id # task[t].worker]_vars
    BY <1>1, TerminalStep DEF Requeued, WrittenLate
  <1>2. QED
    BY <1>1, ClaimInvInit, HInvStep, ClaimInvStep, PTL DEF Spec, TerminalIsFinal

-----------------------------------------------------------------------------
(***************************************************************************)
(* With timely heartbeats and retries that do not overlap, no job is       *)
(* forgotten, whichever process dies and wherever: the claim query, the    *)
(* promoter, recovery or a task has it.  IInv says who holds a job, HInv   *)
(* that a live holder has a task and a dead one a row in workers, ClaimInv *)
(* that waiting jobs fall due and queued ones can be claimed.              *)
(***************************************************************************)
THEOREM NoJobIsForgottenHolds ==
  ASSUME Timely, OneOperator
  PROVE  Spec => []NoJobIsForgotten
  <1>1. ASSUME IInv, HInv, ClaimInv PROVE NoJobIsForgotten
    <2> SUFFICES ASSUME NEW j \in Job
                 PROVE  \/ jobs[j].status = "absent"
                        \/ Settled(j)
                        \/ Claimable(jobs[j], jobs[j].queue_id)
                        \/ Due(ElapseRow(jobs[j]))
                        \/ Recoverable(jobs[j], Departed)
                        \/ HasTask(j, jobs[j].worker_id)
                        \/ Untimed(j)
      BY DEF NoJobIsForgotten
    <2>1. jobs[j] \in Row /\ jobs[j].status # "pending"
      BY <1>1 DEF HInv, TypeOK, ClaimInv, NeverPending
    <2>2. CASE jobs[j].status = "queued"
      BY <1>1, <2>1, <2>2 DEF Claimable, ClaimInv, FutureIsUntouched, Row, Time
    <2>3. CASE jobs[j].status = "scheduled"
      <3>1. CASE jobs[j].next_attempt_at = "null" /\ jobs[j].scheduled_at = "null"
        BY <1>1, <2>3, <3>1 DEF Untimed, ClaimInv, UntimedIsUnclaimed
      <3>2. CASE jobs[j].next_attempt_at # "null" \/ jobs[j].scheduled_at # "null"
        BY <2>1, <2>3, <3>2 DEF Due, ElapseRow, Row, Time
      <3>3. QED
        BY <3>1, <3>2
    <2>4. CASE jobs[j].status \in {"claimed", "running"}
      <3>1. PICK w \in Worker : jobs[j].worker_id = w
        BY <1>1, <2>1, <2>4 DEF IInv, HolderKnown, Row
      <3>2. CASE Registered(w)
        BY <1>1, <3>1, <3>2 DEF HInv, HeldJobHasExecutor
      <3>3. CASE ~ Registered(w)
        <4>1. proc[w] = "gone" /\ beat[w] # "unregistered"
          BY <1>1, <3>1, <3>3 DEF HInv, TypeOK, HolderRegistered, Registered
        <4>2. QED
          BY <2>4, <3>1, <4>1 DEF Recoverable, Departed
      <3>4. QED
        BY <3>2, <3>3
    <2>5. QED
      BY <2>1, <2>2, <2>3, <2>4 DEF Row, Status, Settled
  <1>2. QED
    BY <1>1, IInvInit, IInvStep, ClaimInvInit, HInvStep, ClaimInvStep, PTL DEF Spec
=============================================================================
