------------------------------ MODULE Scheduler -------------------------------
(***************************************************************************)
(* Every process runs the same binary: an API server, a poller with its    *)
(* executor tasks, a heartbeat, the promoter of scheduled jobs and the     *)
(* stale-job recovery.  The processes share nothing but the database, so   *)
(* an action is one SQL statement or one transaction, with the code around *)
(* it up to the next await, and the state is the tables plus what each     *)
(* process keeps in memory.                                                *)
(***************************************************************************)
EXTENDS JobTable, FiniteSets

CONSTANTS
  Client,        \* concurrent POST /jobs requests
  Operator,      \* concurrent DLQ retry requests
  Submissions,   \* the job requests clients may send
  Pausable,      \* queues that may be paused and resumed
  Cancellable,   \* jobs users may ask to cancel
  HandlerResult, \* what job handlers may return: "ok", "err"
  Limit,         \* concurrency_limit of every queue
  MaxClaims,     \* bound: claims in a behaviour
  MaxFaults,     \* bound: database errors and panics in a behaviour
  MaxStops,      \* bound: processes that crash or shut down
  StartupRace,   \* may recovery run between a registration and its first heartbeat?
  LateHeartbeat  \* may the heartbeat of a live worker become stale?

ASSUME SchedulerAssumption ==
  /\ Submissions \subseteq Submission
  /\ Pausable \subseteq Queue
  /\ Cancellable \subseteq Job
  /\ HandlerResult \subseteq {"ok", "err"}
  /\ Limit \in Nat
  /\ MaxClaims \in Nat
  /\ MaxFaults \in Nat
  /\ MaxStops \in Nat
  /\ StartupRace \in BOOLEAN
  /\ LateHeartbeat \in BOOLEAN

\* Executor tasks, numbered in the order of their claims.  A task also stands
\* for the job_executions row and the dead_letter_queue entry it inserts.
Task == 1 .. MaxClaims

VARIABLES
  jobs,      \* the jobs table
  paused,    \* queues.is_paused
  dlq,       \* dead_letter_queue, by the task that made the entry
  beat,      \* workers and worker_heartbeats: last_seen of each worker
  proc,      \* life of each process
  poller,    \* where each poller is in its loop
  task,      \* executor tasks, past ones included
  claims,    \* how many tasks were spawned
  submit,    \* create_job requests past their checks
  retry,     \* retry_job requests past their checks
  cancelled, \* jobs whose cancel_job UPDATE has run
  faults,    \* database errors and panics so far
  stops      \* crashes and shutdowns so far

database == <<jobs, paused, dlq, beat>>
requests == <<submit, retry, cancelled>>
counters == <<faults, stops>>
vars == <<jobs, paused, dlq, beat, proc, poller, task, claims,
          submit, retry, cancelled, faults, stops>>

Poller == [pc : {"idle", "count", "claim"}, queue : Queue]

\* job and attempt are the snapshot claim_next_job returned; row is the
\* job_executions row, "none" until the transaction commits.
TaskState ==
  [pc      : {"claimed", "running", "recur", "done", "lost", "dead"},
   worker  : Worker,
   job     : Job,
   attempt : Nat,
   row     : {"none", "success", "failure"}]

FreeTask == [pc |-> "free", worker |-> NULL, job |-> NULL, attempt |-> 0, row |-> "none"]

TypeOK ==
  /\ jobs \in [Job -> Row]
  /\ paused \in [Queue -> BOOLEAN]
  /\ dlq \in [Task -> {"absent", "open", "retried"}]
  /\ beat \in [Worker -> {"unregistered", "none", "fresh", "stale"}]
  /\ proc \in [Worker -> {"new", "started", "polling", "stopping", "gone"}]
  /\ poller \in [Worker -> Poller]
  /\ task \in [Task -> TaskState \cup {FreeTask}]
  /\ claims \in 0 .. MaxClaims
  /\ submit \in [Client -> [queue : Queue \cup {0}, via : Worker \cup {NULL}]]
  /\ retry \in [Operator -> [entry : Task \cup {0}, via : Worker \cup {NULL}]]
  /\ cancelled \subseteq Job
  /\ faults \in 0 .. MaxFaults
  /\ stops \in 0 .. MaxStops

IdlePoller == [pc |-> "idle", queue |-> 1]
NoSubmit == [queue |-> 0, via |-> NULL]
NoRetry == [entry |-> 0, via |-> NULL]

Init ==
  /\ jobs = [j \in Job |-> AbsentRow]
  /\ paused = [q \in Queue |-> FALSE]
  /\ dlq = [t \in Task |-> "absent"]
  /\ beat = [w \in Worker |-> "unregistered"]
  /\ proc = [w \in Worker |-> "new"]
  /\ poller = [w \in Worker |-> IdlePoller]
  /\ task = [t \in Task |-> FreeTask]
  /\ claims = 0
  /\ submit = [c \in Client |-> NoSubmit]
  /\ retry = [o \in Operator |-> NoRetry]
  /\ cancelled = {}
  /\ faults = 0
  /\ stops = 0

\* Background tasks run from the start of the process to its end.
Live(w) == proc[w] \in {"started", "polling", "stopping"}
Registered(w) == proc[w] \in {"polling", "stopping"}
Serving(w) == proc[w] = "polling"

-----------------------------------------------------------------------------
(* Process life: main.rs, worker_repository.rs, heartbeat.rs               *)

StartProcess(w) ==
  /\ proc[w] = "new"
  /\ proc' = [proc EXCEPT ![w] = "started"]
  /\ UNCHANGED <<database, poller, task, claims, requests, counters>>

\* main registers the worker, then spawns the poller and serves the API.  The
\* heartbeat was spawned before; its upserts fail until this row exists.
Register(w) ==
  /\ proc[w] = "started"
  /\ proc' = [proc EXCEPT ![w] = "polling"]
  /\ beat' = [beat EXCEPT ![w] = "none"]
  /\ UNCHANGED <<jobs, paused, dlq, poller, task, claims, requests, counters>>

Heartbeat(w) ==
  /\ Live(w)
  /\ beat[w] # "unregistered"
  /\ beat' = [beat EXCEPT ![w] = "fresh"]
  /\ UNCHANGED <<jobs, paused, dlq, proc, poller, task, claims, requests, counters>>

\* last_seen becomes older than the threshold.  A live worker beats every 10 s
\* against a threshold of 60 s, so for it this is a delay of the heartbeat.
HeartbeatAges(w) ==
  /\ beat[w] = "fresh"
  /\ LateHeartbeat \/ proc[w] = "gone"
  /\ beat' = [beat EXCEPT ![w] = "stale"]
  /\ UNCHANGED <<jobs, paused, dlq, proc, poller, task, claims, requests, counters>>

\* ctrl_c, or the server returns: no new connection is served, but the
\* runtime, and with it the poller and the tasks, runs until main returns.
Shutdown(w) ==
  /\ proc[w] = "polling"
  /\ stops < MaxStops
  /\ stops' = stops + 1
  /\ proc' = [proc EXCEPT ![w] = "stopping"]
  /\ UNCHANGED <<database, poller, task, claims, requests, faults>>

Pending(t) == task[t].pc \in {"claimed", "running", "recur", "lost"}

\* The runtime of w is dropped, with every task and request in it.
Vanish(w) ==
  /\ proc' = [proc EXCEPT ![w] = "gone"]
  /\ poller' = [poller EXCEPT ![w] = IdlePoller]
  /\ task' = [t \in Task |->
                IF Pending(t) /\ task[t].worker = w
                  THEN [task[t] EXCEPT !.pc = "dead"] ELSE task[t]]
  /\ submit' = [c \in Client |-> IF submit[c].via = w THEN NoSubmit ELSE submit[c]]
  /\ retry' = [o \in Operator |-> IF retry[o].via = w THEN NoRetry ELSE retry[o]]

\* deregister only clears is_active, which no query reads; then main returns
\* without waiting for the tasks in flight.
Exit(w) ==
  /\ proc[w] = "stopping"
  /\ Vanish(w)
  /\ UNCHANGED <<database, claims, cancelled, counters>>

Crash(w) ==
  /\ Live(w)
  /\ stops < MaxStops
  /\ stops' = stops + 1
  /\ Vanish(w)
  /\ UNCHANGED <<database, claims, cancelled, faults>>

-----------------------------------------------------------------------------
(* Poller: run_poller_with_counter                                         *)

\* Mutant of NextQueue: no wrap after the last queue.
NextQueueNoWrap(q) == q + 1

NextQueue(q) == IF q = NumQueues THEN 1 ELSE q + 1

\* `continue', or the end of the loop body: on to the next queue.
Advance(p) == [pc |-> "idle", queue |-> NextQueue(p.queue)]

AtPoll(w, pc) == Registered(w) /\ poller[w].pc = pc

PollQueue(w) ==
  /\ AtPoll(w, "idle")
  /\ poller' = [poller EXCEPT ![w] =
                  IF paused[@.queue] THEN Advance(@) ELSE [@ EXCEPT !.pc = "count"]]
  /\ UNCHANGED <<database, proc, task, claims, requests, counters>>

\* count_running_jobs counts status = 'running' only: a claimed job that no
\* task has marked yet is not counted.
RunningJobs(q) == {j \in Job : jobs[j].status = "running" /\ jobs[j].queue_id = q}

PollCount(w) ==
  /\ AtPoll(w, "count")
  /\ poller' = [poller EXCEPT ![w] =
                  IF Cardinality(RunningJobs(@.queue)) >= Limit
                    THEN Advance(@) ELSE [@ EXCEPT !.pc = "claim"]]
  /\ UNCHANGED <<database, proc, task, claims, requests, counters>>

\* The UPDATE of claim_next_job on row j.  Which claimable row it is depends
\* on the ORDER BY and on the rows other sessions hold locked at that moment.
TakeJob(w, j, pc) ==
  /\ Claimable(jobs[j], poller[w].queue)
  /\ claims < MaxClaims
  /\ claims' = claims + 1
  /\ jobs' = [jobs EXCEPT ![j] = ClaimRow(@, w)]
  /\ task' = [task EXCEPT ![claims + 1] =
                [pc |-> pc, worker |-> w, job |-> j,
                 attempt |-> jobs[j].attempt_count, row |-> "none"]]
  /\ poller' = [poller EXCEPT ![w] = Advance(@)]
  /\ UNCHANGED <<paused, dlq, beat, proc, requests>>

PollClaim(w) ==
  /\ AtPoll(w, "claim")
  /\ \E j \in Job : TakeJob(w, j, "claimed")
  /\ UNCHANGED counters

\* A poll that finds every claimable row locked (SKIP LOCKED) returns nothing
\* too; it stands here right after the statement that holds the locks.
PollNothing(w) ==
  /\ AtPoll(w, "claim")
  /\ \A j \in Job : ~Claimable(jobs[j], poller[w].queue)
  /\ poller' = [poller EXCEPT ![w] = Advance(@)]
  /\ UNCHANGED <<database, proc, task, claims, requests, counters>>

Fault ==
  /\ faults < MaxFaults
  /\ faults' = faults + 1
  /\ UNCHANGED stops

\* Any of the three statements fails: the error is logged, the queue skipped.
PollError(w) ==
  /\ Registered(w)
  /\ Fault
  /\ poller' = [poller EXCEPT ![w] = Advance(@)]
  /\ UNCHANGED <<database, proc, task, claims, requests>>

\* claim_next_job reports an error although its UPDATE was applied: the job is
\* claimed and nothing will execute it.
ClaimReplyLost(w) ==
  /\ AtPoll(w, "claim")
  /\ Fault
  /\ \E j \in Job : TakeJob(w, j, "lost")

-----------------------------------------------------------------------------
(* Executor: execute_job                                                   *)

Runs(t, pc) == task[t].pc = pc

\* The task writes row r to its job, and goes on at pc with execution row e.
Write(t, r, pc, e) ==
  /\ jobs' = [jobs EXCEPT ![task[t].job] = r]
  /\ task' = [task EXCEPT ![t].pc = pc, ![t].row = e]
  /\ UNCHANGED <<paused, beat, proc, poller, claims, requests>>

JobRow(t) == jobs[task[t].job]

MarkRunning(t) ==
  /\ Runs(t, "claimed")
  /\ Write(t, MarkRunningRow(JobRow(t)), "running", "none")
  /\ UNCHANGED <<dlq, counters>>

AfterSuccess(t) == IF JobRow(t).job_type = "recurring" THEN "recur" ELSE "done"

FinishOk(t) ==
  /\ Runs(t, "running")
  /\ "ok" \in HandlerResult
  /\ Write(t, CompleteRow(JobRow(t)), AfterSuccess(t), "success")
  /\ UNCHANGED <<dlq, counters>>

Attempt(t) == task[t].attempt + 1
\* Mutant of ShouldDlq: one attempt too many.
ShouldDlqLate(t) == Attempt(t) > JobRow(t).max_attempts

ShouldDlq(t) == Attempt(t) >= JobRow(t).max_attempts

FinishRetry(t) ==
  /\ Runs(t, "running")
  /\ "err" \in HandlerResult
  /\ ~ShouldDlq(t)
  /\ Write(t, RetryRow(JobRow(t), Attempt(t)), "done", "failure")
  /\ UNCHANGED <<dlq, counters>>

FinishDlq(t) ==
  /\ Runs(t, "running")
  /\ "err" \in HandlerResult
  /\ ShouldDlq(t)
  /\ Write(t, FailRow(JobRow(t), Attempt(t)), "done", "failure")
  /\ dlq' = [dlq EXCEPT ![t] = "open"]
  /\ UNCHANGED counters

\* schedule_next_occurrence: a new row when there is a next occurrence, an
\* error that is only logged when there is none.
ScheduleNextOccurrence(t) ==
  /\ Runs(t, "recur")
  /\ IF JobRow(t).cron
       THEN \E k \in Job :
              /\ jobs[k].status = "absent"
              /\ jobs' = [jobs EXCEPT ![k] = NextOccurrenceRow(JobRow(t))]
       ELSE jobs' = jobs
  /\ task' = [task EXCEPT ![t].pc = "done"]
  /\ UNCHANGED <<paused, dlq, beat, proc, poller, claims, requests, counters>>

\* The UPDATE to running fails, or its reply is lost: execute_job returns.
MarkRunningError(t) ==
  /\ Runs(t, "claimed")
  /\ Fault
  /\ \/ Write(t, JobRow(t), "lost", "none")
     \/ Write(t, MarkRunningRow(JobRow(t)), "lost", "none")
  /\ UNCHANGED dlq

\* compute_retry_delay, or adding the delay to the clock, panics inside the
\* transaction: the task dies, the transaction is rolled back, and the process
\* goes on.  RetryScheduling says for which attempts and policies this happens.
RetryPanics(t) ==
  /\ Runs(t, "running")
  /\ "err" \in HandlerResult
  /\ ~ShouldDlq(t)
  /\ Fault
  /\ Write(t, JobRow(t), "lost", "none")
  /\ UNCHANGED dlq

\* begin or commit fails and nothing is written: execute_job returns.
TransactionError(t) ==
  /\ Runs(t, "running")
  /\ Fault
  /\ Write(t, JobRow(t), "lost", "none")
  /\ UNCHANGED dlq

\* The success transaction commits and the reply is lost: execute_job returns
\* before it schedules the next occurrence.
CommitReplyLost(t) ==
  /\ Runs(t, "running")
  /\ "ok" \in HandlerResult
  /\ Fault
  /\ Write(t, CompleteRow(JobRow(t)), "lost", "success")
  /\ UNCHANGED dlq

\* A statement of the transaction fails and its error is discarded; COMMIT then
\* rolls back without an error and the code goes on as if it had committed.
SilentRollback(t) ==
  /\ Runs(t, "running")
  /\ "ok" \in HandlerResult
  /\ AfterSuccess(t) = "recur"
  /\ Fault
  /\ Write(t, JobRow(t), "recur", "none")
  /\ UNCHANGED dlq

OccurrenceError(t) ==
  /\ Runs(t, "recur")
  /\ Fault
  /\ Write(t, JobRow(t), "done", task[t].row)
  /\ UNCHANGED dlq

-----------------------------------------------------------------------------
(* Promoter and recovery: re_queue_scheduled_jobs and recover_stale_jobs,   *)
(* run by every live process                                               *)

ReQueueScheduledJobs ==
  /\ \E w \in Worker : Live(w)
  /\ jobs' = [j \in Job |-> PromoteRow(jobs[j])]
  /\ UNCHANGED <<paused, dlq, beat, proc, poller, task, claims, requests, counters>>

\* Registered workers with no heartbeat row or an old one; is_active is not
\* part of the query.
StaleWorkers == {w \in Worker : beat[w] \in {"none", "stale"}}

RecoverStaleJobs ==
  /\ \E w \in Worker : Live(w)
  /\ StartupRace \/ \A w \in Worker : Registered(w) => beat[w] # "none"
  /\ jobs' = [j \in Job |-> RecoverRow(jobs[j], StaleWorkers)]
  /\ UNCHANGED <<paused, dlq, beat, proc, poller, task, claims, requests, counters>>

-----------------------------------------------------------------------------
(* API: job_service.rs, dlq_service.rs, queue_service.rs                   *)

\* create_job reads the queue and the caller's role; a paused queue or a
\* viewer is refused.
CreateCheck(c) ==
  /\ submit[c] = NoSubmit
  /\ \E w \in Worker, q \in Queue :
       /\ Serving(w)
       /\ ~paused[q]
       /\ submit' = [submit EXCEPT ![c] = [queue |-> q, via |-> w]]
  /\ UNCHANGED <<database, proc, poller, task, claims, retry, cancelled, counters>>

CreateInsert(c) ==
  /\ submit[c].queue \in Queue
  /\ \E j \in Job, sub \in Submissions :
       /\ jobs[j].status = "absent"
       /\ jobs' = [jobs EXCEPT ![j] = InsertRow(submit[c].queue, sub)]
  /\ submit' = [submit EXCEPT ![c] = NoSubmit]
  /\ UNCHANGED <<paused, dlq, beat, proc, poller, task, claims, retry, cancelled, counters>>

\* cancel_job answers success whether or not its UPDATE matched the row.  A
\* statement that fails changes nothing, and a reply that is lost nothing more.
CancelJob(j) ==
  /\ \E w \in Worker : Serving(w)
  /\ jobs[j].status # "absent"
  /\ jobs' = [jobs EXCEPT ![j] = CancelRow(@)]
  /\ cancelled' = cancelled \cup {j}
  /\ UNCHANGED <<paused, dlq, beat, proc, poller, task, claims, submit, retry, counters>>

\* pause_queue and resume_queue.
SetPaused(q) ==
  /\ \E w \in Worker : Serving(w)
  /\ \E b \in BOOLEAN : paused' = [paused EXCEPT ![q] = b]
  /\ UNCHANGED <<jobs, dlq, beat, proc, poller, task, claims, requests, counters>>

\* retry_job reads the entry, then the role; an entry that was retried before
\* is refused.
RetryCheck(o) ==
  /\ retry[o] = NoRetry
  /\ \E w \in Worker, e \in Task :
       /\ Serving(w)
       /\ dlq[e] = "open"
       /\ retry' = [retry EXCEPT ![o] = [entry |-> e, via |-> w]]
  /\ UNCHANGED <<database, proc, poller, task, claims, submit, cancelled, counters>>

\* Mutant of RetryCommit: retried_at is not set.
RetryCommitKeepsEntry(o) ==
  LET e == retry[o].entry IN
  /\ e \in Task
  /\ jobs' = [jobs EXCEPT ![task[e].job] = RequeueRow(@)]
  /\ retry' = [retry EXCEPT ![o] = NoRetry]
  /\ UNCHANGED <<paused, dlq, beat, proc, poller, task, claims, submit, cancelled, counters>>

\* The transaction of retry_job: neither of its UPDATEs tests what was read.
RetryCommit(o) ==
  LET e == retry[o].entry IN
  /\ e \in Task
  /\ jobs' = [jobs EXCEPT ![task[e].job] = RequeueRow(@)]
  /\ dlq' = [dlq EXCEPT ![e] = "retried"]
  /\ retry' = [retry EXCEPT ![o] = NoRetry]
  /\ UNCHANGED <<paused, beat, proc, poller, task, claims, submit, cancelled, counters>>

\* The request ends early: no role, a database error, a client that hangs up.
RequestFails ==
  /\ \/ \E c \in Client : /\ submit[c] # NoSubmit
                          /\ submit' = [submit EXCEPT ![c] = NoSubmit]
                          /\ UNCHANGED retry
     \/ \E o \in Operator : /\ retry[o] # NoRetry
                            /\ retry' = [retry EXCEPT ![o] = NoRetry]
                            /\ UNCHANGED submit
  /\ UNCHANGED <<database, proc, poller, task, claims, cancelled, counters>>

\* Time passes until the timestamps of job j are due.
Elapse(j) ==
  /\ "future" \in {jobs[j].scheduled_at, jobs[j].next_attempt_at}
  /\ jobs' = [jobs EXCEPT ![j] = ElapseRow(@)]
  /\ UNCHANGED <<paused, dlq, beat, proc, poller, task, claims, requests, counters>>

-----------------------------------------------------------------------------
ProcessStep(w) ==
  \/ StartProcess(w) \/ Register(w) \/ Heartbeat(w) \/ HeartbeatAges(w)
  \/ Shutdown(w) \/ Exit(w) \/ Crash(w)

PollerStep(w) ==
  \/ PollQueue(w) \/ PollCount(w) \/ PollClaim(w) \/ PollNothing(w)
  \/ PollError(w) \/ ClaimReplyLost(w)

ExecutorStep(t) ==
  \/ MarkRunning(t) \/ FinishOk(t) \/ FinishRetry(t) \/ FinishDlq(t)
  \/ ScheduleNextOccurrence(t) \/ MarkRunningError(t) \/ TransactionError(t)
  \/ RetryPanics(t) \/ CommitReplyLost(t) \/ SilentRollback(t) \/ OccurrenceError(t)

ApiStep ==
  \/ \E c \in Client : CreateCheck(c) \/ CreateInsert(c)
  \/ \E o \in Operator : RetryCheck(o) \/ RetryCommit(o)
  \/ \E j \in Cancellable : CancelJob(j)
  \/ \E q \in Pausable : SetPaused(q)
  \/ RequestFails

Next ==
  \/ \E w \in Worker : ProcessStep(w) \/ PollerStep(w)
  \/ \E t \in Task : ExecutorStep(t)
  \/ ReQueueScheduledJobs
  \/ RecoverStaleJobs
  \/ ApiStep
  \/ \E j \in Job : Elapse(j)

Spec == Init /\ [][Next]_vars

\* Every background loop keeps ticking while its process lives, processes are
\* started (docker-compose restarts them), and time passes.  Nothing is assumed
\* of users, of crashes, of panics or of database errors.
Fairness ==
  /\ \A w \in Worker :
       /\ WF_vars(StartProcess(w)) /\ WF_vars(Register(w)) /\ WF_vars(Heartbeat(w))
       /\ WF_vars(HeartbeatAges(w) /\ proc[w] = "gone") /\ WF_vars(Exit(w))
       /\ WF_vars(PollQueue(w)) /\ WF_vars(PollCount(w))
       /\ WF_vars(PollClaim(w)) /\ WF_vars(PollNothing(w))
  /\ \A t \in Task :
       /\ WF_vars(MarkRunning(t)) /\ WF_vars(ScheduleNextOccurrence(t))
       /\ WF_vars(FinishOk(t) \/ FinishRetry(t) \/ FinishDlq(t))
  /\ WF_vars(ReQueueScheduledJobs) /\ WF_vars(RecoverStaleJobs)
  /\ \A j \in Job : WF_vars(Elapse(j))

FairSpec == Spec /\ Fairness
=============================================================================
