-------------------------- MODULE SchedulerProperties --------------------------
(***************************************************************************)
(* What the scheduler must and must not do.  The first part holds, some of *)
(* it only when heartbeats are timely (~StartupRace, ~LateHeartbeat) and   *)
(* DLQ retries of one entry do not overlap; the second part states what    *)
(* the repository's documents and comments say and the code does not do.   *)
(***************************************************************************)
EXTENDS Scheduler

Executing(t) == task[t].pc \in {"claimed", "running"}
Rows(j, r) == {t \in Task : task[t].job = j /\ task[t].row = r}
Entries(j, s) == {e \in Task : task[e].job = j /\ dlq[e] = s}

\* Cut off by a database error or a panic while its process lived on: it left
\* no job_executions row, and it executes no more.
Interrupted(t) ==
  faults > 0 /\ task[t].row = "none" /\ task[t].pc \in {"lost", "recur", "done"}

\* Some task of worker w has job j in hand, or had it when it was cut off.
HasTask(j, w) ==
  \E t \in Task :
    /\ task[t].job = j /\ task[t].worker = w
    /\ Executing(t) \/ Interrupted(t)

(***************************************************************************)
(* No job is in the hands of two executor tasks.  Nothing in execute_job   *)
(* defends this: it rests on the claim query and on recovery touching only *)
(* jobs of dead workers.                                                   *)
(***************************************************************************)
SingleExecution ==
  \A s, t \in Task :
    Executing(s) /\ Executing(t) /\ task[s].job = task[t].job => s = t

(***************************************************************************)
(* A job is claimed or running exactly when worker_id names its holder,    *)
(* the only way recover_stale_jobs can find it again after a crash.        *)
(***************************************************************************)
HolderKnown ==
  \A j \in Job :
    jobs[j].status \in {"claimed", "running"} <=> jobs[j].worker_id # NULL

(***************************************************************************)
(* A job that names a live worker is in the hands of one of that worker's  *)
(* tasks, or a database error or a panic cut off the very task that held   *)
(* it: recovery never looks at a live worker, so without a task the job is *)
(* stuck.  Late heartbeats, late writes and overlapping retries never      *)
(* leave a job behind that way.                                            *)
(***************************************************************************)
HeldJobHasExecutor ==
  \A j \in Job, w \in Worker :
    jobs[j].worker_id = w /\ Registered(w) => HasTask(j, w)

(***************************************************************************)
(* The job_executions rows of a job tell a consistent story: attempt_count *)
(* is the number of failed executions, no attempt_number occurs twice, and *)
(* at most one execution succeeded.                                        *)
(***************************************************************************)
HistoryConsistent ==
  \A j \in Job :
    /\ jobs[j].attempt_count = Cardinality(Rows(j, "failure"))
    /\ Cardinality(Rows(j, "success")) <= 1
    /\ \A s, t \in Rows(j, "failure") \cup Rows(j, "success") :
         task[s].attempt = task[t].attempt => s = t

(***************************************************************************)
(* The dead letter queue and the jobs table agree: a failed job was        *)
(* cancelled or has an entry waiting for an operator, an entry that waits  *)
(* belongs to a failed job, and no job waits twice.                        *)
(***************************************************************************)
DlqAgrees ==
  \A j \in Job :
    /\ jobs[j].status = "failed" => j \in cancelled \/ Entries(j, "open") # {}
    /\ Entries(j, "open") # {} => jobs[j].status = "failed"
    /\ Cardinality(Entries(j, "open")) <= 1

(***************************************************************************)
(* Failures are bounded: max_attempts of them (one, if the request asked   *)
(* for none) and one more for every DLQ retry, because retry_job keeps     *)
(* attempt_count.                                                          *)
(***************************************************************************)
AttemptBudget ==
  \A j \in Job :
    jobs[j].status # "absent" =>
      Cardinality(Rows(j, "failure")) <=
        (IF jobs[j].max_attempts = 0 THEN 1 ELSE jobs[j].max_attempts)
          + Cardinality(Entries(j, "retried"))

(***************************************************************************)
(* Work is not repeated without a cause: of the executions of a job that   *)
(* left no job_executions row and are over, each was cut off by a process  *)
(* that stopped, a database error or a panic.  With AttemptBudget this     *)
(* bounds how often a job runs at all; nothing else does, since recovery   *)
(* re-queues a job without counting the attempt.                           *)
(***************************************************************************)
WorkIsAccounted ==
  \A j \in Job :
    Cardinality({t \in Task : task[t].job = j})
      <= Cardinality(Rows(j, "success") \cup Rows(j, "failure"))
           + stops + faults
           + (IF jobs[j].status \in {"claimed", "running"} THEN 1 ELSE 0)

(***************************************************************************)
(* A queued job can be claimed at once: no job is promoted, recovered or   *)
(* retried into the queue while its scheduled_at still hides it from the   *)
(* claim query.                                                            *)
(***************************************************************************)
QueuedIsClaimable ==
  \A j \in Job :
    jobs[j].status = "queued" => Claimable(jobs[j], jobs[j].queue_id)

(***************************************************************************)
(* Terminal states.  A completed or failed job changes status in two ways  *)
(* only: a retry_job transaction re-queues it, by one of its own DLQ       *)
(* entries, or a late task writes to it, one whose claim the row no longer *)
(* carries, since execute_job tests neither status nor worker_id.  No      *)
(* cancel, promotion, recovery or claim ever touches it.  Nothing is       *)
(* assumed of heartbeats and operators.                                    *)
(***************************************************************************)
TerminalIsFinal ==
  [][\A j \in Job :
       jobs[j].status \in {"completed", "failed"} /\ jobs'[j].status # jobs[j].status =>
         \/ /\ jobs'[j].status = "queued"
            /\ \E e \in Entries(j, "open") \cup Entries(j, "retried") :
                 /\ \E o \in Operator : retry[o].entry = e
                 /\ dlq'[e] = "retried"
         \/ \E t \in Task :
              /\ Executing(t) /\ task[t].job = j /\ task'[t] # task[t]
              /\ jobs[j].worker_id # task[t].worker]_vars

\* Work that the scheduler has accepted and that is not waiting for a NULL.
Active(j) ==
  \/ jobs[j].status \in {"queued", "claimed", "running"}
  \/ /\ jobs[j].status = "scheduled"
     /\ {jobs[j].scheduled_at, jobs[j].next_attempt_at} # {"null"}

Settled(j) == jobs[j].status \in {"completed", "failed"}

\* Workers that are gone and that the sub-select of recover_stale_jobs finds
\* once their last heartbeat is old.
Departed == {w \in Worker : proc[w] = "gone" /\ beat[w] # "unregistered"}

\* A delayed job submitted without a time, which no loop ever looks at.
Untimed(j) ==
  /\ jobs[j].status = "scheduled"
  /\ jobs[j].scheduled_at = "null" /\ jobs[j].next_attempt_at = "null"
  /\ \A t \in Task : task[t].job # j

(***************************************************************************)
(* Wherever a job stands, some loop of the scheduler will take it on: it   *)
(* can be claimed, it falls due, it belongs to a worker recovery will find *)
(* dead, or a task has it in hand.  A running job that lost its worker_id, *)
(* a retry that lost its time, or a job whose worker recovery cannot see   *)
(* would be forgotten.  Left aside: the task that an error or a panic cut  *)
(* off, and the submission of a delayed job without a time.                *)
(***************************************************************************)
NoJobIsForgotten ==
  \A j \in Job :
    \/ jobs[j].status = "absent"
    \/ Settled(j)
    \/ Claimable(jobs[j], jobs[j].queue_id)
    \/ Due(ElapseRow(jobs[j]))
    \/ Recoverable(jobs[j], Departed)
    \/ HasTask(j, jobs[j].worker_id)
    \/ Untimed(j)

(***************************************************************************)
(* Every accepted job with a time to run at is eventually completed or     *)
(* failed, through crashes and retries.  Heartbeats are timely, no         *)
(* database error and no panic cuts a task off, and the job's queue is one *)
(* that is polled.                                                         *)
(***************************************************************************)
EventuallySettled == \A j \in Job : Active(j) ~> Settled(j)

-----------------------------------------------------------------------------
(* What documents and comments say                                         *)

(***************************************************************************)
(* queue.rs: concurrency_limit is the "maximum number of jobs that can run *)
(* concurrently across all workers".                                       *)
(***************************************************************************)
ConcurrencyLimitHolds ==
  \A q \in Queue : Cardinality(RunningJobs(q)) <= Limit
=============================================================================
