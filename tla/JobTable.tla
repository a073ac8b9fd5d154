------------------------------- MODULE JobTable -------------------------------
(***************************************************************************)
(* The rows of the `jobs' table and the effect on one row of every SQL     *)
(* statement that changes it.  Each statement of the code is one operator, *)
(* from the old row to the new one, and each WHERE clause one predicate;   *)
(* the modules that run the statements decide when.                        *)
(*                                                                         *)
(* Timestamps are abstracted to what the statements compare: NULL, still   *)
(* in the future, or past.                                                 *)
(***************************************************************************)
EXTENDS Naturals

CONSTANTS
  Job,        \* identifiers of job rows
  Worker,     \* worker identifiers, a fresh one for every process start
  NumQueues,  \* how many queues QUEUE_IDS lists
  NULL        \* the SQL NULL of worker_id

ASSUME JobTableAssumption ==
  /\ NumQueues \in Nat \ {0}
  /\ NULL \notin Worker
  /\ NULL \notin Job

\* The queues of QUEUE_IDS, which every process polls.  The API accepts jobs for
\* any queue of the database; one that no process lists is never polled, and its
\* jobs are outside the model.
Queue == 1 .. NumQueues

\* job_status, and "absent" for an identifier no row uses yet.
Status == {"absent", "pending", "queued", "scheduled",
           "claimed", "running", "completed", "failed"}

\* What create_job and the executor tell apart: delayed jobs behave as
\* scheduled ones, batch jobs as immediate ones, and so do recurring jobs
\* without a cron expression, for which is_recurring is false.
JobType == {"immediate", "scheduled", "recurring"}

Time == {"null", "future", "past"}

Row == [status          : Status,
        queue_id        : Queue,
        job_type        : JobType,
        cron            : BOOLEAN,   \* does the cron expression have a next occurrence?
        max_attempts    : Nat,
        attempt_count   : Nat,
        scheduled_at    : Time,
        next_attempt_at : Time,
        worker_id       : Worker \cup {NULL}]

\* A submission: the fields of CreateJobRequest the scheduler depends on.
Submission == [job_type     : JobType,
               cron         : BOOLEAN,
               max_attempts : Nat,
               scheduled_at : Time]

AbsentRow ==
  [status |-> "absent", queue_id |-> 1, job_type |-> "immediate",
   cron |-> FALSE, max_attempts |-> 0, attempt_count |-> 0,
   scheduled_at |-> "null", next_attempt_at |-> "null", worker_id |-> NULL]

\* INSERT of create_job: only delayed and scheduled jobs start as scheduled,
\* with whatever scheduled_at the request has, NULL included; for every other
\* type the requested scheduled_at is ignored.
InsertRow(q, sub) ==
  [AbsentRow EXCEPT
     !.status       = IF sub.job_type = "scheduled" THEN "scheduled" ELSE "queued",
     !.queue_id     = q,
     !.job_type     = sub.job_type,
     !.cron         = sub.cron,
     !.max_attempts = sub.max_attempts,
     !.scheduled_at = IF sub.job_type = "scheduled" THEN sub.scheduled_at ELSE "null"]

\* INSERT ... SELECT of schedule_next_occurrence.
NextOccurrenceRow(row) ==
  [row EXCEPT !.status = "scheduled", !.attempt_count = 0,
              !.scheduled_at = "future", !.next_attempt_at = "null",
              !.worker_id = NULL]

\* Mutant of Claimable: the status test also lets claimed jobs through.
ClaimableTwice(row, q) ==
  /\ row.status \in {"queued", "claimed"}
  /\ row.queue_id = q
  /\ row.scheduled_at \in {"null", "past"}

\* The inner SELECT of claim_next_job.
Claimable(row, q) ==
  /\ row.status = "queued"
  /\ row.queue_id = q
  /\ row.scheduled_at \in {"null", "past"}

ClaimRow(row, w) == [row EXCEPT !.status = "claimed", !.worker_id = w]

\* The executor's UPDATE by id alone: neither status nor worker_id is tested.
MarkRunningRow(row) == [row EXCEPT !.status = "running"]

\* Mutant of CompleteRow: worker_id is not cleared.
CompleteRowKeepsWorker(row) == [row EXCEPT !.status = "completed"]

CompleteRow(row) == [row EXCEPT !.status = "completed", !.worker_id = NULL]

FailRow(row, attempt) ==
  [row EXCEPT !.status = "failed", !.attempt_count = attempt, !.worker_id = NULL]

\* Mutant of RetryRow: attempt_count is not written.
RetryRowKeepsCount(row, attempt) ==
  [row EXCEPT !.status = "scheduled", !.next_attempt_at = "future", !.worker_id = NULL]

RetryRow(row, attempt) ==
  [row EXCEPT !.status = "scheduled", !.next_attempt_at = "future",
              !.attempt_count = attempt, !.worker_id = NULL]

\* Mutant of Due: the clock is not compared.
DueAtOnce(row) == row.status = "scheduled"

\* COALESCE(next_attempt_at, scheduled_at) <= NOW(): a NULL is never due.
Due(row) ==
  /\ row.status = "scheduled"
  /\ IF row.next_attempt_at = "null" THEN row.scheduled_at = "past"
                                     ELSE row.next_attempt_at = "past"

PromoteRow(row) == IF Due(row) THEN [row EXCEPT !.status = "queued"] ELSE row

\* Mutants of Recoverable: the worker is not tested; claimed jobs are left out.
RecoverableAnyWorker(row, stale) == row.status \in {"claimed", "running"}

RecoverableRunning(row, stale) == row.status = "running" /\ row.worker_id \in stale

\* recover_stale_jobs, given the workers its sub-select finds stale.
Recoverable(row, stale) ==
  row.status \in {"claimed", "running"} /\ row.worker_id \in stale

RecoverRow(row, stale) ==
  IF Recoverable(row, stale)
    THEN [row EXCEPT !.status = "queued", !.worker_id = NULL]
    ELSE row

\* Mutant of CancelRow: the UPDATE is by id alone.
CancelRowAnyStatus(row) == [row EXCEPT !.status = "failed"]

\* Mutant of CancelRow: claimed jobs are cancelled too.
CancelRowClaimed(row) ==
  IF row.status \in {"pending", "queued", "scheduled", "claimed"}
    THEN [row EXCEPT !.status = "failed"]
    ELSE row

CancelRow(row) ==
  IF row.status \in {"pending", "queued", "scheduled"}
    THEN [row EXCEPT !.status = "failed"]
    ELSE row

\* The UPDATE of retry_job: by id alone, and attempt_count is kept.
RequeueRow(row) ==
  [row EXCEPT !.status = "queued", !.worker_id = NULL, !.next_attempt_at = "null"]

\* The clock reaches the timestamps of a row that lie in the future.
ElapseRow(row) ==
  [row EXCEPT
     !.scheduled_at = IF @ = "future" THEN "past" ELSE @,
     !.next_attempt_at = IF @ = "future" THEN "past" ELSE @]
=============================================================================
