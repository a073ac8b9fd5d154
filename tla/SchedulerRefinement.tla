-------------------------- MODULE SchedulerRefinement --------------------------
(***************************************************************************)
(* The scheduler implements JobContract.  The mapping reads what the API   *)
(* shows: the status of a job and its dead letter entries.                 *)
(***************************************************************************)
EXTENDS SchedulerProperties

PhaseOf(j) ==
  CASE jobs[j].status = "absent" -> "none"
    [] jobs[j].status \in {"pending", "queued", "scheduled"} -> "waiting"
    [] jobs[j].status \in {"claimed", "running"} -> "working"
    [] jobs[j].status = "completed" -> "completed"
    [] jobs[j].status = "failed" -> IF Entries(j, "open") = {} THEN "cancelled" ELSE "dead"

Contract ==
  INSTANCE JobContract
    WITH phase <- [j \in Job |-> PhaseOf(j)],
         failures <- [j \in Job |-> jobs[j].attempt_count],
         budget <- [j \in Job |-> jobs[j].max_attempts]

(***************************************************************************)
(* Whatever processes, pollers, executors, recovery and the API do to the  *)
(* tables, a client sees jobs that live by JobContract: no step of theirs  *)
(* starts a job that is being worked on, ends one nobody works on, brings  *)
(* back a completed or cancelled one, or miscounts its failures.           *)
(***************************************************************************)
ImplementsContract == Contract!Spec
=============================================================================
