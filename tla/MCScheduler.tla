------------------------------ MODULE MCScheduler ------------------------------
(* Constants of the TLC runs of Scheduler. *)
EXTENDS SchedulerRefinement, TLC

Sub(type, cron, max, at) ==
  [job_type |-> type, cron |-> cron, max_attempts |-> max, scheduled_at |-> at]

Immediate(max) == Sub("immediate", FALSE, max, "null")

OneAttempt == {Immediate(1)}
OneOrTwoAttempts == {Immediate(0), Immediate(2)}
AnyType == {Immediate(2), Sub("scheduled", FALSE, 2, "future"),
            Sub("recurring", TRUE, 2, "null"), Sub("recurring", FALSE, 2, "null")}
Contended == {Sub("recurring", TRUE, 1, "null")}

Symmetry == Permutations(Worker) \cup Permutations(Job) \cup Permutations(Operator)
=============================================================================
