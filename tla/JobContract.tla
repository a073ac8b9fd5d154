------------------------------ MODULE JobContract ------------------------------
(***************************************************************************)
(* What a client of the scheduler may rely on, without processes, claims   *)
(* or tables: the life of every job as the API shows it.  A job waits, is  *)
(* worked on by one worker at a time, and ends completed, cancelled or     *)
(* dead; only a dead job comes back, by a manual retry.  Work that is lost *)
(* with its worker is done again and is not counted as a failure.          *)
(***************************************************************************)
EXTENDS Naturals

CONSTANT Job

VARIABLES
  phase,     \* "none", "waiting", "working", "completed", "cancelled" or "dead"
  failures,  \* failed attempts of each job
  budget     \* the attempts its submitter allowed

vars == <<phase, failures, budget>>

Init ==
  /\ phase = [j \in Job |-> "none"]
  /\ failures = [j \in Job |-> 0]
  /\ budget = [j \in Job |-> 0]

Move(j, from, to) ==
  /\ phase[j] = from
  /\ phase' = [phase EXCEPT ![j] = to]

\* By a client, or as the next occurrence of a recurring job.
Submit(j) ==
  /\ Move(j, "none", "waiting")
  /\ budget'[j] \in Nat
  /\ budget' = [budget EXCEPT ![j] = budget'[j]]
  /\ UNCHANGED failures

Start(j) == Move(j, "waiting", "working") /\ UNCHANGED <<failures, budget>>

Complete(j) == Move(j, "working", "completed") /\ UNCHANGED <<failures, budget>>

Fail(j) ==
  /\ failures' = [failures EXCEPT ![j] = @ + 1]
  /\ Move(j, "working", IF failures[j] + 1 >= budget[j] THEN "dead" ELSE "waiting")
  /\ UNCHANGED budget

Cancel(j) == Move(j, "waiting", "cancelled") /\ UNCHANGED <<failures, budget>>

Revive(j) == Move(j, "dead", "waiting") /\ UNCHANGED <<failures, budget>>

\* Any number of jobs lose their workers and wait again.
Recover ==
  /\ \E lost \in SUBSET Job :
       /\ \A j \in lost : phase[j] = "working"
       /\ phase' = [j \in Job |-> IF j \in lost THEN "waiting" ELSE phase[j]]
  /\ UNCHANGED <<failures, budget>>

Next ==
  \/ \E j \in Job : \/ Submit(j) \/ Start(j) \/ Complete(j) \/ Fail(j)
                    \/ Cancel(j) \/ Revive(j)
  \/ Recover

Spec == Init /\ [][Next]_vars
=============================================================================
