---------------------------- MODULE CircuitBreaker ----------------------------
(***************************************************************************)
(* The circuit breaker around LLM calls, shared by every task that makes   *)
(* one.  CircuitBreaker::call holds the state lock to decide whether to    *)
(* call, not during the call, and updates the failure counter before it    *)
(* takes the lock again; between those steps other tasks run theirs.       *)
(***************************************************************************)
EXTENDS Integers, FiniteSets

CONSTANTS
  Caller,      \* tasks that ask for a failure summary
  Threshold,   \* failure_threshold (3 in the code)
  MaxOutages   \* bound: how often the service goes down

ASSUME CircuitBreakerAssumption ==
  /\ Threshold \in Nat \ {0}
  /\ MaxOutages \in Nat

VARIABLES
  state,    \* Closed, Open or HalfOpen
  failures, \* failure_count; only compared with Threshold, so it stops there
  last,     \* last_failure_at: never set, or whether reset_timeout has elapsed
  call,     \* where each caller is in `call'
  up,       \* external: whether the service answers
  outages,  \* external: how often it went down
  since     \* history: failures counted since a success was, or the circuit closed

vars == <<state, failures, last, call, up, outages, since>>

TypeOK ==
  /\ state \in {"Closed", "Open", "HalfOpen"}
  /\ failures \in 0 .. Threshold
  /\ last \in {"none", "recent", "elapsed"}
  /\ call \in [Caller -> {"idle", "calling", "probing", "succeeded", "failed"}]
  /\ up \in BOOLEAN
  /\ outages \in 0 .. MaxOutages
  /\ since \in 0 .. Threshold

Init ==
  /\ state = "Closed"
  /\ failures = 0
  /\ last = "none"
  /\ call = [c \in Caller |-> "idle"]
  /\ up = TRUE
  /\ outages = 0
  /\ since = 0

MayProbe == last = "elapsed"

\* The locked block at the start: the call goes on, as a probe if the circuit
\* is or becomes HalfOpen.
Begin(c) ==
  /\ call[c] = "idle"
  /\ state = "Open" => MayProbe
  /\ state' = IF state = "Open" THEN "HalfOpen" ELSE state
  /\ call' = [call EXCEPT ![c] = IF state = "Closed" THEN "calling" ELSE "probing"]
  /\ UNCHANGED <<failures, last, up, outages, since>>

\* Err(CircuitError::Open): nothing changes.
Reject(c) ==
  /\ call[c] = "idle"
  /\ state = "Open"
  /\ ~MayProbe
  /\ UNCHANGED vars

Calls(c) == call[c] \in {"calling", "probing"}

\* The service answers: failure_count.store(0), then on to the lock.
Succeed(c) ==
  /\ Calls(c)
  /\ up
  /\ failures' = 0
  /\ since' = 0
  /\ call' = [call EXCEPT ![c] = "succeeded"]
  /\ UNCHANGED <<state, last, up, outages>>

Close(c) ==
  /\ call[c] = "succeeded"
  /\ state' = "Closed"
  /\ since' = 0
  /\ call' = [call EXCEPT ![c] = "idle"]
  /\ UNCHANGED <<failures, last, up, outages>>

\* Mutant of Reached: the count before this failure.
ReachedLate == failures >= Threshold

\* fetch_add(1) + 1 >= failure_threshold.
Reached == failures + 1 >= Threshold

\* One more failure, as far as the count is told apart.
Counted(n) == IF n < Threshold THEN n + 1 ELSE Threshold

\* The call fails: fetch_add, and on to the lock when the threshold is reached.
Fail(c) ==
  /\ Calls(c)
  /\ ~up
  /\ failures' = Counted(failures)
  /\ since' = Counted(since)
  /\ call' = [call EXCEPT ![c] = IF Reached THEN "failed" ELSE "idle"]
  /\ UNCHANGED <<state, last, up, outages>>

\* Mutant of Trip: last_failure_at is not set.
TripWithoutTime(c) ==
  /\ call[c] = "failed"
  /\ state' = "Open"
  /\ call' = [call EXCEPT ![c] = "idle"]
  /\ UNCHANGED <<failures, last, up, outages, since>>

Trip(c) ==
  /\ call[c] = "failed"
  /\ state' = "Open"
  /\ last' = "recent"
  /\ call' = [call EXCEPT ![c] = "idle"]
  /\ UNCHANGED <<failures, up, outages, since>>

ResetTimeout ==
  /\ last = "recent"
  /\ last' = "elapsed"
  /\ UNCHANGED <<state, failures, call, up, outages, since>>

GoDown ==
  /\ up
  /\ outages < MaxOutages
  /\ up' = FALSE
  /\ outages' = outages + 1
  /\ UNCHANGED <<state, failures, last, call, since>>

GoUp ==
  /\ ~up
  /\ up' = TRUE
  /\ UNCHANGED <<state, failures, last, call, outages, since>>

CallStep(c) ==
  Begin(c) \/ Reject(c) \/ Succeed(c) \/ Close(c) \/ Fail(c) \/ Trip(c)

Next ==
  \/ \E c \in Caller : CallStep(c)
  \/ ResetTimeout \/ GoDown \/ GoUp

Spec == Init /\ [][Next]_vars

\* Summaries keep being asked for, calls end, tasks run on and time passes.
\* Nothing is assumed of the service.
Fairness ==
  /\ \A c \in Caller :
       /\ WF_vars(Begin(c)) /\ WF_vars(Succeed(c) \/ Fail(c))
       /\ WF_vars(Close(c)) /\ WF_vars(Trip(c))
  /\ WF_vars(ResetTimeout)

FairSpec == Spec /\ Fairness

(***************************************************************************)
(* Enough failures trip the circuit, in every interleaving of counter and  *)
(* lock: after Threshold failures since a success was last counted and     *)
(* since the circuit was last closed, once every failed call has taken the *)
(* lock, the circuit is not closed.  A call that succeeded before some of  *)
(* those failures and closes the circuit after them starts the count anew: *)
(* Threshold failures after that trip it, although failure_count has been  *)
(* above the threshold all the time.                                       *)
(***************************************************************************)
FailuresTrip ==
  since = Threshold /\ (\A c \in Caller : call[c] # "failed") => state # "Closed"

(***************************************************************************)
(* The breaker recovers: if the service stays up from some point on, the   *)
(* circuit is closed from some point on, whatever calls of the outage are  *)
(* still to report.                                                        *)
(***************************************************************************)
Recovers == <>[]up => <>[](state = "Closed")
=============================================================================
