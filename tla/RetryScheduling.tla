---------------------------- MODULE RetryScheduling ----------------------------
(***************************************************************************)
(* The failure branch of execute_job inside one process: when the failed   *)
(* job is to run again, computed with the integers the code has, and over  *)
(* a connection pool that every task, loop and request of the process      *)
(* shares.  The transaction holds one connection while the retry policy is *)
(* read through another one.                                               *)
(***************************************************************************)
EXTENDS Integers, FiniteSetsExt

CONSTANTS
  Job,          \* jobs whose handler fails
  Policies,     \* rows of retry_policies
  NoPolicy,     \* a retry_policy_id that is NULL
  MaxAttempts,  \* max_attempts of every job
  Pool,         \* max_connections
  Width,        \* bits of the integer type, 64 in the code
  MaxSeconds    \* the longest Duration that can be added to a date

\* i64::pow and f64::powi, without their limits: repeated multiplication.
Pow(b, n) == LET f[k \in Nat] == IF k = 0 THEN 1 ELSE b * f[k - 1] IN f[n]

HalfRange == Pow(2, Width - 1)
MaxInt == HalfRange - 1

ASSUME RetrySchedulingAssumption ==
  /\ IsFiniteSet(Job)
  /\ Policies \subseteq [strategy : {"fixed", "linear", "exponential"},
                         base : Nat, max : Nat, multiplier : Nat]
  /\ NoPolicy \notin Policies
  /\ MaxAttempts \in Nat \ {0}
  /\ Pool \in Nat \ {0}
  /\ Width \in Nat \ (0 .. 9)
  /\ MaxSeconds \in 300 .. MaxInt - 1

VARIABLES
  build,     \* "debug" builds check arithmetic, "release" builds wrap
  policy,    \* the policy of each job
  pc,        \* where each job, and the task that executes it, is
  attempts,  \* jobs.attempt_count
  delay,     \* the delay the last retry of each job was given
  found,     \* did the task read its policy?
  free,      \* idle connections of the pool
  others     \* connections in use by other statements of the process

vars == <<build, policy, pc, attempts, delay, found, free, others>>

\* "begin" and "lookup" wait for a connection, "reading" holds two, "write"
\* one; a "stuck" job, and one whose transaction was "lost", is running in the
\* table and no task is left for it.
Holds(p) == CASE p \in {"lookup", "write"} -> 1 [] p = "reading" -> 2 [] OTHER -> 0

TypeOK ==
  /\ build \in {"debug", "release"}
  /\ policy \in [Job -> Policies \cup {NoPolicy}]
  /\ pc \in [Job -> {"running", "begin", "lookup", "reading", "write",
                     "waiting", "dead", "stuck", "lost"}]
  /\ attempts \in [Job -> 0 .. MaxAttempts]
  /\ delay \in [Job -> - MaxSeconds .. MaxSeconds]
  /\ found \in [Job -> BOOLEAN]
  /\ free \in 0 .. Pool
  /\ others \in 0 .. Pool

Init ==
  /\ build \in {"debug", "release"}
  /\ policy \in [Job -> Policies \cup {NoPolicy}]
  /\ pc = [j \in Job |-> "running"]
  /\ attempts = [j \in Job |-> 0]
  /\ delay = [j \in Job |-> 0]
  /\ found = [j \in Job |-> FALSE]
  /\ free = Pool
  /\ others = 0

-----------------------------------------------------------------------------
(* The delay: calculate_retry_delay and RetryPolicy::next_delay_seconds    *)

Wrap(x) == ((x + HalfRange) % (2 * HalfRange)) - HalfRange

\* Mutant of DefaultRaw: the formula of the comment above calculate_retry_delay.
DefaultRawOneMore(attempt) == 10 * Pow(2, attempt)

\* What the expressions would be in unbounded integers.
DefaultRaw(attempt) == 10 * Pow(2, attempt - 1)
LinearRaw(p, attempt) == p.base * attempt

\* A NULL multiplier (0 here) counts as 2.
Multiplier(p) == IF p.multiplier = 0 THEN 2 ELSE p.multiplier

\* The float of the exponential policy saturates when it is cast; a NULL max
\* (0 here) is no cap.
ExponentialRaw(p, attempt) == Min({MaxInt, p.base * Pow(Multiplier(p), attempt - 1)})

Capped(p, raw) == IF p.max = 0 THEN raw ELSE Min({raw, p.max})

NextDelaySeconds(p, attempt) ==
  CASE p.strategy = "fixed" -> p.base
    [] p.strategy = "linear" -> Wrap(LinearRaw(p, attempt))
    [] p.strategy = "exponential" -> Capped(p, ExponentialRaw(p, attempt))

\* Mutant of DefaultDelay: no cap.
DefaultDelayUncapped(attempt) == Wrap(DefaultRaw(attempt))

DefaultDelay(attempt) == Min({Wrap(DefaultRaw(attempt)), 300})

Attempt(j) == attempts[j] + 1

CalculateRetryDelay(j) ==
  IF found[j] THEN NextDelaySeconds(policy[j], Attempt(j)) ELSE DefaultDelay(Attempt(j))

Overflows(j) ==
  LET raw == CASE ~found[j] -> DefaultRaw(Attempt(j))
               [] found[j] /\ policy[j].strategy = "linear" -> LinearRaw(policy[j], Attempt(j))
               [] OTHER -> 0
  IN  raw # Wrap(raw)

\* Checked arithmetic panics on overflow; in every build Duration::seconds and
\* the addition to the current time panic on what they cannot represent.
Panics(j) ==
  \/ build = "debug" /\ Overflows(j)
  \/ CalculateRetryDelay(j) \notin - MaxSeconds .. MaxSeconds

-----------------------------------------------------------------------------
(* The task                                                                *)

Goto(j, from, to) == pc[j] = from /\ pc' = [pc EXCEPT ![j] = to]

\* The handler returns an error.
HandlerFails(j) ==
  /\ Goto(j, "running", "begin")
  /\ found' = [found EXCEPT ![j] = FALSE]
  /\ UNCHANGED <<build, policy, attempts, delay, free, others>>

ShouldDlq(j) == Attempt(j) >= MaxAttempts

\* pool.begin, and the job_executions row; what follows depends on the branch.
Begin(j) ==
  /\ free > 0
  /\ free' = free - 1
  /\ Goto(j, "begin", IF ShouldDlq(j) \/ policy[j] = NoPolicy THEN "write" ELSE "lookup")
  /\ UNCHANGED <<build, policy, attempts, delay, found, others>>

\* No connection within acquire_timeout: the error is logged, execute_job
\* returns, and the job stays as it is.
BeginTimeout(j) ==
  /\ free = 0
  /\ Goto(j, "begin", "stuck")
  /\ UNCHANGED <<build, policy, attempts, delay, found, free, others>>

LookupAcquire(j) ==
  /\ free > 0
  /\ free' = free - 1
  /\ Goto(j, "lookup", "reading")
  /\ UNCHANGED <<build, policy, attempts, delay, found, others>>

\* Mutant of LookupTimeout: acquire waits for as long as it takes.
LookupTimeoutNever(j) == FALSE /\ UNCHANGED vars

\* unwrap_or(None): the second connection does not come in time, and the
\* default delay is used in place of the policy.
LookupTimeout(j) ==
  /\ free = 0
  /\ Goto(j, "lookup", "write")
  /\ UNCHANGED <<build, policy, attempts, delay, found, free, others>>

\* The SELECT returns the policy, or an error that counts as no policy.
LookupReply(j) ==
  /\ Goto(j, "reading", "write")
  /\ free' = free + 1
  /\ \E ok \in BOOLEAN : found' = [found EXCEPT ![j] = ok]
  /\ UNCHANGED <<build, policy, attempts, delay, others>>

\* The UPDATE and the commit, which gives the connection back.
ScheduleRetry(j) ==
  /\ ~ShouldDlq(j)
  /\ ~Panics(j)
  /\ Goto(j, "write", "waiting")
  /\ attempts' = [attempts EXCEPT ![j] = Attempt(j)]
  /\ delay' = [delay EXCEPT ![j] = CalculateRetryDelay(j)]
  /\ free' = free + 1
  /\ UNCHANGED <<build, policy, found, others>>

MoveToDlq(j) ==
  /\ ShouldDlq(j)
  /\ Goto(j, "write", "dead")
  /\ attempts' = [attempts EXCEPT ![j] = Attempt(j)]
  /\ free' = free + 1
  /\ UNCHANGED <<build, policy, delay, found, others>>

\* A statement or the commit fails.  Every result is discarded, so the task goes
\* on to its end; nothing of the transaction is kept, its connection returns to
\* the pool, and the job stays running with a live worker.
RecordFails(j) ==
  /\ Goto(j, "write", "lost")
  /\ free' = free + 1
  /\ UNCHANGED <<build, policy, attempts, delay, found, others>>

\* Mutant of Panic: the connection is not given back.
PanicLeaks(j) ==
  /\ ~ShouldDlq(j)
  /\ Panics(j)
  /\ Goto(j, "write", "stuck")
  /\ UNCHANGED <<build, policy, attempts, delay, found, free, others>>

\* The task unwinds: the transaction is dropped, which rolls it back and
\* returns its connection, and the job stays running with a live worker.
Panic(j) ==
  /\ ~ShouldDlq(j)
  /\ Panics(j)
  /\ Goto(j, "write", "stuck")
  /\ free' = free + 1
  /\ UNCHANGED <<build, policy, attempts, delay, found, others>>

\* The delay passes, the job is promoted, claimed and executed again.
RunAgain(j) ==
  /\ Goto(j, "waiting", "running")
  /\ UNCHANGED <<build, policy, attempts, delay, found, free, others>>

\* Other statements of the process take and return connections.
Borrow ==
  /\ free > 0
  /\ free' = free - 1
  /\ others' = others + 1
  /\ UNCHANGED <<build, policy, pc, attempts, delay, found>>

Return ==
  /\ others > 0
  /\ free' = free + 1
  /\ others' = others - 1
  /\ UNCHANGED <<build, policy, pc, attempts, delay, found>>

\* The process ends with its tasks and its pool; recovery re-queues what was
\* running, attempt_count unchanged, and the next process executes it.
Restart ==
  /\ pc' = [j \in Job |-> IF pc[j] \in {"waiting", "dead"} THEN pc[j] ELSE "running"]
  /\ free' = Pool
  /\ others' = 0
  /\ UNCHANGED <<build, policy, attempts, delay, found>>

TaskStep(j) ==
  \/ HandlerFails(j) \/ Begin(j) \/ BeginTimeout(j) \/ LookupAcquire(j)
  \/ LookupTimeout(j) \/ LookupReply(j) \/ ScheduleRetry(j) \/ MoveToDlq(j)
  \/ RecordFails(j) \/ Panic(j) \/ RunAgain(j)

Next ==
  \/ \E j \in Job : TaskStep(j)
  \/ Borrow \/ Return \/ Restart

\* Statements end, and a task that waits gets a connection or its timeout.
\* Nothing is assumed of restarts, or of who wins a free connection.
Fairness ==
  /\ WF_vars(Return)
  /\ \A j \in Job :
       /\ WF_vars(LookupReply(j))
       /\ WF_vars(LookupAcquire(j) \/ LookupTimeout(j))
       /\ WF_vars(Begin(j) \/ BeginTimeout(j))
       /\ WF_vars(ScheduleRetry(j) \/ MoveToDlq(j) \/ RecordFails(j) \/ Panic(j))

Spec == Init /\ [][Next]_vars

FairSpec == Spec /\ Fairness

-----------------------------------------------------------------------------
(* Properties                                                              *)

\* The connections of the tasks: the transaction's is a task's first.
Held == {c \in Job \X {1, 2} : c[2] <= Holds(pc[c[1]])}

(***************************************************************************)
(* No path of the failure branch leaks a connection: not the timeouts, not *)
(* a failed look-up, not a panic in the middle of the transaction.         *)
(***************************************************************************)
PoolConserved == free + others + Cardinality(Held) = Pool

\* Does the product of the code fit the integer type?  For the default,
\* 10 * 2^(attempt - 1) does up to here.
Fits(j, attempt) ==
  IF found[j] THEN policy[j].strategy = "linear" => LinearRaw(policy[j], attempt) <= MaxInt
              ELSE attempt <= Width - 4

\* The delays the default strategy is meant to give: double from 10 s up to 5 min.
Doubling[n \in Nat] == IF n <= 1 THEN 10 ELSE Min({300, 2 * Doubling[n - 1]})

\* And those of a policy, each from the one before, the exponential ones capped.
Grown(p, d) ==
  CASE p.strategy = "fixed" -> p.base
    [] p.strategy = "linear" -> d + p.base
    [] p.strategy = "exponential" -> d * Multiplier(p)

WithCap(p, d) == IF p.strategy = "exponential" /\ p.max # 0 THEN Min({p.max, d}) ELSE d

PolicyDelays(p) ==
  LET f[n \in Nat] == WithCap(p, IF n <= 1 THEN p.base ELSE Grown(p, f[n - 1]))
  IN  f

Intended(j, attempt) ==
  IF found[j] THEN PolicyDelays(policy[j])[attempt] ELSE Doubling[attempt]

(***************************************************************************)
(* A retry waits as long as its strategy's sequence of delays says, for    *)
(* every strategy and up to the attempt where a product no longer fits the *)
(* integer type; if the policy could not be read, as the default strategy  *)
(* says.  The sequences are those of next_delay_seconds and its tests: the *)
(* first retry waits base, the second base * multiplier.  The comment of   *)
(* calculate_retry_delay (10s * 2^attempt) and the repository's README     *)
(* (base * multiplier^attempt, optional jitter) say one power more, and    *)
(* jitter; the code has neither.                                           *)
(***************************************************************************)
BackoffAsIntended ==
  \A j \in Job :
    pc[j] = "waiting" /\ Fits(j, attempts[j]) =>
      delay[j] = Intended(j, attempts[j])

\* The failure branch has its transaction.
Begun(p) == p \in {"lookup", "reading", "write"}

(***************************************************************************)
(* A failed attempt whose transaction began is recorded, in a retry or in  *)
(* the DLQ, unless the database refuses the transaction or the process     *)
(* ends.  Of its own the task drops it only by a panic, and that only      *)
(* where the product of the default strategy overflows or a policy without *)
(* a cap asks for more than a date can hold: neither the wait for a second *)
(* connection nor a failed look-up of the policy is a reason.              *)
(***************************************************************************)
BegunIsRecorded ==
  [][\A j \in Job :
       Begun(pc[j]) /\ ~Begun(pc'[j]) =>
         \/ pc'[j] \in {"waiting", "dead"} /\ attempts'[j] = attempts[j] + 1
         \/ pc'[j] = "lost"
         \/ Restart
         \/ /\ pc'[j] = "stuck"
            /\ IF found[j] THEN Intended(j, Attempt(j)) > MaxSeconds ELSE ~Fits(j, Attempt(j))]_vars

(***************************************************************************)
(* Tasks that hold a connection and wait for another do not wait for each  *)
(* other for good: every transaction of the failure branch ends.           *)
(***************************************************************************)
TransactionsEnd ==
  \A j \in Job : pc[j] \in {"begin", "lookup", "reading", "write"} ~>
                   pc[j] \in {"running", "waiting", "dead", "stuck", "lost"}
=============================================================================
