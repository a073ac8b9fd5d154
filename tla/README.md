# A verification of the distributed job scheduler

TLA+ models of the scheduler, its API and its dashboard, checked with TLC on small
instances, and theorems about every module proved with TLAPS for every instance.
`PROJECT.json` lists runs, mutants, findings, hazards, theorems and, under
`map`, the source lines each definition models.

## The system

Every process runs the same binary (`src/main.rs`): an HTTP API, a poller that
claims jobs and spawns executor tasks, and four background loops (heartbeat,
promoter of scheduled jobs, stale-job recovery, outbox relay). Processes share
PostgreSQL and Redis and nothing else. `docker-compose.yml` starts one and
restarts it; the design (README.md, architecture.md) is for many.

| Component | State | Operations | Talks to | What makes it correct |
|---|---|---|---|---|
| Job table | `jobs` rows | one SQL statement per status change | everyone | terminal states are final; `worker_id` names the holder of every job in hand |
| Poller | position in the loop over `QUEUE_IDS` | read queue, count running, claim | queues, jobs; spawns executors | a job is claimed once; limits and pauses are respected |
| Executor | the claimed job's snapshot | mark running; one transaction for success, retry or DLQ; next occurrence | jobs, executions, DLQ, outbox | one execution at a time; attempts add up; failures reach the DLQ |
| Registry, heartbeat | `workers`, `worker_heartbeats` | register, beat, deregister | recovery reads it | only dead workers look dead |
| Promoter | none | queue the due jobs | jobs | every due job is queued, none too early |
| Recovery | none | re-queue jobs of stale workers | jobs, heartbeats | every orphan is found, no other job is touched |
| Recurring jobs | none | insert the next occurrence | jobs | one next occurrence per completion |
| Job service | none | create, cancel | queues, jobs | one job per idempotency key; the answer is true |
| DLQ service | `dead_letter_queue` | retry | jobs | an entry is retried once; table and queue agree |
| Queue service | `queues` | pause, resume, create, statistics | poller, job service | a paused queue is quiet |
| Outbox, relay, WebSocket | `outbox_events`, Redis channels | insert, publish, mark, forward | executor, dashboard | published if and only if committed |
| Rate limiter | two Redis keys per client | Lua script | every request | the token bucket's bound |
| Circuit breaker | state, counter, time of last failure | `call` | LLM service | opens on failures, closes on recovery |
| Retry policies | `retry_policies` | compute the delay of a retry | executor | every attempt is recorded with the delay its strategy says |
| Connection pool | 20 connections per process | acquire with a timeout, return | every statement | nothing leaks, nobody waits for ever |
| Authentication | `users`, `refresh_tokens`; access tokens at clients | register, login, refresh, logout | every request | accounts are kept; logout ends a session |
| Projects | `organizations`, `projects`, `project_members` | create, list | authentication | every project has its admin |
| Dashboard | selection, lists, busy flag of one page | effects, forms, buttons | the API | what is shown belongs to what is selected; forms are usable again |
| Workflows, metrics, statistics | `job_dependencies` | store, read | | not modelled, see below |

What is hard to test here: the statements of pollers, executors, recovery and
API requests of several processes interleave freely; a task writes to its job
by id on the strength of a claim that recovery may have taken back; processes
die between any two statements; any reply of the database or Redis may be
lost; tasks share a small pool of connections and hold one while they wait for
another; requests of the browser overlap and are answered in any order. The
list, line by line, is under `hazards`.

## Modules

| Module | Models |
|---|---|
| `JobTable` | the row type, and one operator per SQL statement or WHERE clause |
| `Scheduler` | processes, pollers, executors, promoter, recovery, API requests over the tables |
| `SchedulerProperties` | what must hold, and what the documents say |
| `SchedulerProofs` | the theorems about the scheduler, the refinement included, and the inductive invariants |
| `JobContract` | what a client may rely on: the life of a job, without processes or tables |
| `SchedulerRefinement` | the mapping from the tables to `JobContract` |
| `RetryScheduling` | the failure branch of one process: delays, integers, the pool |
| `Accounts` | users, refresh tokens and access tokens |
| `Tenancy` | `create_project` on top of `Accounts` |
| `Dashboard` | the page in one browser, and the endpoints it lists from |
| `OutboxRelay` | outbox, relays, Redis Pub/Sub, dashboards |
| `RateLimiter` | the token bucket of one client key |
| `CircuitBreaker` | `CircuitBreaker::call` with concurrent callers |
| `JobSubmission` | idempotent `create_job` |
| `MCScheduler`, `MCRateLimiter`, `MCRetryScheduling`, `MCTenancy` | constants and symmetry sets of the runs |
| `OutboxRelayProofs`, `JobSubmissionProofs`, `RateLimiterProofs`, `CircuitBreakerProofs`, `RetrySchedulingProofs`, `TenancyProofs`, `DashboardProofs` | the theorems about the others; those of `Accounts` are with `Tenancy`, whose steps include its steps |

In the modules with fairness `Spec` is the safety part, which theorems are
about, and `FairSpec` adds the fairness, which the runs need.

Operators named after another one with a suffix and introduced by "Mutant of"
are deliberate mistakes; `PROJECT.json` says which property must catch each.

### Scheduler

An action is one SQL statement or one transaction together with the code up to
the next await. Statements on `jobs` are atomic: each touches its rows under
row locks, and a statement that waited for a lock evaluates its WHERE clause
again.

* `jobs`, `paused`, `dlq`, `beat` are the tables. `beat[w]` is "unregistered",
  "none" (registered, no heartbeat row), "fresh" or "stale" (older than the
  60 s threshold). `is_active` is left out: no query reads it.
* `proc`, `poller`, `task`, `submit`, `retry` are what processes keep in
  memory: a process that ends loses them (`Vanish`). A task remembers the
  `attempt_count` its claim returned, as `execute_job` does. A finished task
  stands for its `job_executions` row, and for the DLQ entry it made.
* `cancelled` records what the API answered; `faults` (database errors and
  panics) and `stops` count against bounds.
* `Queue` is the queues of `QUEUE_IDS`, which every process polls.
* `StartProcess`, `Register`, `Heartbeat`, `Shutdown`, `Exit`: `main.rs` in its
  order, with the heartbeat spawned before the worker row exists. A restarted
  process has a new worker id, so `Worker` is the set of process starts.
* `PollQueue`, `PollCount`, `PollClaim`: the three statements of the loop. The
  claim takes any claimable row: which one it is depends on priority, age and
  the rows that are locked, and no property here depends on it.
* `MarkRunning`, `FinishOk`, `FinishRetry`, `FinishDlq`,
  `ScheduleNextOccurrence`: `execute_job`. The repository's handler is a stub
  that always succeeds; the model lets it fail too, since that is what half of
  `execute_job` is for.
* `PollError`, `ClaimReplyLost`, `MarkRunningError`, `TransactionError`,
  `CommitReplyLost`, `SilentRollback`, `OccurrenceError`: the error paths.
  `SilentRollback` is the one the code does not see: an error in the
  transaction is discarded (`let _ =`), and COMMIT then rolls back and succeeds.
  `RetryPanics` is a panic in the computation of the retry's time: the task is
  gone and its process lives on; `RetryScheduling` says when it happens.
* Times are "null", "future" or "past", all that the statements compare.
  `Elapse` moves a job's times from future to past.
* Two switches say what is assumed of heartbeats. `StartupRace`: recovery may
  run between a registration and its first heartbeat. `LateHeartbeat`: a live
  worker's heartbeat may get older than the threshold. Both can happen in the
  code (a heartbeat is due every 10 s, and goes through the same connection
  pool as everything else); properties say which they need.

### OutboxRelay

Events are numbered by `created_at`, which is taken before the commit, so they
become visible in any order. Each process has a relay; `Fetch` reads without
locks, `Publish` and `MarkPublished` are apart. Redis delivers to whoever is
subscribed at that moment.

### RateLimiter

`Arrive` reads the clock, `RunScript` is the Lua script, and scripts run in any
order within `MaxDelay` of their clock readings. `admitted[t]` is the number of
requests allowed whose clock reading was at most `t`. `setBack` is history: by
how much scripts that ran after later ones have set the bucket's time back.
Requests let through when Redis fails are not counted.

### CircuitBreaker

The locked block at the start of `call` is one step, since the second lock is
only ever taken under the first. A result is reported in two steps, the counter
and then the state. `failures` stops at the threshold, the only number it is
compared with. `since` is history: the failures counted since a success was
counted and since the circuit was last closed, whichever is later. The service
is up or down.

### JobSubmission

Look-up, checks and INSERT are separate steps; the unique constraint decides
between racing INSERTs, and its loser is answered with a database error, not
with the job. Clients repeat requests that were not answered.

### JobContract and SchedulerRefinement

`JobContract` has three things per job: its phase, its failures and the budget
it was submitted with. A job waits, is worked on, and ends completed, cancelled
or dead; a dead job may be revived; work that is lost waits again and counts
for nothing. `SchedulerRefinement` reads the phase off `status`: pending, queued
and scheduled are "waiting", claimed and running "working", and failed is "dead"
if a DLQ entry is open and "cancelled" otherwise, since the code writes 'failed'
for both. `ImplementsContract` is the abstract specification under that mapping:
every step of every process is a step of it or changes nothing a client sees.
It needs timely heartbeats and one operator, as the theorems do.

### RetryScheduling

What `Scheduler` has as one step (`FinishRetry`, `FinishDlq`) in detail, for
several tasks of one process. `Begin` takes a connection, the look-up of the
policy takes a second one while the first is held, and either may time out:
without the first the task gives up and the job stays running ("stuck"), without
the second the default delay is used. A statement or commit that fails goes
unnoticed (`RecordFails`): the attempt is not recorded and the job stays running
("lost"). Integers have `Width` bits and wrap in
release builds, and panic in debug builds; `Duration::seconds` and the addition
to a date panic in both on more than `MaxSeconds`. The float of the exponential
strategy saturates when it is cast; whole multipliers stand for f64. A NULL
multiplier or cap is 0. `Borrow` and `Return` are the rest of the process.
`Restart` ends the process; recovery then re-queues what was running.

### Accounts and Tenancy

Every operation of `AuthService` is a look-up and a later write. A client is
told by its password, so `users[e]` is the client whose password the account
has. Access tokens are not stored anywhere: `access` is what clients hold.
Refresh tokens are numbered by `created_at`; the look-up lists the newest
`Window` of all users (1000 in the code). Login stores a token, refresh does
not replace it, logout revokes it. `Shares` says which clients have another's
refresh tokens too (a second tab, a repeated request), so requests with one token
overlap. `Tenancy` adds `create_project`, which a
client with a good access token calls: its statements are steps, what they wrote
is visible at `Commit`, and the upsert of the organization holds a row lock from
`UpsertOrg` to the end of the transaction.

### Dashboard

An async function in progress is a script: the requests it has still to make
and the selection its closure captured. `Answer` is the server executing a
request, `Deliver` the browser continuing after the await (state is written,
effects whose dependencies changed start new scripts), `Fail` any error. The
server side is a set of projects and the project of every queue. Whose DLQ
entries, statistics and queues are shown is kept in place of the data.
`tainted` and `behind` are history: they note when a display was last written by
a script although one started later was done with it, or not written because a
request failed. The
metrics request depends on no selection and is left out.

## Runs

| Run | Checks | Instance, and why it is enough |
|---|---|---|
| `retries` | `TypeOK`, `SingleExecution`, `HolderKnown`, `HistoryConsistent`, `DlqAgrees`, `AttemptBudget`, `WorkIsAccounted`, `NoJobIsForgotten`, `TerminalIsFinal`, `ImplementsContract` | 1 job with `max_attempts` 0 or 2, 2 processes, 1 stop, 1 database error or panic, 1 operator, 4 claims, pauses: two failures, the DLQ, a manual retry and a recovery or an error fit in one behaviour |
| `contention` | `HeldJobHasExecutor`, `QueuedIsClaimable`, `TerminalIsFinal` | a recurring job and its next occurrence or 2 submissions, 2 processes, 2 operators, 2 claims, 1 database error or panic; heartbeats late and missing at startup: a job is recovered from a live worker and executed twice, its first task writes late, two retries of one entry overlap |
| `live` | `EventuallySettled` | 1 job of any type with `max_attempts` 2, 1 stop, cancellation, 3 claims: a crash, a retry and the DLQ in one behaviour |
| `relay` | `SentIffCommitted`, `DuplicatesBounded`, `EventuallyPublished`, `ConnectedSees` | 2 relays, a backlog longer than the batch, 2 faults, a dashboard that comes and goes |
| `ratelimit` | `WindowBound` | 3 requests whose scripts run in any order, 5 seconds, capacity 2, refill 1, TTL 3 and delays of 1: the code's 60, 1 and 120 leave the same kind of slack |
| `breaker` | `FailuresTrip`, `Recovers` | 3 callers, threshold 2, 2 outages |
| `submission` | `OneJobPerKey`, `AcceptedIsRepeatable`, `EventuallyAnswered` | 3 clients, 2 keys or none, a pause, a lost reply |
| `retrypath` | `PoolConserved`, `BackoffAsIntended`, `BegunIsRecorded`, `TransactionsEnd` | 2 failing jobs and 2 connections, so that each may hold one and wait for the other's; 12-bit integers and dates that end at 1000 s, so that the product of the default strategy overflows at attempt 9 of 10, as it does at attempt 61 with 64 bits; the policy of the migration, a linear one whose product overflows, and one without a cap; both builds |
| `accounts` | `TenancyTypeOK`, `RegistrationIsKept`, `RefreshStopsAtLogout`, `ProjectHasAdmin`, `CreatedIsMine`, `LogoutTakesEffect`, `ProjectsAnswered` | 2 clients that share an address, one with the other's refresh tokens, 2 sessions over a look-up of 1, 2 access tokens, 1 project for both |
| `dashboard` | `QueueIsListed`, `BusyWithOneForm`, `ViewMatches`, `FormsUnlock` | 2 projects, 2 queues that belong to any of them, 2 clicks: enough for a selection to change, or a second form, while the first one's requests are under way |

Type invariants of the other modules hold in the same runs; they are not
listed as properties, since what they say is little next to the ones above.

`retries` and `live` assume timely heartbeats, and `retries` has one operator;
`contention` assumes neither. The runs whose names begin with `v_` drop an assumption or state what
a document says, and TLC finds the behaviour that breaks it:

| Run | The code ... |
|---|---|
| `v_startup` | executes a job twice when recovery runs before a worker's first heartbeat |
| `v_limit` | exceeds `concurrency_limit`, with a single poller even |

Deadlock is not an error in runs whose bounds (claims, stops, rows, time) are
used up in a final state.

Other disagreements between code and documents, and other behaviour a reviewer
may want to change, seen while modelling; no run is kept for them. The models
have these behaviours unless the entry says otherwise:

* With `LateHeartbeat`, a job recovered from a live worker is set to running
  again by its old task and, when that process stops, is running with no
  `worker_id`: recovery can never find it (`executor.rs:19`; `heartbeat.rs:9`).
* With two operators, overlapping retries of one DLQ entry re-queue a job that
  has completed in between (`dlq_service.rs:41`; the error of line 102 is meant
  for that); `contention` includes this, and `TerminalIsFinal` admits it. Two clicks on the dashboard's Retry button are enough: it is not
  disabled while the request is under way (`App.tsx:477`).
* A claimed or running job is answered "cancelled" and completes
  (`job_service.rs:182`; README.md:396 says a running job is cancelled).
* At attempt 61 the default delay panics in every build. The job is left
  running, recovery does not count the attempt, and it panics again at the next
  failure: `OverflowIsNeverGivenUp` proves that it never reaches the DLQ.
* The delays of `BackoffAsIntended` are those of the code and of the tests in
  `retry_policy.rs:64`: base times multiplier to the power of attempt - 1, no
  jitter, the policy of the job. The comment at `executor.rs:175` says
  10 s * 2^attempt, and README.md:298 base * multiplier^attempt "with optional
  jitter": both one power more, so that every exponential delay is that factor
  shorter than documented.
* A statement or commit of the failure branch that fails is ignored
  (`executor.rs:94-169`): the attempt leaves no row, the job stays running with a
  live worker, and nobody looks at it until that process ends.
* A job is accepted for any queue of its project, and only the queues of
  `QUEUE_IDS` are ever polled (`main.rs:75`; README.md:315). Not in the models:
  `Queue` is the polled ones.
* Refresh and logout look at the newest 1000 active tokens of all users
  (`user_repository.rs:75`; line 67 says all): an older good token is refused and
  cannot be revoked.
* A refresh token is not replaced when it is used (`auth_service.rs:95`;
  README.md:18 says token rotation), and a refresh that had read its row before
  a logout with the same token still gets an access token after the logout was
  answered (`accounts` includes this).
* The statistics query joins jobs and DLQ entries of a queue with each other,
  so each count is multiplied by the size of the other table
  (`queue_repository.rs:80`).
* When replies overtake each other the dashboard shows queues or DLQ entries of
  a project that is not selected, and keeps doing so. With every reply in order
  it does so too: a form or button that was submitted before the selection
  changed reloads with the selection its closure captured (`App.tsx:237`, `267`),
  after the load of the new selection. `ViewMatches` leaves both out: it is about
  displays that the function started last wrote last. Statistics stay on screen
  when no queue is selected, and selection and lists survive signing out
  (`App.tsx:364`).
* Nothing calls `LlmClient`, `on_job_completed` or `on_job_failed`.
* A queue paused between the poller's statements still has a job claimed
  (`poller.rs:97`; `queue.rs:19` says it will not).
* Shutdown drops tasks in flight (`main.rs:93`; `architecture.md:263` says they
  complete).
* Recovery does not count attempts, so a job that takes its workers down is
  executed without end (`job_repository.rs:166`; `architecture.md:274`).
* A scheduled job submitted without a time is never run (`job_service.rs:90`).
* DLQ events are published where no WebSocket handler listens
  (`websocket.rs:47`; `architecture.md:199`).
* A rate limit script that runs after a later one sets the refill time back,
  and seconds are refilled twice (`rate_limit.rs:29`): without the term for that
  `WindowBound` does not hold.
* A call that succeeded before an outage may close the circuit in the middle of
  it (`circuit_breaker.rs:63`); as many failures again are needed to open it.
* A half-open circuit lets every caller through (`circuit_breaker.rs:55`; line
  10 says one).
* The loser of two racing submissions with one key is answered with an error
  instead of the job (`job_service.rs:138`).

### Fairness

Weak fairness on the steps of background loops and spawned tasks: tokio keeps
polling them while the process lives, and every loop goes on after an error.
On process start and exit: compose restarts the container, and `main` returns
after deregistering. On time passing. For the breaker and for submissions, on
callers that keep calling: without them nothing needs to happen. In
`RetryScheduling`, on statements ending and on every wait for a connection,
which ends with the connection or with `acquire_timeout`; not on who gets a
free one. In `Tenancy`, strong fairness on the statements of a transaction:
PostgreSQL queues the waiters of a row lock, so a lock that is free again and
again is granted. In `Accounts`, on access tokens expiring. In `Dashboard`, on
requests being answered or failing (the browser gives up on its own) and their
replies being handled. Nothing is
assumed of users, crashes, errors or the LLM service. `EventuallySettled` is
checked without database errors and panics, because a job whose claim or record
was lost does stay with its live worker (a hazard of the list), and without
pauses.

## Proofs

The theorems hold for any values of the constants that satisfy the modules'
named assumptions. Those say no more than types, except that the processes of
`OutboxRelay` and the jobs of `RetryScheduling` are finite in number, which the
counting needs, and that `RetryScheduling` has integers of at least 10 bits and
dates that hold the default cap of 300 s and not the largest integer (chrono
refuses durations above `i64::MAX` / 1000 seconds). Further assumptions are part
of the theorems and are named
below. Every inductive invariant is defined in the proof module of its component
and was checked by TLC on the run's instance before it was proved. Proofs have
one lemma or case per action, or per group of actions that do the same to the
state the invariant reads. All invariants of the passing runs are proved, and
all their action properties.

### Scheduler

`TypeCorrect` assumes nothing. `SingleExecutionHolds`, `HolderKnownHolds`,
`DlqAgreesHolds`, `HistoryConsistentHolds`, `AttemptBudgetHolds`,
`WorkIsAccountedHolds`, `NoJobIsForgottenHolds` and `ContractImplemented` assume
`Timely` (neither switch) and `OneOperator` (retry requests do not overlap);
`v_startup` and the first two observations above show that they have to.
`HeldJobHasExecutorHolds`, `QueuedIsClaimableHolds` and `TerminalIsFinalHolds`
assume nothing.

* `SingleExecution` is not inductive: that a second claim finds nothing to claim
  has to be known from the row. `IInv` adds `HandsOn` (the job of an executing
  task has the status the task left it in and names the task's worker, which is
  alive) and `BeatsTimely` (only processes that are gone look stale). Claim
  needs a queued job, which by `HandsOn` no task is executing; recovery needs a
  stale holder, which by `BeatsTimely` is gone, and so are its tasks; a DLQ
  retry needs a failed job, by `RetryIsCurrent` and `OpenIsFailed`. `OpenIsOnly`
  and `FailedIsExplained` complete `DlqAgrees`.
* `HeldJobHasExecutor` has its own invariant `HInv`: nothing but a claim ever
  gives a job to a worker, so late writes of zombies cannot break it, and a task
  that is cut off while its process lives leaves the trace `Interrupted` reads.
* `TerminalIsFinal` uses `HInv` and `ClaimInv`: a task that finds its job
  completed or failed finds it without its own worker id, since all who end a job
  clear the column.
* `NoJobIsForgotten` follows from `IInv`, `HInv` and `ClaimInv`: a claimed or
  running job names its holder, who is gone and will be found stale, or alive and
  has a task; a waiting one falls due.
* The history is about counts. The thirty-odd actions are first shown to be of
  seven kinds (insert, cancel, claim, succeed, fail, revive, or nothing of the
  sort), and every later proof has one case per kind. `HistoryInv` adds to `IInv` that the `attempt_count` an
  executing task remembers is still the job's (`AttemptIsCurrent`): with it a
  failed execution writes a number that was not used before.
* `WorkIsAccounted` follows from `CutOffIsExplained`: executions of a job that
  ended without a record, together with the processes that are stopping, are at
  most the stops and faults so far. Counting the stopping processes is what makes
  it inductive: a stop is counted when shutdown begins, before tasks are cut off.
* `ContractImplemented` maps the initial states to initial states of
  `JobContract`, and each kind of step to a step of it or to a stutter;
  `AttemptIsCurrent` makes the failure counts agree.
* `QueuedIsClaimable` rests on `ClaimInv`: a job whose `scheduled_at` lies in the
  future was never claimed, so nothing but the clock moves it.

### The other modules

* `OutboxRelayProofs`: `SentIffCommittedHolds`, from `RelayInv` (relays hold
  committed events only; what was handed to Redis counts as sent), and
  `DuplicatesBoundedHolds`, from `SendsCharged`: sends of an event and the relays
  that may still send it are together at most the processes and the faults, so
  every send uses up the right of a relay or a fault.
* `JobSubmissionProofs`: `OneJobPerKeyHolds` and `AcceptedIsRepeatableHolds`.
  Rows are only added, under the unique constraint, so a request sent when its
  job existed never gets past the look-up.
* `TenancyProofs`: `RegistrationIsKeptHolds`, `RefreshStopsAtLogoutHolds` (a
  session is active once), `ProjectHasAdminHolds` and `CreatedIsMineHolds` (the
  organization's lock admits one transaction, so a slug found free stays free
  until the commit).
* `RateLimiterProofs`: `WindowBoundHolds`, assuming `TtlOutlastsRefill`
  (`Capacity <= Refill * (Ttl - MaxDelay)`: with 60, 1 and 120 in the code,
  delays of up to a minute) and nothing of the order of scripts. `AccountInv`
  says that what the period since any second has left of its allowance, the time
  the bucket was set back included, is in the bucket. The assumption is where
  expiry is harmless: keys that are gone would have been refilled.
* `CircuitBreakerProofs`: `FailuresTripHolds` and `TrippedHasTimeHolds`, which
  are inductive with the types and `CountCovers` (`failure_count` is at least
  what was counted since the last closing, so the threshold is never missed).
* `RetrySchedulingProofs`: `PoolConservedHolds`. `PoolInv` adds that jobs that are
  not dead may fail once more, without which attempts would leave their type.
  `BackoffIsAsIntended` and `BegunAttemptsAreRecorded` compare the code's closed
  forms (powers, wrapping, a saturating cast, a cap at the end) with each
  strategy's delays, each from the one before; `TransactionExits` lists the ways
  out of a transaction. `Induction` proves induction
  over a set of numbers from the well-foundedness of `<`, and `Recursion` that
  the recursive functions of the module are what their equations say; with them
  `DefaultDelayIs` and `PolicyDelayIs` go from one attempt to the next, by
  `CapOnce` (capping the last product is the same as capping every one).
  `BackoffInv` adds `PolicyRead`: whoever reads a policy has one.
  `OverflowIsNeverGivenUp` assumes that `MaxAttempts` lies beyond the overflow
  and `2 * MaxSeconds <= HalfRange`, which keeps the wrapped product out of the
  dates: chrono's years end far below 2^62 seconds.
* `DashboardProofs`: `QueueIsListedHolds`, `BusyWithOneFormHolds` and
  `ViewMatchesHolds`, for any number of functions in progress. `ViewInv` says of
  every display that the youngest script that is to write it, unless it is
  behind, asked for what is selected; if all are behind, the display shows what
  is selected or is tainted. `Ordered` (who is older than a script that is behind
  is behind) makes it inductive. A step takes one script on and appends others;
  `Advanced` states what the first does to the list, for replies, deliveries and
  failures alike, and `Started` what the second adds.

### Only model-checked

Liveness (`EventuallySettled`, `EventuallyPublished`, `ConnectedSees`,
`Recovers`, `EventuallyAnswered`, `TransactionsEnd`, `LogoutTakesEffect`,
`ProjectsAnswered`, `FormsUnlock`) is out of reach of the prover, like ENABLED.
Nothing else that a passing run checks is left to TLC alone.

## Not modelled

* Workflow dependencies: an endpoint stores them, and nothing looks at them,
  since nothing calls `on_job_completed` and no job is ever created as pending.
* Roles: `add_member` is never called, so members are the admins
  `create_project` made; in the models a request without the role fails.
  (README.md says only admins may pause, cancel or retry; the code refuses
  viewers only.)
* The order in which a claim takes jobs (priority, age): no property depends on
  it.
* Rate limit keys, LLM prompts, password hashing, signatures.
* Statistics, metrics, tracing, routing, layout: reads and formatting.

## Plan

1. Done: the core (`JobTable`, `Scheduler`), its properties and proofs; outbox,
   rate limiter, circuit breaker, submissions.
2. Done: `JobContract` and the refinement, retry scheduling and the pool,
   accounts and projects, the dashboard.
3. Done: proofs about the core, the refinement of `JobContract`, and the safety
   properties of the other modules, the arithmetic of retry delays included.
4. Open: a bound of the dashboard's requests by the clicks, as the safety half of
   `FormsUnlock`.
