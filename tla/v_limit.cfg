\* One process, concurrency_limit 1, two jobs
CONSTANTS
  Job = {j1, j2}
  Worker = {w1}
  NumQueues = 1
  NULL = NULL
  Client = {c1}
  Operator = {}
  Submissions <- OneAttempt
  Pausable = {}
  Cancellable = {}
  HandlerResult = {"ok"}
  Limit = 1
  MaxClaims = 2
  MaxFaults = 0
  MaxStops = 0
  StartupRace = FALSE
  LateHeartbeat = FALSE
SPECIFICATION Spec
INVARIANT ConcurrencyLimitHolds
