\* Two jobs, late heartbeats, a recovery scan at startup, overlapping retries of
\* the dead letter queue and a database error or panic
CONSTANTS
  Job = {j1, j2}
  Worker = {w1, w2}
  NumQueues = 1
  NULL = NULL
  Client = {c1}
  Operator = {o1, o2}
  Submissions <- Contended
  Pausable = {}
  Cancellable = {}
  HandlerResult = {"ok", "err"}
  Limit = 1
  MaxClaims = 2
  MaxFaults = 1
  MaxStops = 0
  StartupRace = TRUE
  LateHeartbeat = TRUE
SYMMETRY Symmetry
SPECIFICATION Spec
INVARIANTS HeldJobHasExecutor QueuedIsClaimable
PROPERTY TerminalIsFinal
CHECK_DEADLOCK FALSE
