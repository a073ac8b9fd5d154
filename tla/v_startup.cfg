\* A recovery scan between a worker's registration and its first heartbeat
CONSTANTS
  Job = {j1}
  Worker = {w1, w2}
  NumQueues = 1
  NULL = NULL
  Client = {c1}
  Operator = {}
  Submissions <- OneAttempt
  Pausable = {}
  Cancellable = {}
  HandlerResult = {"ok"}
  Limit = 1
  MaxClaims = 2
  MaxFaults = 0
  MaxStops = 0
  StartupRace = TRUE
  LateHeartbeat = FALSE
SPECIFICATION Spec
INVARIANT SingleExecution
