\* Liveness through a crash, retries and a cancellation
CONSTANTS
  Job = {j1}
  Worker = {w1, w2}
  NumQueues = 1
  NULL = NULL
  Client = {c1}
  Operator = {}
  Submissions <- AnyType
  Pausable = {}
  Cancellable = {j1}
  HandlerResult = {"ok", "err"}
  Limit = 1
  MaxClaims = 3
  MaxFaults = 0
  MaxStops = 1
  StartupRace = FALSE
  LateHeartbeat = FALSE
SPECIFICATION FairSpec
PROPERTY EventuallySettled
