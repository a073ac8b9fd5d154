\* Crashes, a database error or panic, retries, pauses, the dead letter queue
\* and cancellation, with timely heartbeats and one operator
CONSTANTS
  Job = {j1}
  Worker = {w1, w2}
  NumQueues = 1
  NULL = NULL
  Client = {c1}
  Operator = {o1}
  Submissions <- OneOrTwoAttempts
  Pausable = {1}
  Cancellable = {j1}
  HandlerResult = {"ok", "err"}
  Limit = 1
  MaxClaims = 4
  MaxFaults = 1
  MaxStops = 1
  StartupRace = FALSE
  LateHeartbeat = FALSE
SYMMETRY Symmetry
SPECIFICATION Spec
INVARIANTS TypeOK SingleExecution HolderKnown HistoryConsistent DlqAgrees AttemptBudget WorkIsAccounted NoJobIsForgotten
PROPERTIES TerminalIsFinal ImplementsContract
CHECK_DEADLOCK FALSE
