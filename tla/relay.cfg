\* Two relays, two errors or crashes, a batch shorter than the backlog, a dashboard.
CONSTANTS
  MaxEvents = 2
  Process = {p1, p2}
  Socket = {s1}
  Kinds = {"job_completed", "job_moved_to_dlq"}
  Batch = 1
  MaxFaults = 2
SPECIFICATION FairSpec
INVARIANTS SentIffCommitted DuplicatesBounded
PROPERTIES EventuallyPublished ConnectedSees
