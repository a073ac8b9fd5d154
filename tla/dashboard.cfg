\* Two projects, two queues, two clicks anywhere in between the replies.
CONSTANTS
  NumProjects = 2
  NumQueues = 2
  MaxActions = 2
SPECIFICATION FairSpec
INVARIANTS QueueIsListed BusyWithOneForm ViewMatches
PROPERTY FormsUnlock
CHECK_DEADLOCK FALSE
