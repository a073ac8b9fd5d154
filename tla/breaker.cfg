\* Three callers, two outages.
CONSTANTS
  Caller = {c1, c2, c3}
  Threshold = 2
  MaxOutages = 2
SPECIFICATION FairSpec
INVARIANTS FailuresTrip
PROPERTY Recovers
