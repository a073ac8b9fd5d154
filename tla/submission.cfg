\* Three clients, two keys or none, a pause and a lost reply.
CONSTANTS
  Client = {c1, c2, c3}
  Key = {k1, k2}
  NoKey = NoKey
  MaxRows = 4
  MaxPauses = 1
  MaxLost = 1
SPECIFICATION FairSpec
INVARIANTS OneJobPerKey AcceptedIsRepeatable
PROPERTY EventuallyAnswered
CHECK_DEADLOCK FALSE
