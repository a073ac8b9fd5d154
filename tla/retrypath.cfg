\* Two failing jobs over two connections, 12-bit integers.
CONSTANTS
  Job = {j1, j2}
  Policies <- ThreePolicies
  NoPolicy = NoPolicy
  MaxAttempts = 10
  Pool = 2
  Width = 12
  MaxSeconds = 1000
SPECIFICATION FairSpec
INVARIANTS PoolConserved BackoffAsIntended
PROPERTIES BegunIsRecorded TransactionsEnd
