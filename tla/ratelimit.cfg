\* Three requests in flight, their scripts in any order, delays of up to a second
CONSTANTS
  Request = {r1, r2, r3}
  Capacity = 2
  Refill = 1
  Ttl = 3
  MaxDelay = 1
  MaxTime = 5
SYMMETRY Symmetry
SPECIFICATION Spec
INVARIANTS WindowBound
CHECK_DEADLOCK FALSE
