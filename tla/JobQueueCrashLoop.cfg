SPECIFICATION Spec
CONSTANTS
  Keys = {k1}
  Workers = {w1}
  Leases = {l1, l2, l3}
  NoLease = NoLease
  NoKey = NoKey
  Visibility = 1
  RetryDelay = 1
  TransientBase = 1
  TransientCap = 1
  MaxAttempts = 2
  UnknownMaxAttempts = 1
  MaxOutages = 1
  MaxFaults = 3
  MaxForces = 0
INVARIANTS AttemptsBounded
CHECK_DEADLOCK FALSE
