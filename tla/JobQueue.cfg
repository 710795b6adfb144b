SPECIFICATION FairSpec
CONSTANTS
  Keys = {k1, k2}
  Workers = {w1, w2}
  Leases = {l1, l2, l3}
  NoLease = NoLease
  NoKey = NoKey
  Visibility = 1
  RetryDelay = 1
  TransientBase = 1
  TransientCap = 1
  MaxAttempts = 3
  UnknownMaxAttempts = 2
  MaxOutages = 1
  MaxFaults = 1
  MaxForces = 1
INVARIANTS TypeOK LeaseDiscipline AttemptsAccounting DeadLetterEarned
PROPERTIES StaleVerdictIgnored ImplementsDelivery JobsSettle
\* every job may be settled and every bound used up
CHECK_DEADLOCK FALSE
