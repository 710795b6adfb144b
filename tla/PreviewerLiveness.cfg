SPECIFICATION LiveSpec
CONSTANTS
  Heads = {h1, h2}
  NoHead = NoHead
  Workers = {w1}
  Operators = {}
  Leases = {l1, l2}
  NoLease = NoLease
  Claims = {c1, c2, c3}
  NoClaim = NoClaim
  Chatter = Chatter
  Visibility = 1
  RetryDelay = 0
  TransientBase = 1
  TransientCap = 1
  MaxAttempts = 2
  UnknownMaxAttempts = 1
  Stale = 0
  PageSize = 2
  MaxOutages = 0
  MaxFaults = 1
  MaxForces = 0
  MaxForcedRuns = 0
  MaxThread = 2
  MaxChatter = 0
  MaxChanges = 1
PROPERTIES UncoveredGetReviewed
CHECK_DEADLOCK FALSE
