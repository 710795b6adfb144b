SPECIFICATION FairSpec
CONSTANTS
  Heads = {h1}
  NoHead = NoHead
  Workers = {w1}
  Operators = {}
  Leases = {l1, l2}
  NoLease = NoLease
  Claims = {c1, c2}
  NoClaim = NoClaim
  Chatter = Chatter
  Visibility = 2
  RetryDelay = 1
  TransientBase = 1
  TransientCap = 1
  MaxAttempts = 2
  UnknownMaxAttempts = 1
  Stale = 1
  PageSize = 2
  MaxOutages = 0
  MaxFaults = 0
  MaxForces = 0
  MaxForcedRuns = 0
  MaxThread = 2
  MaxChatter = 0
  MaxChanges = 2
PROPERTIES CompletenessGuarantee
CHECK_DEADLOCK FALSE
