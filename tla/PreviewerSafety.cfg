SPECIFICATION Spec
CONSTANTS
  Heads = {h1}
  NoHead = NoHead
  Workers = {w1, w2}
  Operators = {o1}
  Leases = {l1, l2}
  NoLease = NoLease
  Claims = {c1, c2}
  NoClaim = NoClaim
  Chatter = Chatter
  Visibility = 1
  RetryDelay = 0
  TransientBase = 1
  TransientCap = 1
  MaxAttempts = 2
  UnknownMaxAttempts = 1
  Stale = 0
  PageSize = 2
  MaxOutages = 0
  MaxFaults = 1
  MaxForces = 1
  MaxForcedRuns = 2
  MaxThread = 1
  MaxChatter = 0
  MaxChanges = 0
SYMMETRY Symmetry
INVARIANTS DoneMeansCovered
CHECK_DEADLOCK FALSE
