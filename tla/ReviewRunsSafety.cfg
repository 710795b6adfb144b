SPECIFICATION Spec
CONSTANTS
  Heads = {h1}
  Runs = {r1, r2, r3}
  Claims = {c1, c2, c3, c4}
  NoClaim = NoClaim
  NoHead = NoHead
  Chatter = Chatter
  Stale = 1
  PageSize = 3
  MaxFaults = 1
  MaxForces = 1
  MaxThread = 4
  MaxChatter = 1
SYMMETRY Symmetry
INVARIANTS TypeOK NoStrandedClaim ExclusiveUnlessOvertaken ReviewedHasComment NoDuplicateComment
PROPERTIES ReleaseOwnOnly CoveredStays
CHECK_DEADLOCK FALSE
