SPECIFICATION Spec
CONSTANTS
  Heads = {h1}
  Runs = {r1, r2}
  Claims = {c1, c2, c3, c4}
  NoClaim = NoClaim
  NoHead = NoHead
  Chatter = Chatter
  Stale = 1
  PageSize = 3
  MaxFaults = 0
  MaxForces = 0
  MaxThread = 4
  MaxChatter = 0
SYMMETRY Symmetry
INVARIANTS OneCommentPerHead
CHECK_DEADLOCK FALSE
