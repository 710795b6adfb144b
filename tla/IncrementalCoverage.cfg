SPECIFICATION Spec
CONSTANTS
  Commits = {c1, c2, c3}
  Runs = {r1, r2}
  Base = Base
  NoCommit = NoCommit
  MaxRecords = 3
SYMMETRY Symmetry
INVARIANTS TypeOK CoverageComplete BaselinesExamined
CHECK_DEADLOCK FALSE
