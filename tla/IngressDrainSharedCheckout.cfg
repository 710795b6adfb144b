SPECIFICATION Spec
CONSTANTS
  Jobs = {j1, j2}
  Drains = {d1, d2}
  Sweeper = Sweeper
  Nobody = Nobody
  Visibility = 2
  Backoff = 2
  MaxWake = 1
  Startup = TRUE
  PromptWake = TRUE
  MaxOutages = 0
  MaxUpsets = 0
INVARIANTS ReviewsOwnHead
CHECK_DEADLOCK FALSE
