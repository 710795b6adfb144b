SPECIFICATION FairSpec
CONSTANTS
  Jobs = {j1, j2}
  Drains = {d1, d2}
  Sweeper = Sweeper
  Nobody = Nobody
  Visibility = 1
  Backoff = 2
  MaxWake = 1
  Startup = TRUE
  PromptWake = TRUE
  MaxOutages = 1
  MaxUpsets = 1
INVARIANTS TypeOK NoSleepingJob
PROPERTIES CheckoutKept JobsFinish
CHECK_DEADLOCK FALSE
