SPECIFICATION RunnerSpec
CONSTANTS
  ParseAttempts = 3
  AttemptCap = 3
  UnknownCap = 2
INVARIANT GitRefusalsBounded
\* a job comes to its end
CHECK_DEADLOCK FALSE
