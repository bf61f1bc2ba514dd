CONSTANTS
  Jobs = {j1}
  Recipients = {r1, r2}
  Workers = {w1}
  NoJob = NoJob
  Primary = r1
  MaxAttempts = 2
  Limit = 1
  LiveStalls = FALSE
  MaxInterruptions = 1
CHECK_DEADLOCK FALSE
SPECIFICATION Spec
INVARIANTS SuccessIsAudited
