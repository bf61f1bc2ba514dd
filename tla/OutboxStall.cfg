CONSTANTS
  Jobs = {j1, j2}
  Recipients = {r1}
  Workers = {w1, w2}
  NoJob = NoJob
  Primary = r1
  MaxAttempts = 2
  Limit = 2
  LiveStalls = TRUE
  MaxInterruptions = 1
CHECK_DEADLOCK FALSE
SPECIFICATION FairSpec
INVARIANTS SuccessIsReal
PROPERTIES EveryJobEnds
