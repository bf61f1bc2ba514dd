CONSTANTS
  Jobs = {j1, j2}
  Recipients = {r1, r2}
  Workers = {w1, w2}
  NoJob = NoJob
  Primary = r1
  MaxAttempts = 2
  Limit = 2
  LiveStalls = FALSE
  MaxInterruptions = 1
CHECK_DEADLOCK FALSE
SPECIFICATION Spec
SYMMETRY Symmetry
INVARIANTS TypeOK OneOwner NeverResend SuccessIsReal AttemptsBounded AuditedUnlessBrokenOff
PROPERTIES TerminalIsFinal KeepsPromise
