CONSTANTS
  CheckInEnabled = TRUE
  CheckOutEnabled = TRUE
  BreaksEnabled = TRUE
  MaxBreaks = 1
  ResetMode = "daily"
  DayLength = 9
  DailyTime = 0
  RollingDuration = 1
  Members = {m1}
  Visitors = {}
  Workers = {w1}
  NoWorker = NoWorker
  NoOne = NoOne
  EmailActions <- MCEmailActions
  MaxClock = 6
  MaxRecords = 6
  MaxOwnerSteps = 0
CHECK_DEADLOCK FALSE
SPECIFICATION Spec
INVARIANTS BreakCapPerCycle
