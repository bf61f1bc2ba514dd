CONSTANTS
  CheckInEnabled = TRUE
  CheckOutEnabled = TRUE
  BreaksEnabled = TRUE
  MaxBreaks = 1
  ResetMode = "rolling"
  DayLength = 5
  DailyTime = 0
  RollingDuration = 2
  Members = {m1}
  Visitors = {}
  Workers = {w1, w2}
  NoWorker = NoWorker
  NoOne = NoOne
  EmailActions <- MCEmailActions
  MaxClock = 4
  MaxRecords = 4
  MaxOwnerSteps = 1
CHECK_DEADLOCK FALSE
SPECIFICATION Spec
INVARIANTS RollingExpiry BreakCapBeforeCheckOut LastRecordShows NotExpiredEarly
PROPERTIES PresenceNeedsCheckIn
SYMMETRY ThreadSymmetry
