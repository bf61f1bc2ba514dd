CONSTANTS
  CheckInEnabled = TRUE
  CheckOutEnabled = TRUE
  BreaksEnabled = TRUE
  MaxBreaks = 1
  ResetMode = "daily"
  DayLength = 2
  DailyTime = 1
  RollingDuration = 1
  Members = {m1}
  Visitors = {v1}
  Workers = {w1, w2}
  NoWorker = NoWorker
  NoOne = NoOne
  EmailActions <- MCEmailActions
  MaxClock = 3
  MaxRecords = 3
  MaxOwnerSteps = 2
SYMMETRY ThreadSymmetry
CHECK_DEADLOCK FALSE
SPECIFICATION Spec
INVARIANTS TypeOK SerializedLegality RecordInItsWindow
PROPERTIES MembershipGate PresenceNeedsCheckIn
