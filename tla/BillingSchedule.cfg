CONSTANTS
  Subs <- OneSubscription
  Times <- ClockTimes
  Intervals = {monthly}
  Grace = 1
  Period = 2
  TrialEnds = 2
  MaxClock = 4
  MaxChanges = 3
  Tolerated = {"behind"}
  Events = {e1, e2}
  Workers = {w1}
  NoEvent = NoEvent
CHECK_DEADLOCK FALSE
SPECIFICATION Spec
SYMMETRY Symmetry
PROPERTY ScheduledForPeriodEnd
