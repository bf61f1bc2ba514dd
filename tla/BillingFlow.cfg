CONSTANTS
  Subs <- OneSubscription
  Times <- ClockTimes
  Intervals = {monthly}
  Grace = 1
  Period = 2
  TrialEnds = 2
  MaxClock = 3
  MaxChanges = 3
  Tolerated = {}
  Events = {e1, e2}
  Workers = {w1, w2}
  NoEvent = NoEvent
CHECK_DEADLOCK FALSE
SPECIFICATION Spec
SYMMETRY Symmetry
INVARIANTS TypeOK OneDispatcher PlanFollowsRow NothingForgotten EndedAgrees QuietAgrees BlockedEnds
PROPERTIES GraceHonoured DowngradeAwaitsPeriod
