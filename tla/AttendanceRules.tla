--------------------------- MODULE AttendanceRules ---------------------------
(***************************************************************************)
(* The pure rules of live attendance: which records of a participant count *)
(* (the Attendance Reset boundary) and which state and allowed actions     *)
(* follow from them.  No state of its own: attendance/services.py derives  *)
(* everything "strictly from ActionRecords".                               *)
(*                                                                         *)
(* A participant's history is a set E of entries [id, action, at]; id is   *)
(* the primary key (commit order), at is performed_at.  Time is a natural  *)
(* number of ticks starting at 1, so 0 stands for the absent boundary:     *)
(* performed_at >= 0 filters nothing.  Calendar, time zone and daylight    *)
(* saving are reduced to a day of DayLength ticks.                         *)
(***************************************************************************)
EXTENDS Integers, FiniteSets

CONSTANTS
  CheckInEnabled, CheckOutEnabled, BreaksEnabled, \* Group action switches
  MaxBreaks,         \* Group.max_breaks
  ResetMode,         \* KioskSettings.attendance_reset_mode
  DayLength,         \* ticks in one day
  DailyTime,         \* attendance_reset_daily_time, a tick of the day
  RollingDuration    \* attendance_reset_rolling_hours and _minutes, in ticks

ASSUME RulesAssumption ==
  /\ {CheckInEnabled, CheckOutEnabled, BreaksEnabled} \subseteq BOOLEAN
  /\ MaxBreaks \in Nat
  /\ ResetMode \in {"daily", "rolling"}
  /\ DayLength \in Nat \ {0}
  /\ DailyTime \in 0 .. DayLength - 1
  /\ RollingDuration \in Nat \ {0}

ActionTypes == {"check_in", "check_out", "break_start", "break_end"}

NoBoundary == 0

Later(s, t) == IF s >= t THEN s ELSE t

-----------------------------------------------------------------------------
(* Order of the records, attendance/services.py.                           *)

IsNewer(e, f) == e.at > f.at \/ (e.at = f.at /\ e.id > f.id)

OfType(E, a) == {e \in E : e.action = a}

Newest(E) == CHOOSE e \in E : \A f \in E \ {e} : IsNewer(e, f)

(* left is newer than right, where either may be missing. *)
LastIsNewer(L, R) == L # {} /\ (R = {} \/ IsNewer(Newest(L), Newest(R)))

-----------------------------------------------------------------------------
(* Attendance Reset, kiosk_builder/attendance_reset.py.                    *)

(* Mutant: the query for the last check-in misses the boundary filter.     *)
RecordsFromAndCheckIns(E, boundary) ==
  {e \in E : e.at >= boundary \/ e.action = "check_in"}

RecordsFrom(E, boundary) == {e \in E : e.at >= boundary}

DailyBoundary(now) == now - ((now - DailyTime) % DayLength)

(* Mutant: the window hangs on the earliest record, not the last check-in. *)
AnchorAtEarliestRecord(E) ==
  CHOOSE t \in {e.at : e \in E} : \A e \in E : t <= e.at

RollingAnchor(E) ==
  LET ins == OfType(E, "check_in")
  IN  IF ins # {} THEN Newest(ins).at
      ELSE CHOOSE t \in {e.at : e \in E} : \A e \in E : t <= e.at

(* Mutant: the cycle still counts at the very instant it expires.          *)
RollingBoundaryLate(E, manual, now) ==
  LET scoped  == RecordsFrom(E, manual)
      expires == RollingAnchor(scoped) + RollingDuration
  IN  IF scoped = {} \/ now <= expires THEN manual ELSE Later(manual, expires)

(* Mutant: the comparison is the wrong way round.                          *)
RollingBoundarySwapped(E, manual, now) ==
  LET scoped  == RecordsFrom(E, manual)
      expires == RollingAnchor(scoped) + RollingDuration
  IN  IF scoped = {} \/ now >= expires THEN manual ELSE Later(manual, expires)

RollingBoundary(E, manual, now) ==
  LET scoped  == RecordsFrom(E, manual)
      expires == RollingAnchor(scoped) + RollingDuration
  IN  IF scoped = {} \/ now < expires THEN manual ELSE Later(manual, expires)

EffectiveBoundary(E, manual, now) ==
  IF ResetMode = "daily"
    THEN Later(manual, DailyBoundary(now))
    ELSE RollingBoundary(E, manual, now)

-----------------------------------------------------------------------------
(* Current state and valid actions, attendance/services.py.                *)

CheckedOutState == [isCheckedIn |-> FALSE, isOnBreak |-> FALSE, breakCount |-> 0]

IsCheckedIn(W) == LastIsNewer(OfType(W, "check_in"), OfType(W, "check_out"))

(* Mutant: records of the instant of the check-in are left out.            *)
CycleRecordsAfter(W) ==
  {e \in W : /\ e.at > Newest(OfType(W, "check_in")).at
             /\ OfType(W, "check_out") # {} => e.at < Newest(OfType(W, "check_out")).at}

(* Records of the current cycle as the code selects them: from the last    *)
(* check-in, and before the last check-out whenever there is one.          *)
CycleRecords(W) ==
  LET start == Newest(OfType(W, "check_in")).at
      outs  == OfType(W, "check_out")
  IN  {e \in W : e.at >= start /\ (outs # {} => e.at < Newest(outs).at)}

AttendanceState(E, boundary) ==
  LET W      == RecordsFrom(E, boundary)
      cycle  == CycleRecords(W)
      starts == OfType(cycle, "break_start")
  IN  IF ~IsCheckedIn(W) THEN CheckedOutState
      ELSE [isCheckedIn |-> TRUE,
            isOnBreak   |-> LastIsNewer(starts, OfType(cycle, "break_end")),
            breakCount  |-> Cardinality(starts)]

(* Mutant: one break more than max_breaks.                                 *)
OneBreakMore(st) == ~st.isOnBreak /\ st.breakCount <= MaxBreaks

MayStartBreak(st) == ~st.isOnBreak /\ st.breakCount < MaxBreaks

ValidActions(st) ==
  (IF CheckInEnabled /\ ~st.isCheckedIn THEN {"check_in"} ELSE {})
  \cup
  (IF CheckOutEnabled /\ ((st.isCheckedIn /\ ~st.isOnBreak) \/ ~CheckInEnabled)
     THEN {"check_out"} ELSE {})
  \cup
  (IF BreaksEnabled /\ st.isCheckedIn /\ MayStartBreak(st)
     THEN {"break_start"} ELSE {})
  \cup
  (IF BreaksEnabled /\ st.isCheckedIn /\ st.isOnBreak THEN {"break_end"} ELSE {})
=============================================================================
