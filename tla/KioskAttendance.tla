--------------------------- MODULE KioskAttendance ---------------------------
(***************************************************************************)
(* Live kiosk attendance of one Group: request threads that perform        *)
(* actions for participants (attendance/views.py, GroupKioskPerformView    *)
(* and attendance/services.py, perform_action_record_from_kiosk), the      *)
(* owner who archives, restores and resets, and the clock.                 *)
(*                                                                         *)
(* One perform request is five steps, in the order of the code: Admit      *)
(* (unlocked checks of the view), Stamp (the view reads timezone.now()),   *)
(* LockRow (select_for_update and the status re-check), ReadState (state   *)
(* derived from committed records), Commit (insert, outbox row, commit).   *)
(* Anything can happen between two of them; Abort is a crash or an error   *)
(* of any kind, which rolls the transaction back and frees the row lock.   *)
(***************************************************************************)
EXTENDS AttendanceRules, Sequences

CONSTANTS
  Members, Visitors,   \* GroupMembership and GroupOnlyParticipant rows
  Workers,             \* concurrent request threads
  NoWorker, NoOne,     \* no lock holder, no participant
  EmailActions,        \* actions with after-action email on and a ready sender
  MaxClock, MaxRecords, MaxOwnerSteps   \* bounds of the exploration

ASSUME KioskAssumption ==
  /\ Members \cap Visitors = {}
  /\ NoWorker \notin Workers
  /\ NoOne \notin Members \cup Visitors
  /\ EmailActions \subseteq ActionTypes
  /\ {MaxClock, MaxRecords, MaxOwnerSteps} \subseteq Nat

VARIABLES
  clock,          \* timezone.now()
  records,        \* ActionRecord rows of the Group; the index is the id
  outbox,         \* ids of the records that have a GroupEmailOutboxJob
  manualResetAt,  \* KioskSettings.manual_reset_at, NoBoundary when null
  groupActive,    \* Group.status
  rowActive,      \* status of the participation row
  memberActive,   \* Member.status of a membership's member
  rowLock,        \* row lock of select_for_update on the participation row
  request,        \* what each request thread carries between its steps
  windowOf,       \* history: boundary under which each record was admitted
  ownerSteps      \* history: number of owner operations, to bound them

vars == <<clock, records, outbox, manualResetAt, groupActive, rowActive,
          memberActive, rowLock, request, windowOf, ownerSteps>>
ownerVars == <<manualResetAt, groupActive, rowActive, memberActive, ownerSteps>>

Participants == Members \cup Visitors

(* Entries of participant p among the first n records. *)
History(rs, p, n) ==
  {[id |-> i, action |-> rs[i].action, at |-> rs[i].at] :
     i \in {k \in 1 .. n : rs[k].who = p}}

OwnHistory(p) == History(records, p, Len(records))

(* A thread with no request in hand.                                       *)
Idle == [pc |-> "idle", who |-> NoOne, action |-> "none", at |-> 0,
         window |-> NoBoundary]

InFlight == {w \in Workers : request[w].pc # "idle"}

Init ==
  /\ clock = 1
  /\ records = <<>>
  /\ outbox = {}
  /\ manualResetAt = NoBoundary
  /\ groupActive = TRUE
  /\ rowActive = [p \in Participants |-> TRUE]
  /\ memberActive = [p \in Members |-> TRUE]
  /\ rowLock = [p \in Participants |-> NoWorker]
  /\ request = [w \in Workers |-> Idle]
  /\ windowOf = <<>>
  /\ ownerSteps = 0
-----------------------------------------------------------------------------
(* The perform request.                                                    *)

(* Unlocked checks: the Group is not archived, the participant is          *)
(* operational.  The Group object read here is used to the end.            *)
Admit(w, p, a) ==
  /\ request[w].pc = "idle"
  /\ groupActive
  /\ rowActive[p]
  /\ p \in Members => memberActive[p]
  /\ Len(records) + Cardinality(InFlight) < MaxRecords
  /\ request' = [request EXCEPT ![w].pc = "admitted", ![w].who = p, ![w].action = a]
  /\ UNCHANGED <<clock, records, outbox, rowLock, windowOf, ownerVars>>

(* Mutant: the request carries no time of its own.                         *)
StampNothing(w) ==
  /\ request[w].pc = "admitted"
  /\ request' = [request EXCEPT ![w].pc = "stamped"]
  /\ UNCHANGED <<clock, records, outbox, rowLock, windowOf, ownerVars>>

(* The view passes now=timezone.now(); card PINs were checked before it.   *)
Stamp(w) ==
  /\ request[w].pc = "admitted"
  /\ request' = [request EXCEPT ![w].pc = "stamped", ![w].at = clock]
  /\ UNCHANGED <<clock, records, outbox, rowLock, windowOf, ownerVars>>

(* Mutant: the status is not checked again.                                *)
NotCheckedAgain(p) == TRUE

(* select_for_update waits for the row; a membership is checked again on   *)
(* the locked row, a group-only participant is not.                        *)
StillOperational(p) == p \in Members => rowActive[p] /\ memberActive[p]

(* Mutant: a plain read of the row, without FOR UPDATE.                    *)
ReadRowUnlocked(w) ==
  /\ request[w].pc = "stamped"
  /\ request' = [request EXCEPT ![w] =
       IF StillOperational(@.who) THEN [@ EXCEPT !.pc = "locked"] ELSE Idle]
  /\ UNCHANGED <<clock, records, outbox, rowLock, windowOf, ownerVars>>

LockRow(w) ==
  /\ request[w].pc = "stamped"
  /\ LET p == request[w].who
     IN  /\ rowLock[p] = NoWorker
         /\ IF StillOperational(p)
              THEN /\ rowLock' = [rowLock EXCEPT ![p] = w]
                   /\ request' = [request EXCEPT ![w].pc = "locked"]
              ELSE /\ request' = [request EXCEPT ![w] = Idle]
                   /\ UNCHANGED rowLock
  /\ UNCHANGED <<clock, records, outbox, windowOf, ownerVars>>

(* Mutant: the captured time is not handed on to the state computation.    *)
JudgedAtReadTime(w) == clock

JudgedAt(w) == request[w].at

(* compute_current_attendance_state and get_valid_actions_for_state; an    *)
(* invalid action raises and ends the transaction.                         *)
ReadState(w) ==
  /\ request[w].pc = "locked"
  /\ LET r == request[w]
         b == EffectiveBoundary(OwnHistory(r.who), manualResetAt, JudgedAt(w))
         s == AttendanceState(OwnHistory(r.who), b)
     IN  IF r.action \in ValidActions(s)
           THEN /\ request' = [request EXCEPT
                     ![w].pc = "decided", ![w].window = b]
                /\ UNCHANGED rowLock
           ELSE /\ request' = [request EXCEPT ![w] = Idle]
                /\ rowLock' = [rowLock EXCEPT ![r.who] = NoWorker]
  /\ UNCHANGED <<clock, records, outbox, windowOf, ownerVars>>

(* ActionRecord.objects.create and the outbox row, then the commit.        *)
Commit(w) ==
  /\ request[w].pc = "decided"
  /\ LET r == request[w]
     IN  /\ records' = Append(records, [who |-> r.who, action |-> r.action, at |-> r.at])
         /\ outbox' = IF r.action \in EmailActions
                        THEN outbox \cup {Len(records) + 1} ELSE outbox
         /\ windowOf' = Append(windowOf, r.window)
         /\ rowLock' = [rowLock EXCEPT ![r.who] = NoWorker]
  /\ request' = [request EXCEPT ![w] = Idle]
  /\ UNCHANGED <<clock, ownerVars>>

(* A crash, an error or a closed connection: the transaction rolls back.   *)
Abort(w) ==
  /\ request[w].pc # "idle"
  /\ request' = [request EXCEPT ![w] = Idle]
  /\ rowLock' = [p \in Participants |-> IF rowLock[p] = w THEN NoWorker ELSE rowLock[p]]
  /\ UNCHANGED <<clock, records, outbox, windowOf, ownerVars>>
-----------------------------------------------------------------------------
(* Owner operations and time.                                              *)

OwnerStep ==
  /\ ownerSteps < MaxOwnerSteps
  /\ ownerSteps' = ownerSteps + 1
  /\ UNCHANGED <<clock, records, outbox, rowLock, request, windowOf>>

ResetNow ==
  /\ OwnerStep
  /\ groupActive
  /\ manualResetAt' = clock
  /\ UNCHANGED <<groupActive, rowActive, memberActive>>

ArchiveGroup ==
  /\ OwnerStep
  /\ groupActive
  /\ groupActive' = FALSE
  /\ UNCHANGED <<manualResetAt, rowActive, memberActive>>

RestoreGroup ==
  /\ OwnerStep
  /\ ~groupActive
  /\ groupActive' = TRUE
  /\ UNCHANGED <<manualResetAt, rowActive, memberActive>>

(* Membership.deactivate and GroupOnlyParticipant.archive save the row, so *)
(* the UPDATE waits for the row lock.                                      *)
DeactivateRow(p) ==
  /\ OwnerStep
  /\ rowActive[p]
  /\ rowLock[p] = NoWorker
  /\ rowActive' = [rowActive EXCEPT ![p] = FALSE]
  /\ UNCHANGED <<manualResetAt, groupActive, memberActive>>

(* Adding the member to the Group again reactivates the same row.  An      *)
(* archived group-only participant is never restored.                      *)
ReactivateMembership(m) ==
  /\ OwnerStep
  /\ ~rowActive[m]
  /\ memberActive[m]
  /\ groupActive
  /\ rowLock[m] = NoWorker
  /\ rowActive' = [rowActive EXCEPT ![m] = TRUE]
  /\ UNCHANGED <<manualResetAt, groupActive, memberActive>>

(* Member.status is another row: no perform request locks it.              *)
ToggleMember(m) ==
  /\ OwnerStep
  /\ memberActive' = [memberActive EXCEPT ![m] = ~@]
  /\ UNCHANGED <<manualResetAt, groupActive, rowActive>>

Tick ==
  /\ clock < MaxClock
  /\ clock' = clock + 1
  /\ UNCHANGED <<records, outbox, rowLock, request, windowOf, ownerVars>>
-----------------------------------------------------------------------------
Perform(w) ==
  \/ \E p \in Participants, a \in ActionTypes : Admit(w, p, a)
  \/ Stamp(w)
  \/ LockRow(w)
  \/ ReadState(w)
  \/ Commit(w)
  \/ Abort(w)

Owner ==
  \/ ResetNow
  \/ ArchiveGroup
  \/ RestoreGroup
  \/ \E p \in Participants : DeactivateRow(p)
  \/ \E m \in Members : ReactivateMembership(m) \/ ToggleMember(m)

Next == (\E w \in Workers : Perform(w)) \/ Owner \/ Tick

Spec == Init /\ [][Next]_vars
-----------------------------------------------------------------------------
RequestType ==
  [pc : {"idle", "admitted", "stamped", "locked", "decided"},
   who : Participants \cup {NoOne},
   action : ActionTypes \cup {"none"},
   at : Nat, window : Int]

(* Every variable has its type; a request past its admission names a       *)
(* participant and an action.                                              *)
TypeOK ==
  /\ clock \in Nat \ {0}
  /\ records \in Seq([who : Participants, action : ActionTypes, at : Nat \ {0}])
  /\ outbox \subseteq 1 .. Len(records)
  /\ manualResetAt \in Nat
  /\ groupActive \in BOOLEAN
  /\ rowActive \in [Participants -> BOOLEAN]
  /\ memberActive \in [Members -> BOOLEAN]
  /\ rowLock \in [Participants -> Workers \cup {NoWorker}]
  /\ request \in [Workers -> RequestType]
  /\ \A w \in InFlight : request[w].who # NoOne /\ request[w].action # "none"
  /\ \A w \in InFlight : request[w].pc # "admitted" => request[w].at > 0
  /\ windowOf \in Seq(Int)
  /\ Len(windowOf) = Len(records)
  /\ ownerSteps \in Nat

(* Serializability of concurrent performs: every ActionRecord was valid in *)
(* the state derived from exactly the records committed before it, under   *)
(* the boundary its request read.  Two requests can never both succeed on  *)
(* the same pre-action state (services.py:260-261).                        *)
SerializedLegality ==
  \A i \in 1 .. Len(records) :
    records[i].action \in
      ValidActions(AttendanceState(History(records, records[i].who, i - 1), windowOf[i]))

(* No record is ever committed for a membership that is inactive at that   *)
(* moment: the status is checked on the locked row and a deactivation      *)
(* waits for the lock (services.py:269-273).                               *)
MembershipGate ==
  [][\A m \in Members :
       (\E i \in 1 .. Len(records') : i > Len(records) /\ records'[i].who = m)
         => rowActive[m]]_vars

CurrentState(p) ==
  AttendanceState(OwnHistory(p), EffectiveBoundary(OwnHistory(p), manualResetAt, clock))

(* A participant becomes checked in only by a check-in of their own that   *)
(* commits in that step: not by time passing, not by a Rolling window that *)
(* opens up again over old records, not by Reset now.                      *)
PresenceNeedsCheckIn ==
  [][\A p \in Participants :
       ~CurrentState(p).isCheckedIn /\ CurrentState(p)'.isCheckedIn
         => \E i \in 1 .. Len(records') :
              /\ i > Len(records)
              /\ records'[i].who = p
              /\ records'[i].action = "check_in"]_vars

(* In Rolling mode nobody stays checked in for the configured duration or  *)
(* longer after their newest check-in (attendance_reset.py:98-105).        *)
RollingExpiry ==
  ResetMode = "rolling" =>
    \A p \in Participants :
      CurrentState(p).isCheckedIn =>
        clock < Newest(OfType(OwnHistory(p), "check_in")).at + RollingDuration

(* A record lies inside the window its request was judged by, however late *)
(* its lock was granted, unless a Reset now came in between: the same      *)
(* captured time selects the window and dates the record (services.py:     *)
(* 265-284).                                                               *)
RecordInItsWindow ==
  \A i \in 1 .. Len(records) :
    windowOf[i] > records[i].at => windowOf[i] <= manualResetAt
-----------------------------------------------------------------------------
(* The derivation compared with a reading of the history in commit order.  *)
Ids(p, T) == {i \in 1 .. Len(records) : records[i].who = p /\ records[i].action \in T}

(* A request that waited for the row lock may commit after a younger one   *)
(* with an older time; elsewhere the order of commits is the order of time. *)
InOrder == \A i, j \in 1 .. Len(records) : i < j => records[i].at <= records[j].at

(* An independent reading of the last committed record: someone whose last *)
(* record is a check-in of the current window is checked in, with a        *)
(* check-out is not, and a break that was started and not ended before any *)
(* check-out shows as a break.                                             *)
LastRecordShows ==
  InOrder => \A p \in Participants :
    LET mine == Ids(p, ActionTypes)
        last == CHOOSE i \in mine : \A j \in mine : j <= i
        b    == EffectiveBoundary(OwnHistory(p), manualResetAt, clock)
    IN  mine # {} =>
          /\ records[last].action = "check_in" /\ records[last].at >= b
               => CurrentState(p).isCheckedIn
          /\ records[last].action = "check_out" => ~CurrentState(p).isCheckedIn
          /\ (/\ records[last].action = "break_start"
              /\ CurrentState(p).isCheckedIn
              /\ Ids(p, {"check_out"}) = {}) => CurrentState(p).isOnBreak

(* Rolling mode: a check-in younger than the duration that no check-out or *)
(* Reset now followed still counts.                                        *)
NotExpiredEarly ==
  ResetMode = "rolling" /\ InOrder =>
    \A p \in Participants : \A i \in Ids(p, {"check_in"}) :
      (/\ \A j \in Ids(p, {"check_in", "check_out"}) : j <= i
       /\ records[i].at >= manualResetAt
       /\ clock < records[i].at + RollingDuration) => CurrentState(p).isCheckedIn

(* Ids of the break starts of the cycle that check-in i opens: up to the   *)
(* participant's next check-in.                                            *)
BreaksOfCycle(p, i) ==
  {b \in Ids(p, {"break_start"}) : b > i /\ ~\E j \in Ids(p, {"check_in"}) : i < j /\ j < b}

(* The cap where the code can keep it: a cycle with no earlier check-out.  *)
BreakCapBeforeCheckOut ==
  InOrder => \A p \in Participants : \A i \in Ids(p, {"check_in"}) :
    (\A o \in Ids(p, {"check_out"}) : o > i) =>
      Cardinality(BreaksOfCycle(p, i)) <= MaxBreaks
=============================================================================
