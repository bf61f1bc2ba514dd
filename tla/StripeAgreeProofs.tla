-------------------------- MODULE StripeAgreeProofs --------------------------
(***************************************************************************)
(* When everything is quiet and no flaw has occurred, the row says what    *)
(* Stripe says of a running subscription, and a blocked workspace is       *)
(* charged no more: QuietAgrees and BlockedEnds of StripeBilling, for      *)
(* every number of subscriptions, events and workers, every set of         *)
(* intervals and every length of the period.                               *)
(*                                                                         *)
(* Neither is inductive: before everything is quiet the row may say        *)
(* anything that an event not yet applied will correct.  So the row is     *)
(* followed together with what is left to be applied (Left): AccordInv     *)
(* says that it agrees with Stripe, or that reports are left that bring it *)
(* there; two, where the rules of BillingRules need two answers (a plan    *)
(* that is raised before the interval follows, a lowered plan that is to   *)
(* end, a deferred row).  What an answer brings depends on how old it is   *)
(* and on what the row waits for, which is what the invariants before it   *)
(* are about:                                                              *)
(*   BasicInv    subscriptions are made one after the other;               *)
(*   TidyInv     without a flaw only a paid row has Plus, and what is      *)
(*               pending in a row is an end or a change of plan;           *)
(*   AnswersFit  an answer in flight that is older than Stripe's present   *)
(*               is followed by the reports that correct it;               *)
(*   OwnerFits   what the owner has been answered Stripe still has;        *)
(*   WaitFits    the change a row waits for is the one Stripe has          *)
(*               scheduled, or has made, or the owner is about to replace. *)
(***************************************************************************)
EXTENDS StripePeriodProofs

-----------------------------------------------------------------------------
(* The newest subscription, and what a step makes of it: nothing, or a     *)
(* turn.                                                                   *)

Latest == stripe[Newest]
NextOf(t) == <<t.nextPlan, t.nextInterval>>

(* Subscriptions are made in their order, one after the other; a deferred  *)
(* one starts with the end of the free week; whatever is in flight is      *)
(* about one that has been made; and a paid period is cancelled or resumed *)
(* by its owner after the free week.                                       *)
OneLive  == \A s \in Subs : IsLive(s) => s = Newest
InOrder  == \A s, t \in Subs : t < s /\ s \in Used => t \in Used
Deferred == \A s \in Subs : stripe[s].trialEnd \in {NoTime, Ends}
FlightUsed == \A a \in Flight : a.snap.sub \in Used
OwnerLate == owner.pc # "idle" /\ owner.op \in {"cancel", "resume"} => clock >= Ends
PaidDates  == \A s \in Subs : stripe[s].status \in Paying => stripe[s].end > Ends
FlightDates ==
  \A a \in Flight :
    /\ a.snap.status \in Paying => a.snap.end > Ends
    /\ a.snap.status = "trialing" => a.snap.end = Ends
BasicInv ==
  OneLive /\ InOrder /\ Deferred /\ FlightUsed /\ OwnerLate /\ PaidDates /\ FlightDates
-----------------------------------------------------------------------------
LEMMA NewestIs ==
  ASSUME NEW s \in Used, \A t \in Used : t <= s
  PROVE  Newest = s
<1>1. PICK n \in Nat : Subs = 1 .. n
  BY BillingAssumption
<1>2. Used # {} /\ Used \subseteq 1 .. n
  BY <1>1 DEF Used
<1>3. Newest = CHOOSE u \in Used : \A t \in Used : t <= u
  BY <1>2 DEF Newest
<1>4. Newest \in Used /\ \A t \in Used : t <= Newest
  BY <1>3
<1>5. Newest <= s /\ s <= Newest /\ s \in Int /\ Newest \in Int
  BY <1>2, <1>4
<1>6. QED
  BY <1>5

LEMMA LiveNewest ==
  ASSUME OneLive, NEW s \in Subs, IsLive(s)
  PROVE  s = Newest /\ Newest # NoSub
<1>1. s \in Used
  BY DEF Used, IsLive, Live
<1>2. QED
  BY <1>1, NewestIsLast DEF OneLive

(* A purchase makes the next subscription the newest.                      *)
LEMMA Bought ==
  ASSUME IInv, InOrder, Subscribe
  PROVE  \E s \in Subs :
           /\ s \notin Used /\ Used' = Used \cup {s} /\ Newest' = s
           /\ ws.row.status \notin Live /\ \A t \in Subs : ~IsLive(t)
           /\ \A t \in Subs : t < s => t \in Used
           /\ \A t \in Subs \ {s} : stripe'[t] = stripe[t]
           /\ \E q \in {stripe'[s]} :
                /\ q.status \in {"trialing", "active"} /\ ~q.cancel /\ q.nextPlan = "none"
                /\ q.status = "trialing" => q.end = Ends /\ q.trialEnd = Ends /\ clock < Ends
                /\ q.status = "active" => q.trialEnd = NoTime /\ q.end = clock + Period /\ clock >= Ends
           /\ Change(s, stripe'[s], {"checkout"})
           /\ version' = version + 1 /\ Ends' = Ends
<1>1. PICK s \in Subs, p \in PaidPlans, i \in Intervals :
        /\ stripe[s].status = "none"
        /\ \A t \in Subs : t < s => stripe[t].status # "none"
        /\ \A t \in Subs : ~IsLive(t)
        /\ ws.row.status \notin Live
        /\ LET waits == TrialActive(ws, clock)
               end == IF waits THEN ws.trial.ends ELSE clock + Period IN
           Change(s, [NoSubscription EXCEPT
                        !.status = IF waits THEN "trialing" ELSE "active",
                        !.plan = p, !.interval = i, !.end = end,
                        !.trialEnd = IF waits THEN end ELSE NoTime],
                  {"checkout"})
  BY DEF Subscribe
<1>2. PICK q : /\ Change(s, q, {"checkout"})
               /\ q = [NoSubscription EXCEPT
                        !.status = IF TrialActive(ws, clock) THEN "trialing" ELSE "active",
                        !.plan = p, !.interval = i,
                        !.end = IF TrialActive(ws, clock) THEN ws.trial.ends ELSE clock + Period,
                        !.trialEnd = IF TrialActive(ws, clock) THEN
                                        IF TrialActive(ws, clock) THEN ws.trial.ends ELSE clock + Period
                                      ELSE NoTime]
  BY <1>1
<1>3. stripe'[s] = q /\ (\A t \in Subs \ {s} : stripe'[t] = stripe[t]) /\ version' = version + 1
  <2>1. version' = version + 1
    BY <1>2 DEF Change
  <2>2. QED
    BY <1>2, <2>1, ShapeChange
<1>4. TrialActive(ws, clock) <=> clock < Ends
  BY RowKnown DEF TrialActive, IInv, RowInv, Ends, NoTime
<1>5. /\ q.status \in {"trialing", "active"} /\ ~q.cancel /\ q.nextPlan = "none"
      /\ q.status = "trialing" => q.end = Ends /\ q.trialEnd = Ends /\ clock < Ends
      /\ q.status = "active" => q.trialEnd = NoTime /\ q.end = clock + Period /\ clock >= Ends
  BY <1>2, <1>4, RowKnown DEF NoSubscription, Ends
<1>6. s \notin Used /\ Used' = Used \cup {s}
  BY <1>1, <1>3, <1>5 DEF Used
<1>7. Newest' = s
  <2>1. \A t \in Used' : t <= s
    <3>1. ASSUME NEW t \in Used PROVE t <= s
      <4>1. PICK n \in Nat : Subs = 1 .. n
        BY BillingAssumption
      <4>2. s \in Int /\ t \in Int /\ t \in Subs
        BY <3>1, <4>1 DEF Used
      <4>3. ~(s < t)
        BY <1>6, <3>1, <4>2 DEF InOrder
      <4>4. QED
        BY <4>2, <4>3
    <3>2. s <= s
      <4>1. PICK n \in Nat : Subs = 1 .. n
        BY BillingAssumption
      <4>2. QED
        BY <4>1
    <3>3. QED
      BY <1>6, <3>1, <3>2
  <2>2. s \in Used'
    BY <1>6
  <2>3. Newest' = CHOOSE u \in Used' : \A t \in Used' : t <= u
    BY <2>2 DEF Newest
  <2>4. Used' \subseteq Subs
    BY DEF Used
  <2>5. PICK n \in Nat : Subs = 1 .. n
    BY BillingAssumption
  <2>6. Newest' \in Used' /\ \A t \in Used' : t <= Newest'
    BY <2>1, <2>2, <2>3
  <2>7. s <= Newest' /\ Newest' <= s /\ s \in Int /\ Newest' \in Int
    BY <2>1, <2>2, <2>4, <2>5, <2>6
  <2>8. QED
    BY <2>7
<1>8. Ends' = Ends
  BY DEF Subscribe, StripeKeeps, Ends
<1>9. \A t \in Subs : t < s => t \in Used
  BY <1>1 DEF Used
<1>10. Change(s, stripe'[s], {"checkout"})
  BY <1>2, <1>3
<1>11. QED
  BY <1>1, <1>3, <1>5, <1>6, <1>7, <1>8, <1>9, <1>10
-----------------------------------------------------------------------------
(* What a step other than a purchase makes of the newest subscription.     *)
Renewal ==
  /\ StripeKeeps /\ PeriodOver(Newest) /\ ~Latest.cancel
  /\ \/ Change(Newest, Renewed(Latest, "active"), {"paid", "subscription"})
     \/ Change(Newest, Renewed(Latest, "past_due"), {"failed", "subscription"})
Recovery ==
  /\ StripeKeeps /\ Latest.status = "past_due"
  /\ Change(Newest, [Latest EXCEPT !.status = "active"], {"paid", "subscription"})
Closure == Change(Newest, [Latest EXCEPT !.status = "canceled"], {"subscription"})
ToldToEnd ==
  /\ UNCHANGED <<owner, clock>> /\ ~Scheduled(Newest) /\ clock >= Ends
  /\ Change(Newest, [Latest EXCEPT !.cancel = TRUE], {"subscription"})
ToldToGoOn ==
  /\ UNCHANGED <<owner, clock>> /\ ~Scheduled(Newest) /\ clock >= Ends
  /\ applied' = version' \/ Latest.status # "past_due" \/ flaws' # {}
  /\ Change(Newest, [Latest EXCEPT !.cancel = FALSE], {"subscription"})
Called ==
  /\ OwnerCalls /\ owner.op # "confirm" /\ owner.sub = Newest /\ Accepted(Newest)
  /\ Change(Newest, Asked(Newest), IF owner.op = "upgrade" THEN {"subscription", "paid"}
                                   ELSE {"subscription"})
  /\ owner' = [owner EXCEPT !.pc = "called", !.ver = version + 1,
                            !.snap = SnapshotOf(Newest, Asked(Newest))]
  /\ ~Reverts(Newest) \/ flaws' # {}
HoldersStay == \A w \in Workers : worker'[w].event = worker[w].event
Turn ==
  /\ Newest \in Subs /\ IsLive(Newest) /\ HoldersStay
  /\ Renewal \/ Recovery \/ Closure \/ ToldToEnd \/ ToldToGoOn \/ Called

LEMMA TrialIs ==
  ASSUME IInv
  PROVE  TrialActive(ws, clock) <=> clock < Ends
BY RowKnown DEF TrialActive, IInv, RowInv, Ends, NoTime

LEMMA LiveTurns ==
  ASSUME OneLive, NEW s \in Subs, IsLive(s)
  PROVE  s = Newest /\ Newest \in Subs /\ IsLive(Newest) /\ stripe[s] = Latest
BY LiveNewest DEF Latest

(* Stripe is told to end the newest subscription, whatever becomes of the  *)
(* row.                                                                    *)
LEMMA EndTurns ==
  ASSUME IInv, OneLive, NEW x, x.row.sub \in Subs \cup {NoSub}, TellsToEnd(x),
         UNCHANGED <<owner, clock>>, HoldersStay
  PROVE  Turn /\ (Closure \/ ToldToEnd)
<1>0. PICK s \in Subs \cup {NoSub} : s = x.row.sub
  OBVIOUS
<1>1. /\ s \in Subs /\ IsLive(s) /\ (TrialActive(ws, clock) \/ ~Scheduled(s))
      /\ Change(s, CancelledAtStripe(s), {"subscription"})
  BY <1>0 DEF TellsToEnd, CancelAccepted
<1>2. s = Newest /\ IsLive(Newest) /\ stripe[s] = Latest
  BY <1>1, LiveTurns
<1>3. CASE TrialActive(ws, clock)
  BY <1>1, <1>2, <1>3 DEF CancelledAtStripe, Turn, Closure
<1>4. CASE ~TrialActive(ws, clock)
  <2>1. clock >= Ends
    BY <1>4, TrialIs, RowKnown
  <2>2. QED
    BY <1>1, <1>2, <1>4, <2>1 DEF CancelledAtStripe, Turn, ToldToEnd
<1>5. QED
  BY <1>3, <1>4

(* Stripe is told to go on with it.                                        *)
LEMMA GoOnTurns ==
  ASSUME IInv, OneLive, NEW due, due = ApplyDueTransitions(ws, clock), TellsToGoOn(due),
         UNCHANGED <<owner, clock>>, HoldersStay,
         applied' = version' \/ stripe[due.row.sub].status # "past_due" \/ flaws' # {}
  PROVE  /\ Turn /\ ToldToGoOn /\ due.row.sub = Newest
         /\ Change(Newest, [Latest EXCEPT !.cancel = FALSE], {"subscription"})
<1>1. PICK s : s = due.row.sub
  OBVIOUS
<1>2. /\ ~TrialActive(due, clock) /\ s # NoSub /\ IsLive(s) /\ ~Scheduled(s)
      /\ Change(s, [stripe[s] EXCEPT !.cancel = FALSE], {"subscription"})
  BY <1>1 DEF TellsToGoOn
<1>3. Kept(due, ws)
  BY DueKept, RowKnown
<1>4. due.row.sub \in Subs \cup {NoSub} /\ due.trial.ends = Ends /\ Sound(due)
  BY <1>3 DEF Kept, Sound, Workspaces, Rows, Ends
<1>5. s \in Subs
  BY <1>1, <1>2, <1>4
<1>6. s = Newest /\ IsLive(Newest) /\ stripe[s] = Latest
  BY <1>2, <1>5, LiveTurns
<1>7. clock >= Ends
  BY <1>2, <1>3, <1>4, TrialIs, RowKnown DEF TrialActive, Kept, Ends
<1>8. Change(Newest, [Latest EXCEPT !.cancel = FALSE], {"subscription"})
  BY <1>2, <1>6
<1>9. QED
  BY <1>1, <1>2, <1>5, <1>6, <1>7, <1>8 DEF Turn, ToldToGoOn

(* An event rolled back has told Stripe what a blocked row asked for.      *)
LEMMA RolledBackTold ==
  ASSUME IInv, NEW w \in Workers, ApplyRolledBack(w)
  PROVE  /\ \E x : Kept(x, ws) /\ RunsOn(x) /\ TellsToEnd(x)
         /\ worker[w].pc = "ready" /\ worker \in [Workers -> WorkerRecords]
         /\ worker' = [worker EXCEPT ![w].pc = "raised"]
         /\ UNCHANGED <<clock, ws, blocked, owner, applied, flaws>>
<1>1. PICK x \in Dispatched(event[worker[w].event].kind, worker[w].snap) :
        RunsOn(x) /\ TellsToEnd(x)
  BY DEF ApplyRolledBack
<1>2. event[worker[w].event].kind # "failed" => worker[w].snap \in Answers(Ends)
  BY DEF ApplyRolledBack, IInv, WorkerInv
<1>3. Kept(x, ws)
  BY <1>2, DispatchedKept DEF AllKept
<1>4. worker \in [Workers -> WorkerRecords]
  BY DEF IInv, WorkerInv
<1>5. QED
  BY <1>1, <1>3, <1>4 DEF ApplyRolledBack

LEMMA RolledBackTurns ==
  ASSUME IInv, OneLive, NEW w \in Workers, ApplyRolledBack(w)
  PROVE  Turn /\ (Closure \/ ToldToEnd) /\ UNCHANGED <<ws, blocked, owner, clock, applied, flaws>>
<1>1. PICK x : Kept(x, ws) /\ TellsToEnd(x)
  BY RolledBackTold
<1>2. x.row.sub \in Subs \cup {NoSub}
  BY <1>1 DEF Kept, Sound, Workspaces, Rows
<1>3. UNCHANGED <<ws, blocked, owner, clock, applied, flaws>> /\ HoldersStay
  BY RolledBackTold DEF HoldersStay, WorkerRecords
<1>4. QED
  BY <1>1, <1>2, <1>3, EndTurns

LEMMA StepTurns ==
  ASSUME IInv, OneLive, [Next]_vars, ~Subscribe
  PROVE  UNCHANGED <<stripe, version>> \/ Turn
<1>0. ASSUME UNCHANGED worker PROVE HoldersStay
  BY <1>0 DEF HoldersStay
<1>1. CASE PeriodEnds
  <2>1. PICK s \in Subs :
          /\ PeriodOver(s)
          /\ IF stripe[s].cancel
             THEN Change(s, [stripe[s] EXCEPT !.status = "canceled"], {"subscription"})
             ELSE \/ Change(s, Renewed(stripe[s], "active"), {"paid", "subscription"})
                  \/ Change(s, Renewed(stripe[s], "past_due"), {"failed", "subscription"})
          /\ StripeKeeps
    BY <1>1 DEF PeriodEnds
  <2>2. s = Newest /\ IsLive(Newest) /\ stripe[s] = Latest
    BY <2>1, LiveTurns DEF PeriodOver, IsLive, Live
  <2>3. CASE Latest.cancel
    BY <1>0, <2>1, <2>2, <2>3 DEF Turn, Closure, StripeKeeps
  <2>4. CASE ~Latest.cancel
    BY <1>0, <2>1, <2>2, <2>4 DEF Turn, Renewal, StripeKeeps
  <2>5. QED
    BY <2>3, <2>4
<1>2. CASE RetrySucceeds \/ GivesUp
  <2>1. PICK s \in Subs :
          /\ stripe[s].status = "past_due" /\ StripeKeeps
          /\ \/ Change(s, [stripe[s] EXCEPT !.status = "active"], {"paid", "subscription"})
             \/ Change(s, [stripe[s] EXCEPT !.status = "canceled"], {"subscription"})
    BY <1>2 DEF RetrySucceeds, GivesUp
  <2>2. s = Newest /\ IsLive(Newest) /\ stripe[s] = Latest
    BY <2>1, LiveTurns DEF IsLive, Live
  <2>3. QED
    BY <1>0, <2>1, <2>2 DEF Turn, Recovery, Closure, StripeKeeps
<1>3. CASE OwnerCalls
  <2>1. CASE owner.op = "confirm"
    BY <1>3, <2>1 DEF OwnerCalls, NoChange
  <2>2. CASE owner.op # "confirm"
    <3>0. PICK s : s = owner.sub
      OBVIOUS
    <3>1. /\ s # NoSub /\ Accepted(s)
          /\ Change(s, Asked(s), IF owner.op = "upgrade" THEN {"subscription", "paid"}
                                 ELSE {"subscription"})
          /\ owner' = [owner EXCEPT !.pc = "called", !.ver = version + 1,
                                    !.snap = SnapshotOf(s, Asked(s))]
          /\ Flawed({f \in {"behind"} : Reverts(s)})
      BY <1>3, <2>2, <3>0 DEF OwnerCalls
    <3>2. s \in Subs /\ IsLive(s)
      BY <1>3, <3>0, <3>1, CallsFacts DEF Accepted
    <3>3. s = Newest /\ IsLive(Newest)
      BY <3>2, LiveTurns
    <3>4. ~Reverts(s) \/ flaws' # {}
      BY <3>1 DEF Flawed
    <3>5. QED
      BY <1>0, <1>3, <2>2, <3>0, <3>1, <3>2, <3>3, <3>4 DEF Turn, Called, OwnerCalls
  <2>3. QED
    BY <2>1, <2>2
<1>4. CASE Block \/ BlockFails
  <2>1. CASE RunsOn(ws)
    <3>1. ws.row.sub \in Subs \cup {NoSub}
      BY RowKnown DEF Sound, Workspaces, Rows
    <3>2. TellsToEnd(ws) /\ UNCHANGED <<owner, clock, worker>>
      BY <1>4, <2>1 DEF Block, BlockFails
    <3>3. QED
      BY <1>0, <3>1, <3>2, EndTurns
  <2>2. CASE ~RunsOn(ws)
    BY <1>4, <2>2 DEF Block, BlockFails, NoChange
  <2>3. QED
    BY <2>1, <2>2
<1>5. CASE Unblock \/ UnblockFails
  <2>0. PICK due : due = ApplyDueTransitions(ws, clock)
    OBVIOUS
  <2>1. CASE ToResume(due)
    <3>1. /\ TellsToGoOn(due) /\ UNCHANGED <<clock, owner, worker>>
          /\ applied' = version' \/ stripe[due.row.sub].status # "past_due" \/ flaws' # {}
      BY <1>5, <2>0, <2>1 DEF Unblock, UnblockFails, Flawed
    <3>2. QED
      BY <1>0, <2>0, <3>1, GoOnTurns
  <2>2. CASE ~ToResume(due)
    BY <1>5, <2>0, <2>2 DEF Unblock, UnblockFails, NoChange
  <2>3. QED
    BY <2>1, <2>2
<1>6. ASSUME NEW w \in Workers, Apply(w)
      PROVE  UNCHANGED <<stripe, version>> \/ Turn
  <2>1. UNCHANGED <<owner, clock>> /\ HoldersStay
    <3>1. /\ UNCHANGED <<owner, clock>>
          /\ \/ worker' = [worker EXCEPT ![w].pc = "raised"]
             \/ worker' = [worker EXCEPT ![w].pc = "applied", ![w].snap = NoSnapshot, ![w].ver = 0]
      BY <1>6 DEF Apply
    <3>2. worker \in [Workers -> WorkerRecords]
      BY DEF IInv, WorkerInv
    <3>3. QED
      BY <3>1, <3>2 DEF HoldersStay, WorkerRecords
  <2>2. \/ UNCHANGED <<stripe, version>>
        \/ \E x : Kept(x, ws) /\ TellsToEnd(x)
    BY <1>6, ApplyOutcome DEF Settle, NoChange
  <2>3. ASSUME NEW x, Kept(x, ws), TellsToEnd(x) PROVE Turn
    <3>1. x.row.sub \in Subs \cup {NoSub}
      BY <2>3 DEF Kept, Sound, Workspaces, Rows
    <3>2. QED
      BY <2>1, <2>3, <3>1, EndTurns
  <2>4. QED
    BY <2>2, <2>3
<1>7. CASE \/ Tick \/ UNCHANGED vars \/ OwnerReads \/ OwnerRefused \/ OwnerWrites
           \/ OwnerInterrupted \/ SendPaymentWarnings \/ ExpireTrial
           \/ \E e \in Events : AnswerInProgress(e)
           \/ \E w \in Workers : Webhook(w) /\ ~Apply(w) /\ ~ApplyRolledBack(w)
  BY <1>7 DEF Tick, vars, OwnerReads, OwnerRefused, OwnerWrites, OwnerInterrupted,
       SendPaymentWarnings, ExpireTrial, AnswerInProgress, Webhook, Claim, Take, Retrieve,
       RetrieveFails, MarkProcessed, MarkFailed, Crash, Release
<1>8. QED
  BY <1>1, <1>2, <1>3, <1>4, <1>5, <1>6, <1>7, RolledBackTurns
     DEF Next, Stripe, Owner, Platform, Webhook

LEMMA TurnKeeps ==
  ASSUME IInv, Turn
  PROVE  /\ Newest' = Newest /\ version' = version + 1 /\ version \in Nat
         /\ \A s \in Subs \ {Newest} : stripe'[s] = stripe[s]
         /\ Latest'.trialEnd = Latest.trialEnd /\ Latest'.status \in Live \cup {"canceled"}
         /\ Latest' = stripe'[Newest] /\ Moved /\ FinalStays
<1>1. Newest \in Subs /\ IsLive(Newest) /\ Latest \in SubscriptionRecords
  BY AtStripe DEF Turn, Latest
<1>2. PICK q, kinds :
        /\ Change(Newest, q, kinds)
        /\ q.status \in Live \cup {"canceled"} /\ q.trialEnd = Latest.trialEnd
  <2>1. CASE Renewal
    <3>1. PICK status, kinds, q :
            status \in {"active", "past_due"} /\ q = Renewed(Latest, status) /\ Change(Newest, q, kinds)
      BY <2>1 DEF Renewal
    <3>2. q.status = status /\ q.trialEnd = Latest.trialEnd
      BY <1>1, <3>1 DEF Renewed, SubscriptionRecords
    <3>3. QED
      BY <3>1, <3>2 DEF Live
  <2>2. CASE Recovery \/ Closure
    <3>1. PICK status, kinds, q :
            status \in {"active", "canceled"} /\ q = [Latest EXCEPT !.status = status] /\ Change(Newest, q, kinds)
      BY <2>2 DEF Recovery, Closure
    <3>2. q.status = status /\ q.trialEnd = Latest.trialEnd
      BY <1>1, <3>1 DEF SubscriptionRecords
    <3>3. QED
      BY <3>1, <3>2 DEF Live
  <2>3. CASE ToldToEnd \/ ToldToGoOn
    <3>1. PICK cancel, kinds, q :
            cancel \in BOOLEAN /\ q = [Latest EXCEPT !.cancel = cancel] /\ Change(Newest, q, kinds)
      BY <2>3 DEF ToldToEnd, ToldToGoOn
    <3>2. q.status = Latest.status /\ q.trialEnd = Latest.trialEnd
      BY <1>1, <3>1 DEF SubscriptionRecords
    <3>3. QED
      BY <1>1, <3>1, <3>2 DEF IsLive, Latest
  <2>4. CASE Called
    <3>1. PICK kinds, q : q = Asked(Newest) /\ Change(Newest, q, kinds)
      BY <2>4 DEF Called
    <3>2. q.trialEnd = Latest.trialEnd /\ q.status \in {Latest.status, "canceled"}
      BY <1>1, <2>4, <3>1, CallsFacts DEF Asked, SubscriptionRecords, Called, Ops, WithTarget, Latest
    <3>3. QED
      BY <1>1, <3>1, <3>2 DEF IsLive, Latest
  <2>5. QED
    BY <2>1, <2>2, <2>3, <2>4 DEF Turn
<1>3. Moved /\ FinalStays /\ Newest' = Newest
  BY <1>1, <1>2, ChangeLive DEF IsLive, Live
<1>4. stripe'[Newest] = q /\ \A s \in Subs \ {Newest} : stripe'[s] = stripe[s]
  BY <1>1, <1>2, ShapeChange
<1>5. version' = version + 1
  BY <1>2 DEF Change
<1>6. Latest' = stripe'[Newest]
  BY <1>3 DEF Latest
<1>7. QED
  BY <1>2, <1>3, <1>4, <1>5, <1>6, RowKnown

(* The fields of the newest subscription, before and after.                *)
NextPeriod(q, t, now) ==
  /\ t.status \in {"trialing", "active"} /\ t.end = now /\ q.end = now + Period
  /\ ~t.cancel /\ ~q.cancel /\ q.nextPlan = "none"
  /\ Pair(q) = IF t.nextPlan = "none" THEN Pair(t) ELSE NextOf(t)
SameTerms(q, t) == Pair(q) = Pair(t) /\ q.end = t.end
SameNext(q, t) == NextOf(q) = NextOf(t) /\ q.nextPlan = t.nextPlan

LEMMA RenewalFields ==
  ASSUME IInv, StripeDates, Turn, Renewal
  PROVE  /\ NextPeriod(Latest', Latest, clock) /\ clock >= Ends
         /\ Latest'.status \in {"active", "past_due"}
<1>1. PICK status, kinds, q :
        status \in {"active", "past_due"} /\ q = Renewed(Latest, status) /\ Change(Newest, q, kinds)
  BY DEF Renewal
<1>2. Newest \in Subs /\ Latest' = q
  BY <1>1, TurnKeeps, ShapeChange DEF Turn
<1>3. Latest \in SubscriptionRecords /\ Latest.end = clock /\ clock >= Ends
  <2>1. Latest \in SubscriptionRecords /\ Latest.end >= Ends /\ Latest.end \in Nat
    <3>1. stripe[Newest] \in Subscriptions(Ends) /\ stripe[Newest].status # "none"
      BY <1>2, AtStripe DEF Turn, IsLive, Live
    <3>2. QED
      BY <1>2, <3>1, AtStripe DEF Subscriptions, Latest
  <2>2. Latest.end >= clock /\ Latest.end <= clock
    BY <1>2 DEF Renewal, PeriodOver, StripeDates, Latest, Turn
  <2>3. QED
    BY <2>1, <2>2, RowKnown
<1>4. /\ q.end = Latest.end + Period /\ q.status = status /\ q.cancel = Latest.cancel
      /\ q.nextPlan = "none"
      /\ Pair(q) = IF Latest.nextPlan = "none" THEN Pair(Latest) ELSE NextOf(Latest)
  BY <1>1, <1>3 DEF Renewed, SubscriptionRecords, Pair, NextOf
<1>5. QED
  BY <1>1, <1>2, <1>3, <1>4 DEF NextPeriod, Renewal, PeriodOver, Latest

LEMMA RecoveryFields ==
  ASSUME IInv, Turn, Recovery
  PROVE  /\ SameTerms(Latest', Latest) /\ SameNext(Latest', Latest)
         /\ Latest.status = "past_due" /\ Latest'.status = "active" /\ Latest'.cancel = Latest.cancel
<1>1. PICK q : /\ q = [Latest EXCEPT !.status = "active"]
               /\ Change(Newest, q, {"paid", "subscription"})
  BY DEF Recovery
<1>2. Newest \in Subs /\ Latest' = q
  BY <1>1, TurnKeeps, ShapeChange DEF Turn
<1>3. Latest \in SubscriptionRecords
  BY <1>2, AtStripe DEF Latest
<1>4. QED
  BY <1>1, <1>2, <1>3 DEF SameTerms, SameNext, Pair, NextOf, SubscriptionRecords, Recovery

LEMMA ClosureFields ==
  ASSUME IInv, Turn, Closure
  PROVE  Latest'.status = "canceled"
<1>1. PICK q : /\ q = [Latest EXCEPT !.status = "canceled"]
               /\ Change(Newest, q, {"subscription"})
  BY DEF Closure
<1>2. Newest \in Subs /\ Latest' = q
  BY <1>1, TurnKeeps, ShapeChange DEF Turn
<1>3. Latest \in SubscriptionRecords
  BY <1>2, AtStripe DEF Latest
<1>4. QED
  BY <1>1, <1>2, <1>3 DEF SubscriptionRecords

LEMMA ToldFields ==
  ASSUME IInv, Turn, NEW cancel \in BOOLEAN,
         Change(Newest, [Latest EXCEPT !.cancel = cancel], {"subscription"})
  PROVE  /\ SameTerms(Latest', Latest) /\ SameNext(Latest', Latest)
         /\ Latest'.status = Latest.status /\ Latest'.cancel = cancel
<1>1. PICK q : /\ q = [Latest EXCEPT !.cancel = cancel]
               /\ Change(Newest, q, {"subscription"})
  OBVIOUS
<1>2. Newest \in Subs /\ Latest' = q
  BY <1>1, TurnKeeps, ShapeChange DEF Turn
<1>3. Latest \in SubscriptionRecords
  BY <1>2, AtStripe DEF Latest
<1>4. QED
  BY <1>1, <1>2, <1>3 DEF SameTerms, SameNext, Pair, NextOf, SubscriptionRecords

(* What Stripe makes of a request of the owner.                            *)
LEMMA CalledFields ==
  ASSUME IInv, Turn, Called
  PROVE  /\ owner.pc = "read" /\ owner'.pc = "called" /\ owner'.op = owner.op
         /\ owner'.sub = Newest /\ owner'.ver = version' /\ owner'.snap = Snapshot(Newest)'
         /\ owner'.plan = owner.plan /\ owner'.interval = owner.interval
         /\ owner'.deferred = owner.deferred /\ owner.op \in Ops \ {"confirm"}
         /\ UNCHANGED <<clock, ws, blocked, worker, applied>>
         /\ owner.op = "clear" => Latest'.status = "canceled"
         /\ owner.op # "clear" => Latest'.status = Latest.status /\ Latest'.end = Latest.end
         /\ owner.op \notin {"clear", "release"} => Latest.nextPlan = "none"
         /\ owner.op \in {"retarget", "upgrade", "cancel", "resume"} => SameNext(Latest', Latest)
         /\ owner.op \in {"schedule", "cancel", "resume", "release"} => SameTerms(Latest', Latest)
         /\ owner.op \in {"upgrade", "schedule", "release"} => Latest'.cancel = Latest.cancel
         /\ owner.op = "schedule" =>
              ~Latest.cancel /\ NextOf(Latest') = <<owner.plan, owner.interval>>
         /\ owner.op = "release" => Latest'.nextPlan = "none"
         /\ owner.op = "cancel" => Latest'.cancel
         /\ owner.op \in {"retarget", "resume"} => ~Latest'.cancel
         /\ owner.op = "retarget" => Latest.status = "trialing"
         /\ owner.op = "upgrade" /\ flaws' = {} =>
              /\ Latest.interval = owner.interval
              /\ Pair(Latest') = <<"business", owner.interval>>
<1>1. PICK q, kinds : q = Asked(Newest) /\ Change(Newest, q, kinds)
  BY DEF Called
<1>2. Newest \in Subs /\ Latest' = q /\ stripe'[Newest] = q
  BY <1>1, TurnKeeps, ShapeChange DEF Turn
<1>3. Latest \in SubscriptionRecords /\ Latest = stripe[Newest]
  BY <1>2, AtStripe DEF Latest
<1>4. owner \in OwnerRecords /\ owner.op \in Ops \ {"confirm"} /\ owner.pc = "read"
  BY CallsFacts DEF IInv, OwnerInv, Called
<1>5. /\ owner'.pc = "called" /\ owner'.op = owner.op
      /\ owner'.sub = Newest /\ owner'.ver = version'
      /\ owner'.plan = owner.plan /\ owner'.interval = owner.interval
      /\ owner'.deferred = owner.deferred
      /\ UNCHANGED <<clock, ws, blocked, worker, applied>>
  <2>1. version' = version + 1
    BY TurnKeeps
  <2>2. QED
    BY <1>4, <2>1 DEF Called, OwnerRecords, OwnerCalls
<1>6. owner'.snap = Snapshot(Newest)'
  <2>1. owner'.snap = SnapshotOf(Newest, q)
    BY <1>1, <1>4 DEF Called, OwnerRecords
  <2>2. Newest' = Newest
    BY TurnKeeps
  <2>3. QED
    BY <1>2, <2>1, <2>2 DEF Snapshot, SnapshotOf
<1>7. /\ owner.op \notin {"clear", "release", "confirm"} => Latest.nextPlan = "none"
      /\ owner.op = "retarget" => Latest.status = "trialing"
      /\ owner.op = "schedule" => ~Latest.cancel
      /\ owner.op = "upgrade" /\ flaws' = {} => Latest.interval = owner.interval
  BY <1>3 DEF Called, Accepted, Scheduled, Reverts
<1>8. /\ owner.op = "clear" => q = [Latest EXCEPT !.status = "canceled"]
      /\ owner.op = "retarget" => q = [Latest EXCEPT !.plan = owner.plan, !.interval = owner.interval,
                                                    !.cancel = FALSE]
      /\ owner.op = "upgrade" => q = [Latest EXCEPT !.plan = "business", !.interval = owner.interval]
      /\ owner.op = "schedule" => q = [Latest EXCEPT !.nextPlan = owner.plan,
                                                    !.nextInterval = owner.interval]
      /\ owner.op = "cancel" => q = [Latest EXCEPT !.cancel = TRUE]
      /\ owner.op = "resume" => q = [Latest EXCEPT !.cancel = FALSE]
      /\ owner.op = "release" => q = [Latest EXCEPT !.nextPlan = "none", !.nextInterval = "none"]
  BY <1>1, <1>3 DEF Asked
<1>9. ASSUME owner.op = "clear"
      PROVE  q.status = "canceled"
  BY <1>3, <1>8, <1>9 DEF SameTerms, SameNext, Pair, NextOf, SubscriptionRecords
<1>10. ASSUME owner.op = "retarget"
      PROVE  q.status = Latest.status /\ q.end = Latest.end /\ SameNext(q, Latest) /\ ~q.cancel
  BY <1>3, <1>8, <1>10 DEF SameTerms, SameNext, Pair, NextOf, SubscriptionRecords
<1>11. ASSUME owner.op = "upgrade"
      PROVE  /\ q.status = Latest.status /\ q.end = Latest.end /\ SameNext(q, Latest)
             /\ q.cancel = Latest.cancel /\ Pair(q) = <<"business", owner.interval>>
  BY <1>3, <1>8, <1>11 DEF SameTerms, SameNext, Pair, NextOf, SubscriptionRecords
<1>12. ASSUME owner.op = "schedule"
      PROVE  /\ q.status = Latest.status /\ SameTerms(q, Latest) /\ q.cancel = Latest.cancel
             /\ NextOf(q) = <<owner.plan, owner.interval>>
  <2>1. q = [Latest EXCEPT !.nextPlan = owner.plan, !.nextInterval = owner.interval]
    BY <1>8, <1>12
  <2>2. /\ q.status = Latest.status /\ q.plan = Latest.plan /\ q.interval = Latest.interval
        /\ q.end = Latest.end /\ q.cancel = Latest.cancel
        /\ q.nextPlan = owner.plan /\ q.nextInterval = owner.interval
    BY <1>3, <2>1 DEF SubscriptionRecords
  <2>3. QED
    BY <2>2 DEF SameTerms, Pair, NextOf
<1>13. ASSUME owner.op = "cancel"
      PROVE  q.status = Latest.status /\ SameTerms(q, Latest) /\ SameNext(q, Latest) /\ q.cancel
  BY <1>3, <1>8, <1>13 DEF SameTerms, SameNext, Pair, NextOf, SubscriptionRecords
<1>14. ASSUME owner.op = "resume"
      PROVE  q.status = Latest.status /\ SameTerms(q, Latest) /\ SameNext(q, Latest) /\ ~q.cancel
  BY <1>3, <1>8, <1>14 DEF SameTerms, SameNext, Pair, NextOf, SubscriptionRecords
<1>15. ASSUME owner.op = "release"
      PROVE  /\ q.status = Latest.status /\ SameTerms(q, Latest) /\ q.cancel = Latest.cancel
             /\ q.nextPlan = "none"
  <2>1. q = [Latest EXCEPT !.nextPlan = "none", !.nextInterval = "none"]
    BY <1>8, <1>15
  <2>2. /\ q.status = Latest.status /\ q.plan = Latest.plan /\ q.interval = Latest.interval
        /\ q.end = Latest.end /\ q.cancel = Latest.cancel /\ q.nextPlan = "none"
    BY <1>3, <2>1 DEF SubscriptionRecords
  <2>3. QED
    BY <2>2 DEF SameTerms, Pair
<1>16. \A op \in Ops \ {"confirm"} :
         op \in {"clear", "retarget", "upgrade", "schedule", "cancel", "resume", "release"}
  BY DEF Ops, WithTarget
<1>17. owner.op # "clear" => q.end = Latest.end /\ q.status = Latest.status
  BY <1>4, <1>10, <1>11, <1>12, <1>13, <1>14, <1>15, <1>16 DEF SameTerms
<1>18. QED
  BY <1>2, <1>4, <1>5, <1>6, <1>7, <1>9, <1>10, <1>11, <1>12, <1>13, <1>14, <1>15, <1>17
-----------------------------------------------------------------------------
(* BasicInv is kept; and what is reported and still to be applied.         *)

LEMMA InitBasic ==
  ASSUME Init
  PROVE  BasicInv
<1>1. \A s \in Subs : stripe[s].status = "none" /\ stripe[s].trialEnd = NoTime
  BY DEF Init, NoSubscription
<1>2. Used = {} /\ owner.pc = "idle"
  BY <1>1 DEF Used, Init, NoRequest
<1>3. Flight = {}
  BY <1>2, NobodyFlies DEF Init, NoRequests, Idle
<1>4. QED
  BY <1>1, <1>2, <1>3
     DEF BasicInv, OneLive, InOrder, Deferred, FlightUsed, OwnerLate, IsLive, Live,
         PaidDates, FlightDates, Paying

LEMMA UsedKept ==
  ASSUME IInv, OneLive, [Next]_vars, ~Subscribe
  PROVE  Used' = Used
<1>1. CASE UNCHANGED stripe
  BY <1>1 DEF Used
<1>2. CASE Turn
  BY <1>2, TurnKeeps DEF Used, Turn, IsLive, Live, Latest
<1>3. QED
  BY <1>1, <1>2, StepTurns

LEMMA OwnerLateStep ==
  ASSUME IInv, OwnerLate, [Next]_vars, Ends' = Ends
  PROVE  OwnerLate'
<1>1. CASE owner'.pc = "idle"
  BY <1>1 DEF OwnerLate
<1>2. CASE Tick
  BY <1>1, <1>2 DEF Tick, NoRequests
<1>3. CASE ~Tick
  <2>0. clock' = clock
    BY <1>3, ClockStays
  <2>1. CASE UNCHANGED owner
    BY <2>0, <2>1 DEF OwnerLate
  <2>2. CASE OwnerReads
    <3>1. PICK op \in Ops : Asks(op) /\ owner'.op = op
      BY <2>2 DEF OwnerReads, NoRequest
    <3>2. op \in {"cancel", "resume"} => clock >= Ends
      <4>1. op \in {"cancel", "resume"} => ~TrialActive(ws, clock)
        BY <3>1 DEF Asks
      <4>2. QED
        BY <4>1, TrialIs, RowKnown
    <3>3. QED
      BY <2>0, <3>1, <3>2 DEF OwnerLate
  <2>3. CASE OwnerCalls
    BY <2>0, <2>3, CallsFacts DEF OwnerLate
  <2>4. QED
    BY <1>1, <2>1, <2>2, <2>3, OwnerMoves, NobodyAsks
<1>4. QED
  BY <1>2, <1>3

LEMMA FlawsGrow ==
  ASSUME [Next]_vars
  PROVE  flaws \subseteq flaws' /\ (flaws' = {} => flaws = {})
<1>1. flaws \subseteq flaws'
  BY DEF Next, vars, Stripe, Subscribe, PeriodEnds, RetrySucceeds, GivesUp, StripeKeeps, Owner,
         OwnerReads, OwnerCalls, OwnerRefused, OwnerWrites, OwnerInterrupted, Tick, Platform,
         SendPaymentWarnings, ExpireTrial, Block, BlockFails, Unblock, UnblockFails, Webhook,
         Claim, Take, Retrieve, RetrieveFails, Apply, ApplyRolledBack, MarkProcessed,
         MarkFailed, Crash, Release, AnswerInProgress, Settle, Flawed
<1>2. QED
  BY <1>1

(* A paid subscription ends later than the free week.                      *)
LEMMA PaidStep ==
  ASSUME IInv, DatesInv, OneLive, InOrder, PaidDates, [Next]_vars, Ends' = Ends
  PROVE  PaidDates'
<1>0. clock \in Nat /\ Ends \in Nat /\ Period \in Nat \ {0}
  BY RowKnown, StripeAssumption
<1>1. CASE Subscribe
  <2>1. PICK s \in Subs :
         /\ \A t \in Subs \ {s} : stripe'[t] = stripe[t]
         /\ stripe'[s].status \in {"trialing", "active"}
         /\ stripe'[s].status = "active" => stripe'[s].end = clock + Period /\ clock >= Ends
    BY <1>1, Bought
  <2>2. stripe'[s].status \in Paying => stripe'[s].end > Ends
    BY <1>0, <2>1 DEF Paying
  <2>3. QED
    BY <2>1, <2>2 DEF PaidDates
<1>2. CASE UNCHANGED stripe
  BY <1>2 DEF PaidDates
<1>3. CASE Turn
  <2>1. Newest \in Subs /\ Latest.status \in Paying => Latest.end > Ends
    BY <1>3 DEF PaidDates, Turn, Latest
  <2>2. Latest'.status \in Paying => Latest'.end > Ends
    <3>1. CASE Renewal
      BY <1>0, <1>3, <3>1, RenewalFields DEF DatesInv, NextPeriod
    <3>2. CASE Recovery
      BY <1>3, <2>1, <3>2, RecoveryFields DEF SameTerms, Paying, Turn
    <3>3. CASE Closure
      BY <1>3, <3>3, ClosureFields DEF Paying
    <3>4. CASE ToldToEnd \/ ToldToGoOn
      BY <1>3, <2>1, <3>4, ToldFields DEF SameTerms, ToldToEnd, ToldToGoOn, Turn
    <3>5. CASE Called
      BY <1>3, <2>1, <3>5, CalledFields DEF Paying, Turn
    <3>6. QED
      BY <1>3, <3>1, <3>2, <3>3, <3>4, <3>5 DEF Turn
  <2>3. QED
    BY <1>3, <2>2, TurnKeeps DEF PaidDates
<1>4. QED
  BY <1>1, <1>2, <1>3, StepTurns

LEMMA StepBasic ==
  ASSUME IInv, IInv', AnswerInv, AnswerInv', DatesInv, DatesInv', BasicInv, [Next]_vars
  PROVE  BasicInv'
<1>1. Ends' = Ends /\ FlightStep
  BY StepShapes, StepFlows DEF DatesInv, Flows
<1>2. Used \subseteq Used' /\ OneLive' /\ InOrder' /\ Deferred'
  <2>1. CASE Subscribe
    <3>1. PICK s \in Subs :
           /\ s \notin Used /\ Used' = Used \cup {s} /\ Newest' = s
           /\ \A t \in Subs : ~IsLive(t)
           /\ \A t \in Subs \ {s} : stripe'[t] = stripe[t]
           /\ \A t \in Subs : t < s => t \in Used
           /\ stripe'[s].status \in {"trialing", "active"}
           /\ stripe'[s].trialEnd \in {NoTime, Ends}
      BY <2>1, Bought DEF BasicInv
    <3>2. OneLive' /\ Deferred'
      BY <1>1, <3>1 DEF BasicInv, OneLive, Deferred, IsLive
    <3>3. InOrder'
      BY <3>1 DEF BasicInv, InOrder
    <3>4. QED
      BY <3>1, <3>2, <3>3
  <2>2. CASE ~Subscribe
    <3>1. Used' = Used /\ InOrder'
      BY <2>2, UsedKept DEF BasicInv, InOrder
    <3>2. CASE UNCHANGED stripe
      <4>1. Newest' = Newest
        BY <3>2 DEF Newest, Used
      <4>2. QED
        BY <1>1, <3>1, <3>2, <4>1 DEF BasicInv, OneLive, Deferred, IsLive
    <3>3. CASE Turn
      <4>1. OneLive'
        BY <3>3, TurnKeeps DEF BasicInv, OneLive, IsLive
      <4>2. Deferred'
        BY <1>1, <3>3, TurnKeeps DEF BasicInv, Deferred, Latest, Turn
      <4>3. QED
        BY <3>1, <4>1, <4>2
    <3>4. QED
      BY <2>2, <3>1, <3>2, <3>3, StepTurns DEF BasicInv
  <2>3. QED
    BY <2>1, <2>2
<1>2a. PaidDates'
  BY <1>1, PaidStep DEF BasicInv
<1>3. FlightUsed' /\ FlightDates'
  <2>1. ASSUME NEW a \in Flight'
        PROVE  /\ a.snap.sub \in Used'
               /\ a.snap.status \in Paying => a.snap.end > Ends'
               /\ a.snap.status = "trialing" => a.snap.end = Ends'
    <3>1. CASE a \in Flight
      BY <1>1, <1>2, <3>1 DEF BasicInv, FlightUsed, FlightDates
    <3>2. CASE \E s \in Subs : a.snap = Snapshot(s)'
      <4>1. PICK s \in Subs : a.snap = Snapshot(s)'
        BY <3>2
      <4>2. a.snap.sub = s /\ a.snap.status = stripe'[s].status /\ a.snap.end = stripe'[s].end
        BY <4>1 DEF Snapshot, SnapshotOf
      <4>3. a.snap.status \in Live \cup {"canceled"}
        <5>1. a.snap \in Answers(Ends')
          BY <2>1 DEF Flight, Carriers, Answer, IInv, WorkerInv, OwnerInv
        <5>2. QED
          BY <5>1 DEF Answers, Snapshots
      <4>4. a.snap.sub \in Used'
        BY <4>2, <4>3 DEF Used, Live
      <4>5. a.snap.status \in Paying => a.snap.end > Ends'
        BY <1>2a, <4>2 DEF PaidDates
      <4>6. a.snap.status = "trialing" => a.snap.end = Ends'
        BY <4>2 DEF DatesInv, StripeDates
      <4>7. QED
        BY <4>4, <4>5, <4>6
    <3>3. QED
      BY <1>1, <2>1, <3>1, <3>2 DEF FlightStep
  <2>2. QED
    BY <2>1 DEF FlightUsed, FlightDates
<1>4. OwnerLate'
  BY <1>1, OwnerLateStep DEF BasicInv
<1>5. QED
  BY <1>2, <1>2a, <1>3, <1>4 DEF BasicInv
-----------------------------------------------------------------------------
(* What Stripe reports of the newest subscription and is still to be       *)
(* applied with an answer newer than v.                                    *)
Coming(e, v) ==
  /\ event[e].status # "free" /\ event[e].sub = Newest
  /\ \A w \in Workers : worker[w].event = e =>
       /\ worker[w].pc # "applied"
       /\ worker[w].pc = "ready" => worker[w].ver > v
Report(e) == [slot |-> e, kind |-> event[e].kind]
Ahead(v)  == {Report(e) : e \in {x \in Events : Coming(x, v)}}
Keeps(v)  == Ahead(v) \subseteq Ahead(v)'
(* A change at Stripe is reported, once for every kind, whatever has been  *)
(* answered before.                                                        *)
Brings(kinds) ==
  \A k \in kinds : \E e \in Events :
    event[e].status = "free" /\ event'[e].kind = k /\ \A v \in Int : Coming(e, v)'

LEMMA AheadIs ==
  ASSUME NEW v, NEW j \in Ahead(v)
  PROVE  \E e \in Events : Coming(e, v) /\ j = Report(e) /\ j.kind = event[e].kind /\ j.slot = e
<1>1. PICK e \in Events : Coming(e, v) /\ j = Report(e)
  BY DEF Ahead
<1>2. QED
  BY <1>1 DEF Report

LEMMA BroughtOne ==
  ASSUME NEW v \in Int, NEW kinds, Brings(kinds), NEW k \in kinds
  PROVE  \E j \in Ahead(v)' : j \notin Ahead(v) /\ j.kind = k
<1>1. PICK e \in Events :
        event[e].status = "free" /\ event'[e].kind = k /\ Coming(e, v)'
  BY DEF Brings
<1>2. Report(e)' \in Ahead(v)' /\ Report(e)'.kind = k /\ Report(e)'.slot = e
  BY <1>1 DEF Ahead, Report
<1>3. \A j \in Ahead(v) : j.slot # e
  BY <1>1 DEF Ahead, Report, Coming
<1>4. QED
  BY <1>2, <1>3

LEMMA BroughtTwo ==
  ASSUME NEW v \in Int, Brings({"paid", "subscription"})
  PROVE  HasTwo(Ahead(v)')
<1>1. PICK j \in Ahead(v)' : j.kind = "paid"
  BY BroughtOne
<1>2. PICK k \in Ahead(v)' : k.kind = "subscription"
  BY BroughtOne
<1>3. QED
  BY <1>1, <1>2 DEF HasTwo, Reports

LEMMA BroughtHas ==
  ASSUME NEW v \in Int, NEW kinds, Brings(kinds), NEW k \in kinds, NEW those, k \in those
  PROVE  Has(Ahead(v)', those)
BY BroughtOne DEF Has

LEMMA ChangeBrings ==
  ASSUME IInv, NEW s \in Subs, s = Newest', NEW q, NEW kinds, Change(s, q, kinds),
         HoldersStay
  PROVE  Brings(kinds)
<1>1. ASSUME NEW k \in kinds
      PROVE  \E e \in Events :
               event[e].status = "free" /\ event'[e].kind = k /\ \A v \in Int : Coming(e, v)'
  <2>1. PICK slot \in [kinds -> Events] :
          /\ \A j \in kinds : event[slot[j]].status = "free"
          /\ \A i, j \in kinds : slot[i] = slot[j] => i = j
          /\ event' = [e \in Events |->
               IF \E j \in kinds : slot[j] = e
               THEN [kind |-> CHOOSE j \in kinds : slot[j] = e, sub |-> s,
                     status |-> "received", due |-> TRUE]
               ELSE event[e]]
    BY DEF Change
  <2>2. slot[k] \in Events /\ event[slot[k]].status = "free"
    BY <1>1, <2>1
  <2>3. (CHOOSE j \in kinds : slot[j] = slot[k]) = k
    BY <1>1, <2>1
  <2>4. /\ event'[slot[k]].kind = k /\ event'[slot[k]].sub = s
        /\ event'[slot[k]].status = "received"
    BY <1>1, <2>1, <2>2, <2>3
  <2>5. \A w \in Workers : worker[w].event # slot[k]
    <3>1. SUFFICES ASSUME NEW w \in Workers, worker[w].event = slot[k]
                   PROVE  FALSE
      OBVIOUS
    <3>2. worker[w].pc = "idle" => worker[w].event = NoEvent
      BY DEF IInv, WorkerInv
    <3>3. worker[w].pc # "idle" => event[worker[w].event].status = "processing"
      BY DEF IInv, WorkerInv
    <3>4. QED
      BY <2>2, <3>1, <3>2, <3>3, StripeAssumption
  <2>6. \A v \in Int : Coming(slot[k], v)'
    BY <2>4, <2>5 DEF Coming, HoldersStay
  <2>7. QED
    BY <2>2, <2>4, <2>6
<1>2. QED
  BY <1>1 DEF Brings

(* An event that is left to be applied stays so while its holder goes on.  *)
LEMMA ComingKept ==
  ASSUME Newest' = Newest, NEW e \in Events, NEW v \in Int, Coming(e, v),
         v < version', version' \in Int,
         event'[e].kind = event[e].kind, event'[e].sub = event[e].sub,
         event'[e].status # "free",
         \A w \in Workers :
           \/ worker'[w].event # e
           \/ worker'[w].pc \notin {"ready", "applied"}
           \/ worker'[w].pc = "ready" /\ worker'[w].ver = version'
           \/ /\ worker'[w].event = worker[w].event /\ worker'[w].pc = worker[w].pc
              /\ worker'[w].ver = worker[w].ver
  PROVE  Report(e) \in Ahead(v)'
<1>1. ASSUME NEW w \in Workers, worker'[w].event = e
      PROVE  /\ worker'[w].pc # "applied"
             /\ worker'[w].pc = "ready" => worker'[w].ver > v
  <2>1. CASE worker'[w].pc = "ready" /\ worker'[w].ver = version'
    BY <2>1
  <2>2. CASE /\ worker'[w].event = worker[w].event /\ worker'[w].pc = worker[w].pc
             /\ worker'[w].ver = worker[w].ver
    BY <1>1, <2>2 DEF Coming
  <2>3. QED
    BY <1>1, <2>1, <2>2
<1>2. Coming(e, v)'
  BY <1>1 DEF Coming
<1>3. QED
  BY <1>2 DEF Ahead, Report

LEMMA ChangeEvents ==
  ASSUME NEW s, NEW q, NEW kinds, Change(s, q, kinds)
  PROVE  \A e \in Events : event[e].status # "free" => event'[e] = event[e]
BY DEF Change

LEMMA EventsKept ==
  ASSUME IInv, Newest' = Newest, HoldersStay, \A w \in Workers : worker'[w] = worker[w],
         UNCHANGED event \/ \E s, q, kinds : Change(s, q, kinds),
         NEW e \in Events, NEW v \in Int, Coming(e, v), v < version', version' \in Int
  PROVE  Report(e) \in Ahead(v)'
<1>1. event'[e] = event[e] /\ event[e].status # "free"
  BY ChangeEvents DEF Coming
<1>2. QED
  BY <1>1, ComingKept

(* Applying an event leaves the others.                                    *)
Consumed(e, v) ==
  \E w \in Workers : /\ Apply(w) /\ worker[w].event = e /\ worker[w].ver > v
                     /\ worker[w].pc = "ready" /\ applied' = NewestOf(applied, worker[w].ver)

LEMMA ApplyKeeps ==
  ASSUME IInv, Newest' = Newest, NEW w \in Workers, Apply(w),
         NEW e \in Events, NEW v \in Int, Coming(e, v), v < version', version' \in Int
  PROVE  Report(e) \in Ahead(v)' \/ Consumed(e, v)
<1>1. event'[e] = event[e] /\ event[e].status # "free"
  <2>1. CASE UNCHANGED event
    BY <2>1 DEF Coming
  <2>2. CASE \E s, q, kinds : Change(s, q, kinds)
    BY <2>2, ChangeEvents DEF Coming
  <2>3. QED
    BY <2>1, <2>2, ApplyOutcome DEF Settle, TellsToEnd, NoChange
<1>2. worker \in [Workers -> WorkerRecords] /\ worker[w].pc = "ready"
  BY DEF IInv, WorkerInv, Apply
<1>3. CASE worker[w].event # e \/ worker'[w].pc = "raised"
  <2>1. \A u \in Workers \ {w} : worker'[u] = worker[u]
    BY <1>2 DEF Apply
  <2>2. worker'[w].event = worker[w].event
    BY <1>2 DEF Apply, WorkerRecords
  <2>3. QED
    BY <1>1, <1>3, <2>1, <2>2, ComingKept
<1>4. CASE worker[w].event = e /\ worker'[w].pc # "raised"
  <2>1. worker[w].ver > v
    BY <1>2, <1>4 DEF Coming
  <2>2. applied' = NewestOf(applied, worker[w].ver)
    BY <1>2, <1>4 DEF Apply, WorkerRecords
  <2>3. QED
    BY <1>2, <1>4, <2>1, <2>2 DEF Consumed
<1>5. QED
  BY <1>3, <1>4

LEMMA ReleaseKeeps ==
  ASSUME IInv, Newest' = Newest, NEW w \in Workers, worker[w].pc # "idle",
         NEW status \in {"free", "received", "processing"}, NEW lost \in BOOLEAN,
         Release(w, status, lost), flaws' = {},
         worker[w].pc # "applied" => status # "free" /\ lost = TRUE,
         NEW e \in Events, NEW v \in Int, Coming(e, v), v < version', version' \in Int
  PROVE  Report(e) \in Ahead(v)'
<1>1. /\ worker[w].event \in Events /\ event \in [Events -> Slots]
      /\ worker \in [Workers -> WorkerRecords]
  BY Holds DEF IInv, EventInv, WorkerInv
<1>2. \A u \in Workers : worker'[u] = worker[u] \/ (worker'[u].event = NoEvent)
  BY <1>1 DEF Release, Idle
<1>3. /\ event'[e].kind = event[e].kind /\ event'[e].sub = event[e].sub
      /\ event'[e].status # "free"
  <2>1. CASE e # worker[w].event
    BY <1>1, <2>1 DEF Release, Coming
  <2>2. CASE e = worker[w].event
    <3>1. worker[w].pc # "applied" /\ status # "free"
      BY <2>2 DEF Coming
    <3>2. event[e].due
      BY <2>2, <3>1 DEF Release, Flawed
    <3>3. event'[e] = [event[e] EXCEPT !.status = status]
      BY <1>1, <2>2, <3>1, <3>2 DEF Release
    <3>4. QED
      BY <1>1, <3>1, <3>3 DEF Slots
  <2>3. QED
    BY <2>1, <2>2
<1>4. NoEvent # e
  BY StripeAssumption
<1>5. QED
  BY <1>2, <1>3, <1>4, ComingKept

LEMMA StepKeeps ==
  ASSUME IInv, [Next]_vars, Newest' = Newest, flaws' = {},
         NEW v \in Int, v < version, NEW e \in Events, Coming(e, v)
  PROVE  Report(e) \in Ahead(v)' \/ Consumed(e, v)
<1>0. version \in Int /\ version' \in Int /\ version <= version' /\ v < version'
  BY StepCounts, RowKnown DEF Counts
<1>1. CASE Stripe \/ Owner \/ Platform \/ Tick \/ UNCHANGED vars
  <2>1. UNCHANGED worker /\ (UNCHANGED event \/ \E s, q, kinds : Change(s, q, kinds))
    <3>1. CASE Stripe
      BY <3>1 DEF Stripe, Subscribe, PeriodEnds, RetrySucceeds, GivesUp, StripeKeeps
    <3>2. CASE Owner
      BY <3>2 DEF Owner, OwnerReads, OwnerCalls, OwnerRefused, OwnerWrites, OwnerInterrupted, NoChange
    <3>3. CASE Platform
      BY <3>3 DEF Platform, SendPaymentWarnings, ExpireTrial, Block, BlockFails, Unblock,
                  UnblockFails, TellsToEnd, TellsToGoOn, NoChange
    <3>4. CASE Tick \/ UNCHANGED vars
      BY <3>4 DEF Tick, vars
    <3>5. QED
      BY <1>1, <3>1, <3>2, <3>3, <3>4
  <2>2. QED
    BY <1>0, <2>1, EventsKept DEF HoldersStay
<1>2. ASSUME NEW x \in Events, AnswerInProgress(x)
      PROVE  Report(e) \in Ahead(v)'
  <2>1. event' = [event EXCEPT ![x].due = FALSE] /\ UNCHANGED worker
    BY <1>2 DEF AnswerInProgress, Flawed
  <2>2. event \in [Events -> Slots]
    BY DEF IInv, EventInv
  <2>3. /\ event'[e].kind = event[e].kind /\ event'[e].sub = event[e].sub
        /\ event'[e].status = event[e].status
    BY <2>1, <2>2 DEF Slots
  <2>4. QED
    BY <1>0, <2>1, <2>3, ComingKept DEF Coming
<1>3. ASSUME NEW w \in Workers, Claim(w)
      PROVE  Report(e) \in Ahead(v)'
  <2>1. PICK x \in Events : worker[w].pc = "idle" /\ Take(w, x)
    BY <1>3 DEF Claim
  <2>2. event \in [Events -> Slots] /\ worker \in [Workers -> WorkerRecords]
    BY DEF IInv, EventInv, WorkerInv
  <2>3. /\ event'[e].kind = event[e].kind /\ event'[e].sub = event[e].sub
        /\ event'[e].status # "free"
    BY <2>1, <2>2 DEF Take, Slots, Coming
  <2>4. /\ \A u \in Workers \ {w} : worker'[u] = worker[u]
        /\ worker'[w].pc = "claimed" \/ (worker'[w].pc = "ready" /\ worker'[w].ver = version)
    BY <2>1, <2>2 DEF Take, Idle
  <2>5. version' = version
    BY <2>1 DEF Take
  <2>6. QED
    BY <1>0, <2>3, <2>4, <2>5, ComingKept
<1>4. ASSUME NEW w \in Workers, Retrieve(w) \/ RetrieveFails(w)
      PROVE  Report(e) \in Ahead(v)'
  <2>1. worker \in [Workers -> WorkerRecords]
    BY DEF IInv, WorkerInv
  <2>2. UNCHANGED <<event, version>>
    BY <1>4 DEF Retrieve, RetrieveFails
  <2>3. /\ \A u \in Workers \ {w} : worker'[u] = worker[u]
        /\ worker'[w].pc = "raised" \/ (worker'[w].pc = "ready" /\ worker'[w].ver = version)
    BY <1>4, <2>1 DEF Retrieve, RetrieveFails, WorkerRecords
  <2>4. QED
    BY <1>0, <2>2, <2>3, ComingKept DEF Coming
<1>5. ASSUME NEW w \in Workers, MarkProcessed(w) \/ MarkFailed(w) \/ Crash(w)
      PROVE  Report(e) \in Ahead(v)'
  <2>1. CASE MarkProcessed(w)
    BY <1>0, <2>1, ReleaseKeeps DEF MarkProcessed
  <2>2. CASE MarkFailed(w)
    BY <1>0, <2>2, ReleaseKeeps DEF MarkFailed
  <2>3. CASE Crash(w)
    BY <1>0, <2>3, ReleaseKeeps DEF Crash
  <2>4. QED
    BY <1>5, <2>1, <2>2, <2>3
<1>6. ASSUME NEW w \in Workers, Apply(w)
      PROVE  Report(e) \in Ahead(v)' \/ Consumed(e, v)
  BY <1>0, <1>6, ApplyKeeps
<1>7. ASSUME NEW w \in Workers, ApplyRolledBack(w)
      PROVE  Report(e) \in Ahead(v)'
  <2>1. /\ worker' = [worker EXCEPT ![w].pc = "raised"]
        /\ worker \in [Workers -> WorkerRecords]
        /\ \E x : TellsToEnd(x)
    BY <1>7, RolledBackTold
  <2>2. event'[e] = event[e] /\ event[e].status # "free"
    BY <2>1, ChangeEvents DEF TellsToEnd, Coming
  <2>3. worker'[w].pc = "raised" /\ \A u \in Workers \ {w} : worker'[u] = worker[u]
    BY <2>1 DEF WorkerRecords
  <2>4. QED
    BY <1>0, <2>2, <2>3, ComingKept
<1>8. QED
  BY <1>1, <1>2, <1>3, <1>4, <1>5, <1>6, <1>7 DEF Next, Webhook
-----------------------------------------------------------------------------
(* What is left to be applied stays left until it is applied; and a        *)
(* workspace that no flaw has touched is tidy.                             *)

(* What is still to be applied with an answer newer than one in flight     *)
(* stays; and all of it does unless an event is applied.                   *)
LEMMA FlightKeeps ==
  ASSUME IInv, [Next]_vars, Newest' = Newest, flaws' = {},
         NEW v \in Int, v < version, applied' <= v
  PROVE  Keeps(v)
<1>1. ASSUME NEW j \in Ahead(v) PROVE j \in Ahead(v)'
  <2>1. PICK e \in Events : Coming(e, v) /\ j = Report(e)
    BY <1>1, AheadIs
  <2>2. ~Consumed(e, v)
    <3>1. SUFFICES ASSUME NEW w \in Workers, worker[w].ver > v, worker[w].pc = "ready",
                          applied' = NewestOf(applied, worker[w].ver)
                   PROVE  FALSE
      BY DEF Consumed
    <3>2. worker[w].ver \in Nat /\ applied \in Nat
      BY <3>1, Holds, RowKnown
    <3>3. QED
      BY <3>1, <3>2 DEF NewestOf
  <2>3. QED
    BY <2>1, <2>2, StepKeeps
<1>2. QED
  BY <1>1 DEF Keeps

LEMMA AllKeep ==
  ASSUME IInv, [Next]_vars, Newest' = Newest, flaws' = {},
         NEW v \in Int, v < version, \A w \in Workers : ~Apply(w)
  PROVE  Keeps(v)
<1>1. ASSUME NEW j \in Ahead(v) PROVE j \in Ahead(v)'
  <2>1. PICK e \in Events : Coming(e, v) /\ j = Report(e)
    BY <1>1, AheadIs
  <2>2. QED
    BY <2>1, StepKeeps DEF Consumed
<1>2. QED
  BY <1>1 DEF Keeps

(* Applying an event consumes none but that.                               *)
LEMMA ApplyLeaves ==
  ASSUME IInv, [Next]_vars, Newest' = Newest, flaws' = {},
         NEW w \in Workers, Apply(w),
         NEW v \in Int, v < version, NEW j \in Ahead(v), j.slot # worker[w].event
  PROVE  j \in Ahead(v)'
<1>1. PICK e \in Events : Coming(e, v) /\ j = Report(e) /\ j.slot = e
  BY AheadIs
<1>2. version' \in Int /\ v < version'
  BY StepCounts, RowKnown DEF Counts
<1>3. event'[e] = event[e] /\ event[e].status # "free"
  <2>1. CASE UNCHANGED event
    BY <1>1, <2>1 DEF Coming
  <2>2. CASE \E s, q, kinds : Change(s, q, kinds)
    BY <1>1, <2>2, ChangeEvents DEF Coming
  <2>3. QED
    BY <2>1, <2>2, ApplyOutcome DEF Settle, TellsToEnd, NoChange
<1>4. /\ \A u \in Workers \ {w} : worker'[u] = worker[u]
      /\ worker'[w].event = worker[w].event
  <2>1. worker \in [Workers -> WorkerRecords]
    BY DEF IInv, WorkerInv
  <2>2. QED
    BY <2>1 DEF Apply, WorkerRecords
<1>5. QED
  BY <1>1, <1>2, <1>3, <1>4, ComingKept

LEMMA BringsLess ==
  ASSUME NEW kinds, Brings(kinds), NEW some, some \subseteq kinds
  PROVE  Brings(some)
BY DEF Brings

LEMMA TurnBrings ==
  ASSUME IInv, StripeDates, Turn
  PROVE  /\ Brings({"subscription"})
         /\ Renewal /\ Latest'.status = "active" => Brings({"paid", "subscription"})
         /\ Renewal /\ Latest'.status = "past_due" => Brings({"failed", "subscription"})
         /\ Recovery => Brings({"paid", "subscription"})
         /\ Called /\ owner.op = "upgrade" => Brings({"paid", "subscription"})
<1>1. Newest \in Subs /\ HoldersStay /\ Newest = Newest' /\ Latest' = stripe'[Newest]
  BY TurnKeeps DEF Turn
<1>2. ASSUME NEW q, NEW kinds, Change(Newest, q, kinds)
      PROVE  Brings(kinds) /\ ("subscription" \in kinds => Brings({"subscription"}))
  <2>1. Brings(kinds)
    BY <1>1, <1>2, ChangeBrings
  <2>2. QED
    BY <2>1, BringsLess
<1>3. CASE Renewal
  <2>1. PICK status, kinds :
          /\ Change(Newest, Renewed(Latest, status), kinds)
          /\ \/ status = "active" /\ kinds = {"paid", "subscription"}
             \/ status = "past_due" /\ kinds = {"failed", "subscription"}
    BY <1>3 DEF Renewal
  <2>2. Latest'.status = status
    <3>1. PICK q : q = Renewed(Latest, status)
      OBVIOUS
    <3>2. Latest' = q
      BY <1>1, <2>1, <3>1, ShapeChange
    <3>3. Latest \in SubscriptionRecords
      BY <1>1, AtStripe DEF Latest
    <3>4. QED
      BY <3>1, <3>2, <3>3 DEF Renewed, SubscriptionRecords
  <2>3. ~Recovery \/ Brings({"paid", "subscription"})
    BY <1>2 DEF Recovery
  <2>4. ~(Called /\ owner.op = "upgrade") \/ Brings({"paid", "subscription"})
    <3>1. {"subscription", "paid"} = {"paid", "subscription"}
      OBVIOUS
    <3>2. QED
      BY <1>2, <3>1 DEF Called
  <2>5. QED
    BY <1>2, <2>1, <2>2, <2>3, <2>4
<1>4. CASE ~Renewal
  <2>1. Recovery => Brings({"paid", "subscription"})
    BY <1>2 DEF Recovery
  <2>2. Called /\ owner.op = "upgrade" => Brings({"paid", "subscription"})
    <3>1. {"subscription", "paid"} = {"paid", "subscription"}
      OBVIOUS
    <3>2. QED
      BY <1>2, <3>1 DEF Called
  <2>3. Brings({"subscription"})
    BY <1>2, <1>4 DEF Turn, Recovery, Closure, ToldToEnd, ToldToGoOn, Called
  <2>4. QED
    BY <1>4, <2>1, <2>2, <2>3
<1>5. QED
  BY <1>3, <1>4
-----------------------------------------------------------------------------
(* As long as no flaw occurs the workspace is tidy, and an upgrade that is *)
(* asked for is one of the row that waits for something else.              *)
UpgradeAsked ==
  owner.pc = "read" /\ owner.op = "upgrade" /\ Awaiting(ws.row) =>
    owner.interval = ws.row.interval /\ ws.row.plan = "plus"
TidyNow ==
  /\ Tidy(ws)
  /\ ws.row.status \in Live => Newest # NoSub
  /\ UpgradeAsked
TidyInv == flaws = {} => TidyNow

LEMMA LeavesSame ==
  ASSUME NEW x, NEW w, SamePending(x.row, w.row), Pair(x.row) = Pair(w.row)
  PROVE  Leaves(x, w)
BY DEF Leaves

LEMMA AloneLeaves ==
  ASSUME NEW w, Tidy(w), NEW x, Alone(x, w), SamePending(x.row, w.row),
         x.row.status \notin Paying => w.row.status \notin Paying
  PROVE  Tidy(x) /\ Leaves(x, w)
<1>1. Leaves(x, w)
  BY LeavesSame DEF Alone, Pair
<1>2. QED
  BY <1>1, TidyLeft DEF Tidy, PlusIsPaid, Alone

LEMMA DispatchedTidies ==
  ASSUME IInv, Tidy(ws), Plain(ws, clock), NEW kind, NEW snap,
         kind # "failed" => /\ snap \in Answers(Ends)
                            /\ snap.status \in Paying => clock >= Ends /\ snap.end > Ends,
         NEW x \in Dispatched(kind, snap)
  PROVE  Sound(x) /\ Tidy(x) /\ Plain(x, clock) /\ Leaves(x, ws)
<1>1. Sound(ws) /\ clock \in Nat /\ Ends \in Nat /\ "none" \notin Intervals
  BY RowKnown, Constants
<1>2. \E y : /\ x = y \/ x = ApplyDueTransitions(y, clock)
             /\ Sound(y) /\ Tidy(y) /\ Plain(y, clock) /\ Leaves(y, ws)
  <2>1. CASE kind = "failed"
    <3>1. PICK y \in MarkPaymentFailure(ws, clock) : x = ApplyDueTransitions(y, clock)
      BY <2>1 DEF Dispatched
    <3>2. /\ Alone(y, ws) /\ SamePending(y.row, ws.row) /\ y.row.status = "past_due"
          /\ ws.row.status \in Paying
      BY <1>1, <3>1, FailureFields
    <3>3. Tidy(y) /\ Leaves(y, ws)
      BY <3>2, AloneLeaves DEF Paying
    <3>4. Sound(y)
      BY <1>1, <3>1, FailureKept DEF AllKept, Kept
    <3>5. Plain(y, clock)
      BY <3>2 DEF Plain, Alone
    <3>6. QED
      BY <3>1, <3>3, <3>4, <3>5
  <2>2. CASE kind # "failed"
    <3>1. PICK y \in Reconcile(ws, snap, clock) : x = y \/ x = ApplyDueTransitions(y, clock)
      BY <2>2 DEF Dispatched
    <3>2. snap \in Answers(ws.trial.ends) /\ (snap.status = "active" => snap.end # NoTime)
      BY <1>1, <2>2 DEF Ends, Paying, NoTime
    <3>3. Leaves(y, ws) /\ PlusIsPaid(y)
      BY <1>1, <3>1, <3>2, AnswerTidies
    <3>4. Sound(y) /\ Taken(y, ws, snap, clock)
      BY <1>1, <2>2, <3>1, <3>2, ReconcileKept, ReconcileTaken DEF AllKept, Kept, Ends
    <3>5. Plain(y, clock) /\ Tidy(y)
      BY <3>3, <3>4, TidyLeft DEF Taken, Tidy
    <3>6. QED
      BY <3>1, <3>3, <3>4, <3>5
  <2>3. QED
    BY <2>1, <2>2
<1>3. PICK y : /\ x = y \/ x = ApplyDueTransitions(y, clock)
               /\ Sound(y) /\ Tidy(y) /\ Plain(y, clock) /\ Leaves(y, ws)
  BY <1>2
<1>4. CASE x = y
  BY <1>3, <1>4
<1>5. CASE x = ApplyDueTransitions(y, clock)
  <2>1. Tidy(x) /\ Leaves(x, y)
    BY <1>1, <1>3, <1>5, DueTidies
  <2>2. Sound(x) /\ Plain(x, clock)
    BY <1>1, <1>3, <1>5, DueKept, DueTaken DEF Kept
  <2>3. QED
    BY <1>3, <2>1, <2>2, LeavesAgain
<1>6. QED
  BY <1>3, <1>4, <1>5

LEMMA LocalTidies ==
  ASSUME IInv, NEW x, Kept(x, ws), Tidy(x), Plain(x, clock),
         NEW s \in Subs \cup {NoSub}, CancelAccepted(s), NEW y \in CancelledLocally(x, s)
  PROVE  Tidy(y) /\ Leaves(y, x)
<1>1. Sound(x) /\ x.trial = ws.trial /\ Exists(s) /\ s \in Subs /\ clock \in Nat
      /\ x.trial.ends \in Nat /\ "none" \notin Intervals
  BY CancelledFits, RowKnown, Constants DEF Kept, Ends
<1>2. CASE TrialActive(x, clock)
  <2>1. PICK ended, z : /\ ended = [Snapshot(s) EXCEPT !.status = "canceled"]
                        /\ z \in Reconcile(x, ended, clock) /\ y = FinalizeSubscriptionEnd(z, clock)
    BY <1>2 DEF CancelledLocally
  <2>2. ended \in Answers(x.trial.ends) /\ ended.status = "canceled"
    <3>1. Snapshot(s) \in Answers(x.trial.ends)
      BY <1>1, ExistsAnswers DEF Ends
    <3>2. QED
      BY <2>1, <3>1 DEF Answers, Snapshots
  <2>3. Leaves(z, x) /\ PlusIsPaid(z)
    BY <1>1, <2>1, <2>2, AnswerTidies
  <2>4. Sound(z) /\ Plain(z, clock)
    <3>1. Taken(z, x, ended, clock)
      BY <1>1, <2>1, <2>2, ReconcileTaken DEF Paying
    <3>2. QED
      BY <1>1, <2>1, <2>2, <3>1, ReconcileKept DEF AllKept, Kept, Taken
  <2>5. /\ Leaves(y, z)
        /\ y = z \/ y.plan = PlanUnlessTrial(z, "basic", clock)
    BY <2>1, <2>4, FinalFields
  <2>6. PlusIsPaid(y)
    <3>1. z.trial.ends \in Nat
      BY <2>4, Known, Constants DEF Workspaces
    <3>2. QED
      BY <1>1, <2>3, <2>4, <2>5, <3>1, BasicPlus
  <2>7. Leaves(y, x)
    BY <2>3, <2>5, LeavesAgain
  <2>8. QED
    BY <2>6, <2>7, TidyLeft DEF Tidy
<1>3. CASE ~TrialActive(x, clock)
  <2>1. PICK when : y \in ScheduleCancellation(x, when)
    BY <1>3 DEF CancelledLocally
  <2>2. Alone(y, x) /\ y.row.status = x.row.status /\ y.row.cancel /\ y.row.pendingAt # NoTime
    BY <1>1, <2>1, CancellationFields DEF Ending
  <2>3. Leaves(y, x)
    BY <2>2 DEF Leaves
  <2>4. QED
    BY <2>2, <2>3, TidyLeft DEF Tidy, PlusIsPaid, Alone
<1>4. QED
  BY <1>2, <1>3
-----------------------------------------------------------------------------
(* The answers that may still be applied, and what an event that is        *)
(* applied makes of the workspace.                                         *)

(* The answers about the newest subscription that may still be applied,    *)
(* and what Stripe would answer now.                                       *)
Now == [snap |-> Snapshot(Newest), ver |-> version]
Recent == {a \in Flight \cup {Now} : a.snap.sub = Newest /\ applied <= a.ver}

LEMMA NewestExists ==
  ASSUME IInv, Newest # NoSub
  PROVE  Newest \in Subs /\ Newest \in Used /\ Exists(Newest)
<1>1. Newest \in Used
  BY NewestUsed
<1>2. QED
  BY <1>1 DEF Used, Exists

LEMMA NowIsRecent ==
  ASSUME IInv
  PROVE  Now \in Recent /\ Now.snap = Snapshot(Newest) /\ Now.ver = version
<1>1. Now.snap.sub = Newest /\ Now.ver = version /\ applied <= version
  BY RowKnown DEF Now, Snapshot, SnapshotOf
<1>2. QED
  BY <1>1 DEF Recent, Now

LEMMA RecentFacts ==
  ASSUME IInv, AnswerInv, DatesInv, BasicInv, Newest # NoSub, NEW a \in Recent
  PROVE  /\ a.snap \in Answers(Ends) /\ a.snap.sub = Newest
         /\ a.ver \in Nat /\ applied <= a.ver /\ a.ver <= version
         /\ a.ver = version => a.snap = Snapshot(Newest)
         /\ a.snap.status \in Paying => clock >= Ends /\ a.snap.end > Ends
         /\ a.snap.status = "trialing" => a.snap.end = Ends
         /\ a.snap.status \in Live => a.snap.end # NoTime
         /\ a.snap.end \in Nat /\ Ends \in Nat
<1>1. /\ a.snap.sub = Newest /\ applied <= a.ver /\ Ends \in Nat /\ version \in Nat
      /\ Newest \in Subs /\ Exists(Newest)
  BY NewestExists, RowKnown DEF Recent
<1>2. /\ a.snap \in Answers(Ends) /\ a.ver \in Nat /\ a.ver <= version
      /\ a.ver = version => a.snap = Snapshot(Newest)
      /\ a.snap.status \in Paying => clock >= Ends /\ a.snap.end > Ends
      /\ a.snap.status = "trialing" => a.snap.end = Ends
  <2>1. CASE a \in Flight
    <3>1. /\ a.snap \in Answers(Ends) /\ a.ver \in Nat /\ a.ver <= version
          /\ a.ver = version => a.snap = Snapshot(a.snap.sub)
      BY <2>1, FlightFacts
    <3>2. /\ a.snap.status \in Paying => clock >= Ends /\ a.snap.end > Ends
          /\ a.snap.status = "trialing" => a.snap.end = Ends
      BY <2>1 DEF BasicInv, FlightDates, DatesInv, FlightInv
    <3>3. QED
      BY <1>1, <3>1, <3>2
  <2>2. CASE a = Now
    <3>1. a.snap = Snapshot(Newest) /\ a.ver = version
      BY <2>2 DEF Now
    <3>2. a.snap \in Answers(Ends)
      BY <1>1, <3>1, ExistsAnswers
    <3>3. a.snap.status = stripe[Newest].status /\ a.snap.end = stripe[Newest].end
      BY <3>1 DEF Snapshot, SnapshotOf
    <3>4. /\ stripe[Newest].status \in Paying => clock >= Ends /\ stripe[Newest].end > Ends
          /\ stripe[Newest].status = "trialing" => stripe[Newest].end = Ends
      BY <1>1 DEF BasicInv, PaidDates, DatesInv, StripeDates
    <3>5. QED
      BY <1>1, <3>1, <3>2, <3>3, <3>4
  <2>3. QED
    BY <2>1, <2>2 DEF Recent
<1>3. a.snap.end \in Nat
  BY <1>1, <1>2, Answered
<1>4. a.snap.status = "trialing" => Ends # NoTime
  BY <1>1, <1>2, Answered
<1>5. QED
  BY <1>1, <1>2, <1>3, <1>4 DEF Live, Paying, NoTime

(* Without a flaw an event that is applied is about the newest             *)
(* subscription, with an answer no older than any applied before, and the  *)
(* end of a blocked workspace is reasserted.                               *)
Reasserted(x) ==
  \/ ws' = x /\ NoChange /\ ~(blocked /\ RunsOn(x))
  \/ /\ blocked /\ RunsOn(x) /\ TellsToEnd(x)
     /\ ws' \in CancelledLocally(x, x.row.sub)
Took(w, x) ==
  /\ x \in Dispatched(event[worker[w].event].kind, worker[w].snap)
  /\ Kept(x, ws) /\ Reasserted(x) /\ applied' = NewestOf(applied, worker[w].ver)
  /\ IF event[worker[w].event].kind = "failed"
     THEN Latest.status = "past_due"
     ELSE \E a \in Recent \cap Flight : a.snap = worker[w].snap /\ a.ver = worker[w].ver
  /\ Newest # NoSub
Raised(w) ==
  /\ UNCHANGED <<ws, applied>> /\ NoChange
  /\ worker' = [worker EXCEPT ![w].pc = "raised"]

LEMMA EventApplied ==
  ASSUME IInv, AnswerInv, NEW w \in Workers, Apply(w), flaws' = {}
  PROVE  /\ UNCHANGED <<clock, blocked, owner>> /\ worker[w].pc = "ready"
         /\ Raised(w) \/ \E x : Took(w, x)
<1>0. PICK e, snap, ver : e = worker[w].event /\ snap = worker[w].snap /\ ver = worker[w].ver
  OBVIOUS
<1>1. /\ worker[w].pc = "ready" /\ UNCHANGED <<clock, blocked, owner>>
      /\ event[e].kind # "failed" => snap \in Answers(Ends) /\ snap.sub = event[e].sub
      /\ ver \in Nat /\ applied \in Nat /\ Exists(event[e].sub)
  BY <1>0, Holds, RowKnown DEF Apply, IInv, WorkerInv, AnswerInv, WorkerCarries, Carries
<1>2. CASE Dispatched(event[e].kind, snap) = {}
  BY <1>0, <1>1, <1>2 DEF Apply, Raised
<1>3. CASE Dispatched(event[e].kind, snap) # {}
  <2>1. PICK x \in Dispatched(event[e].kind, snap) : Settle(x, FlawsOf(e, ver))
    BY <1>0, <1>3 DEF Apply
  <2>2. applied' = NewestOf(applied, ver)
    BY <1>0, <1>3 DEF Apply
  <2>3. Kept(x, ws)
    BY <1>1, <2>1, DispatchedKept DEF AllKept
  <2>4. FlawsOf(e, ver) = {} /\ Reasserted(x)
    BY <2>1 DEF Settle, Flawed, Reasserted
  <2>5. /\ event[e].sub = Newest /\ (event[e].kind # "failed" => applied <= ver)
        /\ event[e].kind = "failed" => stripe[event[e].sub].status = "past_due"
    BY <1>1, <2>4 DEF FlawsOf
  <2>6. Newest # NoSub
    BY <1>1, <2>5, Constants DEF Exists
  <2>7. CASE event[e].kind = "failed"
    BY <1>0, <2>1, <2>2, <2>3, <2>4, <2>5, <2>6, <2>7, <1>1 DEF Took, Latest
  <2>8. CASE event[e].kind # "failed"
    <3>1. PICK a : a = Answer(worker[w])
      OBVIOUS
    <3>2. a \in Flight /\ a.snap = snap /\ a.ver = ver
      BY <1>0, <1>1, <2>8, <3>1 DEF Flight, Carriers, Answer
    <3>3. a \in Recent
      BY <1>1, <2>5, <2>8, <3>2 DEF Recent
    <3>4. QED
      BY <1>0, <1>1, <2>1, <2>2, <2>3, <2>4, <2>6, <2>8, <3>2, <3>3 DEF Took
  <2>9. QED
    BY <2>7, <2>8
<1>4. QED
  BY <1>2, <1>3

LEMMA TookTidies ==
  ASSUME IInv, AnswerInv, DatesInv, BasicInv, Tidy(ws), Plain(ws, clock),
         NEW w \in Workers, NEW x, Took(w, x)
  PROVE  /\ Sound(x) /\ Tidy(x) /\ Plain(x, clock) /\ Leaves(x, ws)
         /\ Tidy(ws') /\ Leaves(ws', ws) /\ Leaves(ws', x)
<1>1. /\ x \in Dispatched(event[worker[w].event].kind, worker[w].snap)
      /\ Kept(x, ws) /\ Reasserted(x)
      /\ event[worker[w].event].kind # "failed" =>
           /\ worker[w].snap \in Answers(Ends)
           /\ worker[w].snap.status \in Paying => clock >= Ends /\ worker[w].snap.end > Ends
  BY RecentFacts DEF Took
<1>2. Sound(x) /\ Tidy(x) /\ Plain(x, clock) /\ Leaves(x, ws)
  BY <1>1, DispatchedTidies
<1>3. Tidy(ws') /\ Leaves(ws', x)
  <2>1. CASE ws' = x
    BY <1>2, <2>1, LeavesSame DEF SamePending
  <2>2. CASE CancelAccepted(x.row.sub) /\ ws' \in CancelledLocally(x, x.row.sub)
    <3>1. x.row.sub \in Subs \cup {NoSub}
      BY <1>2, Known DEF Rows
    <3>2. QED
      BY <1>1, <1>2, <2>2, <3>1, LocalTidies
  <2>3. QED
    BY <1>1, <2>1, <2>2 DEF Reasserted, TellsToEnd
<1>4. QED
  BY <1>2, <1>3, LeavesAgain
-----------------------------------------------------------------------------
(* What the owner writes or leaves behind, and the daily commands, keep    *)
(* the workspace tidy.                                                     *)

(* What the owner writes, or leaves behind, without a flaw.                *)
Wrote ==
  /\ ws' \in Written /\ applied' = NewestOf(applied, owner.ver) /\ Behind = {}
Broke ==
  /\ applied' = applied /\ Torn = {} /\ ws'.plan = ws.plan
  /\ ws' = ws \/ (/\ owner.op \in {"confirm", "retarget", "upgrade", "clear"}
                  /\ ws' \in ReconciledInPart(ws, owner.snap))

LEMMA OwnerAnswer ==
  ASSUME IInv, AnswerInv, BasicInv, OwnerWrites \/ OwnerInterrupted, flaws' = {}
  PROVE  /\ owner.pc = "called" /\ owner.sub = Newest /\ Newest # NoSub /\ owner.op \in Ops
         /\ owner' = NoRequest /\ UNCHANGED <<clock, blocked, stripe, version, event, worker>>
         /\ OwnerWrites => Wrote
         /\ OwnerInterrupted => Broke
         /\ \E a \in Recent \cap Flight : a.snap = owner.snap /\ a.ver = owner.ver
<1>1. /\ owner.pc = "called" /\ owner' = NoRequest
      /\ UNCHANGED <<clock, blocked, stripe, version, event, worker>>
      /\ Overtaken = {} /\ Older = {}
  BY DEF OwnerWrites, OwnerInterrupted, Flawed
<1>2. owner.sub = Newest /\ ~(owner.ver < applied)
  BY <1>1 DEF Overtaken, Older
<1>3. /\ owner.op \in Ops /\ owner.ver \in Nat /\ applied \in Nat /\ owner.snap.sub = Newest
  BY <1>1, <1>2, RowKnown DEF IInv, OwnerInv, OwnerRecords, AnswerInv, OwnerCarries, Carries
<1>4. PICK a : a = Answer(owner)
  OBVIOUS
<1>5. a \in Flight /\ a.snap = owner.snap /\ a.ver = owner.ver
  BY <1>1, <1>4 DEF Flight, Answer
<1>6. a \in Recent
  BY <1>2, <1>3, <1>5 DEF Recent
<1>7. Newest # NoSub
  BY <1>3, <1>5, Constants DEF BasicInv, FlightUsed, Used
<1>8. OwnerWrites => Wrote
  BY DEF OwnerWrites, Wrote, Flawed
<1>9. OwnerInterrupted => Broke
  BY DEF OwnerInterrupted, Broke, Flawed
<1>10. QED
  BY <1>1, <1>2, <1>3, <1>5, <1>6, <1>7, <1>8, <1>9

LEMMA AnswerKeepsTidy ==
  ASSUME IInv, AnswerInv, DatesInv, BasicInv, Tidy(ws), Plain(ws, clock), Newest # NoSub,
         NEW a \in Recent, NEW x \in Reconcile(ws, a.snap, clock)
  PROVE  Kept(x, ws) /\ Sound(x) /\ Tidy(x) /\ Plain(x, clock) /\ Leaves(x, ws)
<1>1. /\ Sound(ws) /\ clock \in Nat /\ Ends \in Nat /\ "none" \notin Intervals
      /\ a.snap \in Answers(ws.trial.ends)
      /\ a.snap.status \in Paying => clock >= ws.trial.ends
      /\ a.snap.status = "active" => a.snap.end # NoTime
  BY RowKnown, Constants, RecentFacts DEF Ends, Live
<1>2. Leaves(x, ws) /\ PlusIsPaid(x)
  BY <1>1, AnswerTidies
<1>3. Kept(x, ws) /\ Sound(x) /\ Taken(x, ws, a.snap, clock)
  BY <1>1, ReconcileKept, ReconcileTaken DEF AllKept, Kept
<1>4. QED
  BY <1>2, <1>3, TidyLeft DEF Taken, Tidy

LEMMA FinalTidies ==
  ASSUME NEW w, Sound(w), Tidy(w), NEW now \in Nat, Plain(w, now),
         NEW x, x = FinalizeSubscriptionEnd(w, now)
  PROVE  Tidy(x) /\ Leaves(x, w)
<1>1. Leaves(x, w) /\ (x = w \/ x.plan = PlanUnlessTrial(w, "basic", now))
  BY FinalFields
<1>2. w.trial.ends \in Nat
  BY Known
<1>3. PlusIsPaid(x)
  BY <1>1, <1>2, BasicPlus DEF Tidy
<1>4. QED
  BY <1>1, <1>3, TidyLeft DEF Tidy

LEMMA WritesTidy ==
  ASSUME IInv, AnswerInv, DatesInv, BasicInv, Tidy(ws), Plain(ws, clock), OwnerWrites, flaws' = {}
  PROVE  Tidy(ws') /\ (Leaves(ws', ws) \/ owner.op = "schedule")
<1>1. /\ ws' \in Written /\ owner.op \in Ops /\ Newest # NoSub /\ owner.pc = "called"
      /\ \E a \in Recent \cap Flight : a.snap = owner.snap /\ a.ver = owner.ver
      /\ Sound(ws) /\ clock \in Nat /\ "none" \notin Intervals
      /\ owner.op = "schedule" => owner.plan \in PaidPlans /\ owner.interval \in Intervals
  BY OwnerAnswer, RowKnown, Constants DEF Wrote, IInv, OwnerInv, WithTarget
<1>2. PICK a \in Recent : a.snap = owner.snap
  BY <1>1
<1>3. CASE owner.op \in {"confirm", "retarget", "upgrade"}
  <2>1. ws' \in Reconcile(ws, a.snap, clock)
    BY <1>1, <1>2, <1>3 DEF Written
  <2>2. QED
    BY <1>1, <2>1, AnswerKeepsTidy
<1>4. CASE owner.op = "clear"
  <2>1. PICK y \in Reconcile(ws, a.snap, clock) : ws' = FinalizeSubscriptionEnd(y, clock)
    BY <1>1, <1>2, <1>4 DEF Written
  <2>2. Sound(y) /\ Tidy(y) /\ Plain(y, clock) /\ Leaves(y, ws)
    BY <1>1, <2>1, AnswerKeepsTidy
  <2>3. Tidy(ws') /\ Leaves(ws', y)
    BY <1>1, <2>1, <2>2, FinalTidies
  <2>4. QED
    BY <2>2, <2>3, LeavesAgain
<1>5. CASE owner.op = "schedule"
  <2>1. ws' \in ScheduleBillingChange(ws, owner.plan, owner.interval)
    BY <1>1, <1>5 DEF Written
  <2>2. Alone(ws', ws) /\ ws'.row.status = ws.row.status /\ TidyRow(ws'.row)
    BY <1>1, <1>5, <2>1, ScheduledFields
  <2>3. QED
    BY <1>5, <2>2 DEF Tidy, PlusIsPaid, Alone
<1>6. CASE owner.op \in {"cancel", "resume", "release"}
  <2>1. Alone(ws', ws) /\ ws'.row.status = ws.row.status /\ Leaves(ws', ws)
    <3>1. CASE owner.op = "cancel"
      <4>1. PICK when : ws' \in ScheduleCancellation(ws, when)
        BY <1>1, <3>1 DEF Written
      <4>2. QED
        BY <1>1, <4>1, CancellationFields DEF Ending, Leaves
    <3>2. CASE owner.op = "resume"
      <4>1. ws' \in ClearPendingCancellation(ws)
        BY <1>1, <3>2 DEF Written
      <4>2. QED
        BY <1>1, <4>1, ResumedFields
    <3>3. CASE owner.op = "release"
      <4>1. ws' \in ClearPendingScheduledChange(ws)
        BY <1>1, <3>3 DEF Written
      <4>2. QED
        BY <1>1, <4>1, ReleasedFields DEF Tidy
    <3>4. QED
      BY <1>6, <3>1, <3>2, <3>3
  <2>2. QED
    BY <2>1, TidyLeft DEF Tidy, PlusIsPaid, Alone
<1>7. QED
  BY <1>1, <1>3, <1>4, <1>5, <1>6 DEF Ops, WithTarget

LEMMA BrokeFields ==
  ASSUME IInv, AnswerInv, BasicInv, OwnerInterrupted, flaws' = {}
  PROVE  /\ Alone(ws', ws) /\ SamePending(ws'.row, ws.row) /\ ws'.row.end = ws.row.end
         /\ \/ ws'.row.status = ws.row.status
            \/ /\ ws.row.status = "past_due" /\ ws'.row.status = "active"
               /\ owner.snap.status \in {"trialing", "active"}
<1>1. /\ Broke /\ owner.pc = "called" /\ Sound(ws) /\ owner.snap \in Answers(ws.trial.ends)
  BY OwnerAnswer, RowKnown DEF IInv, OwnerInv, Ends
<1>2. CASE ws' = ws
  BY <1>2 DEF Alone, SamePending
<1>3. CASE ws' \in ReconciledInPart(ws, owner.snap)
  BY <1>1, <1>3, InPartFields DEF Broke, RecoveredStatus
<1>4. QED
  BY <1>1, <1>2, <1>3 DEF Broke

LEMMA BrokeTidy ==
  ASSUME IInv, AnswerInv, BasicInv, Tidy(ws), OwnerInterrupted, flaws' = {}
  PROVE  Tidy(ws') /\ Leaves(ws', ws)
<1>1. ws'.row.status \notin Paying => ws.row.status \notin Paying
  BY BrokeFields DEF Paying
<1>2. QED
  BY <1>1, BrokeFields, AloneLeaves

(* What the end of the free week makes of a workspace.                     *)
LEMMA ExpiryFields ==
  ASSUME NEW w, Sound(w), NEW now, Plain(w, now), NEW x, x = ExpireDueTrial(w, now)
  PROVE  x.row = w.row /\ (x.plan = w.plan \/ (x.plan = "basic" /\ w.row.status \notin Paying))
         /\ x.trial.ends = w.trial.ends
<1>1. w \in Workspaces /\ (w.row.status \in Paying => w.row.plan \in PaidPlans)
  BY Known DEF RowDated, Live, Paying
<1>2. ASSUME NEW p PROVE  LET y == [w EXCEPT !.plan = p, !.trial.expired = TRUE] IN
                          y.row = w.row /\ y.trial.ends = w.trial.ends /\ y.plan = p
  BY <1>1 DEF Workspaces
<1>3. CASE x = w
  BY <1>3
<1>4. CASE w.row.status \in Paying /\ x = [w EXCEPT !.plan = w.row.plan, !.trial.expired = TRUE]
  BY <1>2, <1>4 DEF Plain
<1>5. CASE w.row.status \notin Paying /\ x = [w EXCEPT !.plan = "basic", !.trial.expired = TRUE]
  <2>1. \A p : LET y == [w EXCEPT !.plan = p, !.trial.expired = TRUE] IN
               y.row = w.row /\ y.trial.ends = w.trial.ends /\ y.plan = p
    BY <1>2
  <2>2. LET y == [w EXCEPT !.plan = "basic", !.trial.expired = TRUE] IN
        y.row = w.row /\ y.trial.ends = w.trial.ends /\ y.plan = "basic"
    BY <2>1
  <2>3. x.row = w.row /\ x.trial.ends = w.trial.ends /\ x.plan = "basic"
    BY <1>5, <2>2
  <2>4. QED
    BY <1>5, <2>3
<1>6. QED
  BY <1>1, <1>3, <1>4, <1>5 DEF ExpireDueTrial

LEMMA PlatformTidy ==
  ASSUME IInv, Tidy(ws), Plain(ws, clock), Platform
  PROVE  Tidy(ws') /\ Leaves(ws', ws) /\ (ws'.row.status \in Live => ws.row.status \in Live)
<1>1. /\ Sound(ws) /\ clock \in Nat /\ "none" \notin Intervals /\ Kept(ws, ws)
      /\ ws.row.sub \in Subs \cup {NoSub}
  BY RowKnown, Constants, KeptSame, Known DEF Rows
<1>2. PICK due : due = ApplyDueTransitions(ws, clock)
  OBVIOUS
<1>3. /\ Tidy(due) /\ Leaves(due, ws) /\ Sound(due)
      /\ due.row.status \in Live => ws.row.status \in Live
  BY <1>1, <1>2, DueTidies, DueKept, DueAlive DEF Kept
<1>4. CASE SendPaymentWarnings
  BY <1>2, <1>3, <1>4 DEF SendPaymentWarnings
<1>5. CASE ExpireTrial
  <2>1. ws'.row = ws.row /\ (ws'.plan = ws.plan \/ ws'.plan = "basic")
    BY <1>1, <1>5, ExpiryFields DEF ExpireTrial
  <2>2. QED
    BY <2>1, LeavesSame DEF SamePending, Tidy, PlusIsPaid
<1>6. CASE Block
  <2>1. CASE ws' = ws
    BY <2>1, LeavesSame DEF SamePending
  <2>2. CASE RunsOn(ws) /\ CancelAccepted(ws.row.sub) /\ ws' \in CancelledLocally(ws, ws.row.sub)
    BY <1>1, <2>2, LocalTidies DEF RunsOn
  <2>3. QED
    BY <1>6, <2>1, <2>2 DEF Block, TellsToEnd
<1>7. CASE Unblock
  <2>1. \/ ws' \in ClearPendingCancellation(due) \/ ws' = due
        \/ due.row.status \notin Live /\ ws' = [due EXCEPT !.plan = "basic"]
    BY <1>2, <1>7 DEF Unblock
  <2>2. CASE ws' \in ClearPendingCancellation(due)
    <3>1. Alone(ws', due) /\ ws'.row.status = due.row.status /\ Leaves(ws', due)
      BY <1>3, <2>2, ResumedFields
    <3>2. Tidy(ws')
      BY <1>3, <3>1, TidyLeft DEF Tidy, PlusIsPaid, Alone
    <3>3. QED
      BY <1>3, <3>1, <3>2, LeavesAgain
  <2>3. CASE due.row.status \notin Live /\ ws' = [due EXCEPT !.plan = "basic"]
    <3>1. ws'.row = due.row /\ ws'.plan = "basic"
      BY <1>3, <2>3, Known DEF Workspaces
    <3>2. Leaves(ws', due)
      BY <3>1, LeavesSame DEF SamePending
    <3>3. QED
      BY <1>3, <2>3, <3>1, <3>2, LeavesAgain DEF Tidy, PlusIsPaid
  <2>4. QED
    BY <1>3, <2>1, <2>2, <2>3
<1>8. CASE BlockFails \/ UnblockFails
  BY <1>8, LeavesSame DEF BlockFails, UnblockFails, SamePending
<1>9. QED
  BY <1>4, <1>5, <1>6, <1>7, <1>8 DEF Platform
-----------------------------------------------------------------------------
(* TidyInv is kept; and a subscription that runs.                          *)

LEMMA RowActs ==
  ASSUME [Next]_vars
  PROVE  \/ UNCHANGED ws \/ (\E w \in Workers : Apply(w))
         \/ OwnerWrites \/ OwnerInterrupted \/ Platform
BY DEF Next, vars, Stripe, Subscribe, PeriodEnds, RetrySucceeds, GivesUp, StripeKeeps, Owner,
       OwnerReads, OwnerCalls, OwnerRefused, Tick, Webhook, Claim, Take, Retrieve,
       RetrieveFails, ApplyRolledBack, MarkProcessed, MarkFailed, Crash, Release,
       AnswerInProgress

LEMMA StepTidies ==
  ASSUME IInv, AnswerInv, DatesInv, BasicInv, PeriodInv, TidyInv, [Next]_vars, flaws' = {}
  PROVE  /\ flaws = {} /\ Tidy(ws) /\ Plain(ws, clock) /\ Tidy(ws')
         /\ Leaves(ws', ws) \/ (OwnerWrites /\ owner.op = "schedule")
<1>1. flaws = {} /\ Tidy(ws) /\ Plain(ws, clock)
  BY FlawsGrow DEF TidyInv, TidyNow, PeriodInv, RowPeriod, RowPlain
<1>2. CASE UNCHANGED ws
  BY <1>1, <1>2, LeavesSame DEF SamePending
<1>3. CASE \E w \in Workers : Apply(w)
  <2>1. PICK w \in Workers : Apply(w)
    BY <1>3
  <2>2. Raised(w) \/ \E x : Took(w, x)
    BY <2>1, EventApplied
  <2>3. QED
    BY <1>1, <1>2, <2>2, TookTidies DEF Raised
<1>4. CASE OwnerWrites
  BY <1>1, <1>4, WritesTidy
<1>5. CASE OwnerInterrupted
  BY <1>1, <1>5, BrokeTidy
<1>6. CASE Platform
  BY <1>1, <1>6, PlatformTidy
<1>7. QED
  BY <1>2, <1>3, <1>4, <1>5, <1>6, RowActs

LEMMA LiveNeeds ==
  ASSUME IInv, AnswerInv, DatesInv, BasicInv, PeriodInv, TidyInv, [Next]_vars, flaws' = {},
         ws'.row.status \in Live
  PROVE  Newest' # NoSub
<1>1. flaws = {} /\ Tidy(ws) /\ Plain(ws, clock) /\ (ws.row.status \in Live => Newest # NoSub)
  BY FlawsGrow DEF TidyInv, TidyNow, PeriodInv, RowPeriod, RowPlain
<1>2. CASE Subscribe
  BY <1>2, Bought, Constants DEF BasicInv
<1>3. CASE ~Subscribe
  <2>0. Newest' = Newest
    BY <1>3, StepFlows DEF Flows
  <2>1. ws.row.status \in Live \/ Newest # NoSub
    <3>1. CASE \E w \in Workers : Apply(w)
      <4>1. PICK w \in Workers : Apply(w)
        BY <3>1
      <4>2. QED
        BY <4>1, EventApplied DEF Raised, Took
    <3>2. CASE OwnerWrites \/ OwnerInterrupted
      BY <3>2, OwnerAnswer
    <3>3. CASE Platform
      BY <1>1, <3>3, PlatformTidy
    <3>4. QED
      BY <3>1, <3>2, <3>3, RowActs
  <2>2. QED
    BY <1>1, <2>0, <2>1
<1>4. QED
  BY <1>2, <1>3

LEMMA StepTidyInv ==
  ASSUME IInv, AnswerInv, DatesInv, BasicInv, PeriodInv, TidyInv, [Next]_vars
  PROVE  TidyInv'
<1>1. SUFFICES ASSUME flaws' = {} PROVE TidyNow'
  BY DEF TidyInv
<1>2. /\ flaws = {} /\ Tidy(ws) /\ Plain(ws, clock) /\ Tidy(ws')
      /\ Leaves(ws', ws) \/ (OwnerWrites /\ owner.op = "schedule")
  BY <1>1, StepTidies
<1>3. ws'.row.status \in Live => Newest' # NoSub
  BY <1>1, LiveNeeds
<1>4. UpgradeAsked'
  <2>1. SUFFICES ASSUME owner'.pc = "read", owner'.op = "upgrade", Awaiting(ws'.row)
                 PROVE  owner'.interval = ws'.row.interval /\ ws'.row.plan = "plus"
    BY DEF UpgradeAsked
  <2>2. CASE UNCHANGED owner
    <3>1. Leaves(ws', ws)
      BY <1>2, <2>1, <2>2 DEF OwnerWrites
    <3>2. Awaiting(ws.row) /\ Pair(ws'.row) = Pair(ws.row)
      BY <1>2, <2>1, <3>1, TidyLeft DEF Tidy
    <3>3. UpgradeAsked
      BY <1>2 DEF TidyInv, TidyNow
    <3>4. QED
      BY <2>1, <2>2, <3>2, <3>3 DEF UpgradeAsked, Pair
  <2>3. CASE OwnerReads
    <3>1. PICK op \in Ops : Asks(op) /\ \E target \in Targets(op) :
            owner' = [NoRequest EXCEPT
                 !.pc = "read", !.op = op,
                 !.sub = IF op = "confirm" THEN Newest ELSE ws.row.sub,
                 !.deferred = op = "cancel" /\ ws.row.status = "trialing",
                 !.plan = target[1], !.interval = target[2]]
      BY <2>3 DEF OwnerReads
    <3>2. PICK target \in Targets(op) : owner' = [NoRequest EXCEPT
                 !.pc = "read", !.op = op,
                 !.sub = IF op = "confirm" THEN Newest ELSE ws.row.sub,
                 !.deferred = op = "cancel" /\ ws.row.status = "trialing",
                 !.plan = target[1], !.interval = target[2]]
      BY <3>1
    <3>6. op = "upgrade" /\ owner'.interval = target[2] /\ UNCHANGED ws
      BY <2>1, <2>3, <3>2 DEF OwnerReads, NoRequest
    <3>3. target[2] = ws.row.interval
      BY <3>2, <3>6 DEF Targets, WithTarget
    <3>4. ws.row.plan = "plus"
      BY <3>1, <3>6 DEF Asks
    <3>5. QED
      BY <3>6, <3>3, <3>4
  <2>4. QED
    BY <2>1, <2>2, <2>3, OwnerMoves, CallsFacts DEF NoRequest
<1>5. QED
  BY <1>2, <1>3, <1>4 DEF TidyNow

LEMMA InitTidy ==
  ASSUME Init
  PROVE  TidyInv
<1>1. /\ ws.row = NoRow /\ ws.plan \in {"business", "basic"} /\ owner = NoRequest
  BY DEF Init
<1>2. QED
  BY <1>1 DEF TidyInv, TidyNow, Tidy, PlusIsPaid, TidyRow, Awaiting, NoRow, UpgradeAsked,
              NoRequest, NoTime, PaidPlans, Live
-----------------------------------------------------------------------------
(* The owner's request has not been overtaken, and the newest subscription *)
(* is one that has not ended, and of which no flaw has occurred.           *)
Doomed  == owner.pc = "called" /\ owner.ver < applied
Running == Newest # NoSub /\ flaws = {} /\ ~Doomed /\ IsLive(Newest)

LEMMA AppliedGrows ==
  ASSUME IInv, [Next]_vars
  PROVE  applied \in Nat /\ applied' \in Nat /\ applied <= applied'
<1>1. /\ version \in Nat /\ applied \in Nat /\ applied <= version /\ owner.ver \in Nat
      /\ \A w \in Workers : worker[w].ver \in Nat
  BY RowKnown DEF IInv, OwnerInv, OwnerRecords, WorkerInv, WorkerRecords
<1>2. CASE \E w \in Workers : Apply(w)
  BY <1>1, <1>2 DEF Apply, NewestOf
<1>3. CASE OwnerWrites
  BY <1>1, <1>3 DEF OwnerWrites, NewestOf
<1>4. CASE Block
  BY <1>1, <1>4 DEF Block, TellsToEnd, Change
<1>5. CASE Unblock
  BY <1>1, <1>5 DEF Unblock, TellsToGoOn, Change
<1>6. CASE UNCHANGED applied
  BY <1>1, <1>6
<1>7. QED
  BY <1>2, <1>3, <1>4, <1>5, <1>6
     DEF Next, vars, Stripe, Subscribe, PeriodEnds, RetrySucceeds, GivesUp, StripeKeeps, Owner,
         OwnerReads, OwnerCalls, OwnerRefused, OwnerInterrupted, Tick, Platform,
         SendPaymentWarnings, ExpireTrial, BlockFails, UnblockFails, Webhook, Claim, Take,
         Retrieve, RetrieveFails, ApplyRolledBack, MarkProcessed, MarkFailed, Crash, Release,
         AnswerInProgress

LEMMA RunningBack ==
  ASSUME IInv, [Next]_vars, Running'
  PROVE  flaws = {} /\ flaws' = {} /\ ((Running /\ Newest' = Newest) \/ Subscribe)
<1>1. flaws = {} /\ flaws' = {}
  BY FlawsGrow DEF Running
<1>2. SUFFICES ASSUME ~Subscribe PROVE Running /\ Newest' = Newest
  BY <1>1
<1>3. Newest' = Newest /\ FinalStays
  BY <1>2, StepFlows DEF Flows
<1>4. IsLive(Newest)
  <2>1. Newest # NoSub
    BY <1>3 DEF Running
  <2>2. Newest \in Subs /\ stripe[Newest].status # "none"
    BY <2>1, NewestExists DEF Exists
  <2>3. stripe[Newest] \in SubscriptionRecords
    BY <2>2, AtStripe
  <2>4. stripe'[Newest].status \in Live
    BY <1>3 DEF Running, IsLive
  <2>5. stripe[Newest].status # "canceled"
    BY <1>3, <2>2, <2>4 DEF FinalStays, Live
  <2>6. QED
    BY <2>2, <2>3, <2>5 DEF IsLive, SubscriptionRecords, Live
<1>5. ~Doomed
  <2>1. SUFFICES ASSUME Doomed PROVE FALSE
    OBVIOUS
  <2>2. owner.ver \in Nat /\ applied \in Nat /\ applied' \in Nat /\ applied <= applied'
    BY AppliedGrows DEF IInv, OwnerInv, OwnerRecords
  <2>3. CASE UNCHANGED owner
    BY <2>1, <2>2, <2>3 DEF Doomed, Running
  <2>4. CASE OwnerWrites \/ OwnerInterrupted
    BY <1>1, <2>1, <2>4 DEF Doomed, OwnerWrites, OwnerInterrupted, Overtaken, Flawed
  <2>5. QED
    BY <2>1, <2>3, <2>4, OwnerMoves DEF Doomed, OwnerReads, OwnerCalls, OwnerRefused
<1>6. QED
  BY <1>1, <1>3, <1>4, <1>5 DEF Running

LEMMA RecentStep ==
  ASSUME IInv, IInv', [Next]_vars, NEW a \in Recent'
  PROVE  /\ a.snap.sub = Newest' /\ applied' <= a.ver
         /\ a = Now' \/ (a \in Flight /\ (Newest' = Newest => a \in Recent))
<1>1. a \in Flight' \cup {Now'} /\ a.snap.sub = Newest' /\ applied' <= a.ver
  BY DEF Recent
<1>2. applied \in Nat /\ applied' \in Nat /\ applied <= applied'
  BY AppliedGrows
<1>3. CASE a \in Flight
  <2>1. a.ver \in Nat
    BY <1>3 DEF Flight, Answer, Carriers, IInv, OwnerInv, OwnerRecords, WorkerInv, WorkerRecords
  <2>2. QED
    BY <1>1, <1>2, <1>3, <2>1 DEF Recent
<1>4. CASE a \in Flight' /\ a \notin Flight
  <2>1. PICK s \in Subs : a.snap = Snapshot(s)' /\ a.ver = version'
    BY <1>4, StepFlows DEF Flows, FlightStep
  <2>2. s = Newest'
    BY <1>1, <2>1 DEF Snapshot, SnapshotOf
  <2>3. a = [snap |-> a.snap, ver |-> a.ver]
    BY <1>4 DEF Flight, Answer
  <2>4. QED
    BY <1>1, <2>1, <2>2, <2>3 DEF Now
<1>5. QED
  BY <1>1, <1>3, <1>4
-----------------------------------------------------------------------------
(* AnswersFit: the answers that may still be applied are explained by what *)
(* is reported.                                                            *)

(* What may still be applied is explained by what is reported: an answer   *)
(* that is behind is followed by a report, and by two, or by both reports  *)
(* of a failure, when it is behind in status, terms or period.             *)
Lags(a) == a.ver < version
Failing(K) == Has(K, {"failed"}) /\ Has(K, {"subscription"})
AnswerFits(a) ==
  /\ Lags(a) => Has(Ahead(a.ver), Reports)
  /\ Lags(a) /\ Latest.status = "active" =>
       (a.snap.status = "active" /\ SameTerms(a.snap, Latest)) \/ HasTwo(Ahead(a.ver))
  /\ Lags(a) /\ Latest.status = "past_due" =>
       (a.snap.status = "past_due" /\ a.snap.end = Latest.end) \/ Failing(Ahead(a.ver))
  /\ a.snap.end <= Latest.end /\ (a.snap.end = Latest.end \/ a.snap.end <= clock)
  /\ Latest.status = "trialing" => a.snap.status = "trialing"
  /\ a.snap.status = "trialing" /\ clock < Ends => ~a.snap.cancel
  /\ Latest.status = "past_due" /\ a.snap.status = "active" => a.snap.end # Latest.end
AnswersFit == Running => \A a \in Recent : AnswerFits(a)

LEMMA NewestLive ==
  ASSUME IInv, DatesInv, IsLive(Newest), Newest # NoSub
  PROVE  /\ Newest \in Subs /\ Latest.end \in Nat /\ clock \in Nat /\ Latest.end >= clock
         /\ Latest.status \in Live /\ Ends \in Nat /\ Latest.interval \in Intervals
         /\ Latest.plan \in PaidPlans /\ Latest.trialEnd \in Nat /\ Latest.cancel \in BOOLEAN
         /\ Latest.status = "trialing" => Latest.end = Ends
         /\ Latest.status \in Paying => clock >= Ends
<1>1. Newest \in Subs
  BY NewestExists
<1>2. stripe[Newest] \in Subscriptions(Ends) /\ stripe[Newest].end \in Nat /\ Ends \in Nat
      /\ stripe[Newest] \in SubscriptionRecords
  BY <1>1, AtStripe
<1>3. stripe[Newest].status # "none"
  BY DEF IsLive, Live
<1>4. stripe[Newest].trialEnd \in Nat
  BY <1>2, Constants DEF SubscriptionRecords
<1>5. QED
  BY <1>1, <1>2, <1>3, <1>4, RowKnown
     DEF IsLive, DatesInv, StripeDates, Latest, Subscriptions, SubscriptionRecords

(* What a turn makes of the newest subscription, as far as answers go.     *)
TurnsTo(q, t) ==
  /\ Brings({"subscription"})
  /\ q.end = t.end \/ (t.end = clock /\ q.end = clock + Period)
  /\ q.status = "trialing" => /\ t.status = "trialing" /\ q.end = t.end
                              /\ q.cancel => t.cancel \/ clock >= Ends
  /\ q.status = "active" =>
       \/ Brings({"paid", "subscription"})
       \/ t.status = "active" /\ SameTerms(q, t)
  /\ q.status = "past_due" =>
       \/ Brings({"failed", "subscription"}) /\ q.end = clock + Period /\ t.end = clock
       \/ t.status = "past_due" /\ q.end = t.end

LEMMA TurnSums ==
  ASSUME IInv, DatesInv, BasicInv, Turn, IsLive(Newest)'
  PROVE  TurnsTo(Latest', Latest)
<1>1. /\ Brings({"subscription"})
      /\ Renewal /\ Latest'.status = "active" => Brings({"paid", "subscription"})
      /\ Renewal /\ Latest'.status = "past_due" => Brings({"failed", "subscription"})
      /\ Recovery => Brings({"paid", "subscription"})
      /\ Called /\ owner.op = "upgrade" => Brings({"paid", "subscription"})
  BY TurnBrings DEF DatesInv
<1>2. Latest'.status \in Live
  BY TurnKeeps DEF IsLive, Latest
<1>3. Latest.status = "trialing" => Latest.end = Ends
  BY DEF DatesInv, StripeDates, Latest, Turn
<1>4. CASE Renewal
  BY <1>1, <1>4, RenewalFields DEF NextPeriod, TurnsTo, DatesInv
<1>5. CASE Recovery
  BY <1>1, <1>5, RecoveryFields DEF SameTerms, TurnsTo
<1>6. CASE Closure
  BY <1>2, <1>6, ClosureFields DEF Live
<1>7. CASE ToldToEnd
  <2>1. /\ Change(Newest, [Latest EXCEPT !.cancel = TRUE], {"subscription"})
        /\ clock >= Ends
    BY <1>7 DEF ToldToEnd
  <2>2. SameTerms(Latest', Latest) /\ Latest'.status = Latest.status
    BY <2>1, ToldFields
  <2>3. QED
    BY <1>1, <2>1, <2>2 DEF SameTerms, TurnsTo
<1>8. CASE ToldToGoOn
  <2>1. Change(Newest, [Latest EXCEPT !.cancel = FALSE], {"subscription"})
    BY <1>8 DEF ToldToGoOn
  <2>2. SameTerms(Latest', Latest) /\ Latest'.status = Latest.status /\ Latest'.cancel = FALSE
    BY <2>1, ToldFields
  <2>3. QED
    BY <1>1, <2>2 DEF SameTerms, TurnsTo
<1>9. CASE Called
  <2>1. /\ owner.op \in Ops \ {"confirm"} /\ owner.pc = "read"
        /\ owner.op = "clear" => Latest'.status = "canceled"
        /\ owner.op # "clear" => Latest'.status = Latest.status /\ Latest'.end = Latest.end
        /\ owner.op \in {"schedule", "cancel", "resume", "release"} => SameTerms(Latest', Latest)
        /\ owner.op \in {"upgrade", "schedule", "release"} => Latest'.cancel = Latest.cancel
        /\ owner.op \in {"retarget", "resume"} => ~Latest'.cancel
        /\ owner.op = "retarget" => Latest.status = "trialing"
    BY <1>9, CalledFields
  <2>2. owner.op # "clear"
    BY <1>2, <2>1 DEF Live
  <2>3. owner.op \in {"cancel"} => clock >= Ends
    BY <2>1 DEF BasicInv, OwnerLate
  <2>4. Latest'.status = "trialing" /\ Latest'.cancel => Latest.cancel \/ clock >= Ends
    BY <2>1, <2>2, <2>3 DEF Ops, WithTarget
  <2>5. /\ Latest'.status = Latest.status /\ Latest'.end = Latest.end
        /\ Latest.status = "active" =>
             Brings({"paid", "subscription"}) \/ SameTerms(Latest', Latest)
    BY <1>1, <1>9, <2>1, <2>2 DEF Ops, WithTarget
  <2>6. QED
    BY <1>1, <2>4, <2>5 DEF TurnsTo
<1>10. QED
  BY <1>4, <1>5, <1>6, <1>7, <1>8, <1>9 DEF Turn

(* The answers that were in flight while Stripe rests.                     *)
LEMMA FitsRest ==
  ASSUME IInv, [Next]_vars, Newest' = Newest, flaws' = {}, Ends' = Ends,
         UNCHANGED <<stripe, version>>, clock \in Nat, clock' \in Nat, clock <= clock',
         NEW a, a.ver \in Nat, a.snap.end \in Nat, Ends \in Nat, applied' <= a.ver, AnswerFits(a)
  PROVE  AnswerFits(a)'
<1>1. Latest' = Latest /\ version' = version /\ version \in Nat
  BY RowKnown DEF Latest
<1>2. Lags(a)' => Lags(a) /\ Keeps(a.ver)
  BY <1>1, FlightKeeps DEF Lags
<1>3. Lags(a)' => (Has(Ahead(a.ver), Reports) => Has(Ahead(a.ver)', Reports))
                  /\ (HasTwo(Ahead(a.ver)) => HasTwo(Ahead(a.ver)'))
                  /\ (Failing(Ahead(a.ver)) => Failing(Ahead(a.ver)'))
  BY <1>2, HasMore, TwoMore DEF Keeps, Failing
<1>4. /\ a.snap.end <= Latest'.end /\ (a.snap.end = Latest'.end \/ a.snap.end <= clock')
      /\ a.snap.status = "trialing" /\ clock' < Ends' => ~a.snap.cancel
  BY <1>1 DEF AnswerFits
<1>5. QED
  BY <1>1, <1>2, <1>3, <1>4 DEF AnswerFits

(* The answers that were in flight when Stripe moves.                      *)
LEMMA FitsTurn ==
  ASSUME IInv, [Next]_vars, Newest' = Newest, flaws' = {}, Ends' = Ends, clock' = clock,
         version \in Nat, version' = version + 1, clock \in Nat, Period \in Nat,
         TurnsTo(Latest', Latest), Latest.end \in Nat, Latest.end >= clock,
         NEW a, a.ver \in Nat, a.ver <= version, a.snap.end \in Nat, Ends \in Nat,
         applied' <= a.ver, AnswerFits(a),
         Latest.status = "trialing" => Latest.end = Ends,
         a.ver = version => /\ a.snap.status = Latest.status /\ SameTerms(a.snap, Latest)
  PROVE  AnswerFits(a)'
<1>1. /\ Lags(a) => Keeps(a.ver)
      /\ ~Lags(a) => a.ver = version
  BY FlightKeeps DEF Lags
<1>2. Has(Ahead(a.ver)', Reports)
  BY BroughtHas DEF TurnsTo, Reports
<1>3. Latest'.status = "active" =>
        (a.snap.status = "active" /\ SameTerms(a.snap, Latest')) \/ HasTwo(Ahead(a.ver)')
  <2>1. CASE Brings({"paid", "subscription"})
    BY <2>1, BroughtTwo
  <2>2. CASE Latest.status = "active" /\ SameTerms(Latest', Latest)
    <3>1. CASE Lags(a)
      <4>1. (a.snap.status = "active" /\ SameTerms(a.snap, Latest)) \/ HasTwo(Ahead(a.ver))
        BY <2>2, <3>1 DEF AnswerFits
      <4>2. HasTwo(Ahead(a.ver)) => HasTwo(Ahead(a.ver)')
        BY <1>1, <3>1, TwoMore DEF Keeps
      <4>3. QED
        BY <2>2, <4>1, <4>2 DEF SameTerms
    <3>2. CASE ~Lags(a)
      BY <1>1, <2>2, <3>2 DEF SameTerms
    <3>3. QED
      BY <3>1, <3>2
  <2>3. QED
    BY <2>1, <2>2 DEF TurnsTo
<1>4. Latest'.status = "past_due" =>
        /\ (a.snap.status = "past_due" /\ a.snap.end = Latest'.end) \/ Failing(Ahead(a.ver)')
        /\ a.snap.status = "active" => a.snap.end # Latest'.end
  <2>1. CASE Brings({"failed", "subscription"}) /\ Latest'.end = clock + Period /\ Latest.end = clock
    <3>1. Failing(Ahead(a.ver)')
      BY <2>1, BroughtHas DEF Failing
    <3>2. a.snap.end <= clock /\ Latest'.end > clock
      BY <2>1, Constants, StripeAssumption DEF AnswerFits
    <3>3. QED
      BY <3>1, <3>2
  <2>2. CASE Latest.status = "past_due" /\ Latest'.end = Latest.end
    <3>1. CASE Lags(a)
      <4>1. (a.snap.status = "past_due" /\ a.snap.end = Latest.end) \/ Failing(Ahead(a.ver))
        BY <2>2, <3>1 DEF AnswerFits
      <4>2. Failing(Ahead(a.ver)) => Failing(Ahead(a.ver)')
        BY <1>1, <3>1, HasMore DEF Keeps, Failing
      <4>3. QED
        BY <2>2, <4>1, <4>2 DEF AnswerFits
    <3>2. CASE ~Lags(a)
      BY <1>1, <2>2, <3>2 DEF SameTerms, AnswerFits
    <3>3. QED
      BY <3>1, <3>2
  <2>3. QED
    BY <2>1, <2>2 DEF TurnsTo
<1>5. a.snap.end <= Latest'.end /\ (a.snap.end = Latest'.end \/ a.snap.end <= clock')
  BY DEF TurnsTo, AnswerFits
<1>6. /\ Latest'.status = "trialing" => a.snap.status = "trialing"
      /\ a.snap.status = "trialing" /\ clock' < Ends' => ~a.snap.cancel
  BY DEF TurnsTo, AnswerFits
<1>7. QED
  BY <1>2, <1>3, <1>4, <1>5, <1>6 DEF AnswerFits

(* What Stripe would answer now fits.                                      *)
LEMMA FitsNow ==
  ASSUME NEW a, a.ver = version', a.snap = Snapshot(Newest)', version' \in Nat,
         Latest'.end \in Nat,
         Latest'.status = "trialing" /\ clock' < Ends' => ~Latest'.cancel
  PROVE  AnswerFits(a)'
<1>1. /\ a.snap.status = Latest'.status /\ a.snap.end = Latest'.end /\ a.snap.cancel = Latest'.cancel
  BY DEF Snapshot, SnapshotOf, Latest
<1>2. ~(Lags(a)')
  BY DEF Lags
<1>3. QED
  BY <1>1, <1>2 DEF AnswerFits
-----------------------------------------------------------------------------
(* AnswersFit is kept.                                                     *)

LEMMA NextLive ==
  ASSUME IInv', DatesInv', Newest' \in Subs, IsLive(Newest)'
  PROVE  /\ Latest'.end \in Nat /\ Latest'.end >= clock' /\ Latest'.status \in Live
         /\ Ends' \in Nat /\ clock' \in Nat
         /\ Latest'.status = "trialing" => Latest'.end = Ends'
         /\ Latest'.status \in Paying => clock' >= Ends'
<1>1. stripe' \in [Subs -> Subscriptions(Ends')] /\ Sound(ws') /\ clock' \in 1 .. MaxClock
  BY DEF IInv, StripeInv, RowInv, CountInv
<1>2. Latest' \in Subscriptions(Ends')
  BY <1>1 DEF Latest
<1>3. Ends' \in Times
  BY <1>1, Known DEF Ends, Workspaces
<1>4. Latest'.end \in Nat /\ Ends' \in Nat
  BY <1>2, <1>3, Constants DEF Subscriptions, SubscriptionRecords
<1>5. /\ Latest'.end >= clock' /\ Latest'.status \in Live
      /\ Latest'.status = "trialing" => Latest'.end = Ends'
      /\ Latest'.status \in Paying => clock' >= Ends'
  BY DEF IsLive, DatesInv, StripeDates, Latest
<1>6. QED
  BY <1>1, <1>4, <1>5

(* Who is newest, before and after, when something still runs.             *)
LEMMA RunningOn ==
  ASSUME IInv, IInv', DatesInv, DatesInv', BasicInv, [Next]_vars, Running'
  PROVE  /\ Newest' \in Subs /\ IsLive(Newest)' /\ Ends' = Ends
         /\ flaws = {} /\ flaws' = {}
         /\ \/ Subscribe
            \/ /\ ~Subscribe /\ Running /\ Newest' = Newest
               /\ UNCHANGED <<stripe, version>> \/ (Turn /\ clock' = clock)
<1>1. flaws = {} /\ flaws' = {} /\ ((Running /\ Newest' = Newest) \/ Subscribe)
  BY RunningBack
<1>2. Newest' \in Subs
  <2>1. CASE Subscribe
    BY <2>1, Bought DEF BasicInv
  <2>2. CASE Running /\ Newest' = Newest
    BY <2>2, NewestExists DEF Running
  <2>3. QED
    BY <1>1, <2>1, <2>2
<1>3. IsLive(Newest)'
  BY DEF Running
<1>4. Ends' = Ends
  BY StepShapes DEF DatesInv
<1>5. ASSUME ~Subscribe PROVE UNCHANGED <<stripe, version>> \/ (Turn /\ clock' = clock)
  <2>1. UNCHANGED <<stripe, version>> \/ Turn
    BY <1>5, StepTurns DEF BasicInv
  <2>2. ASSUME Turn PROVE clock' = clock
    <3>1. version' = version + 1 /\ version \in Nat
      BY <2>2, TurnKeeps
    <3>2. ~Tick
      BY <3>1 DEF Tick
    <3>3. QED
      BY <3>2, ClockStays
  <2>3. QED
    BY <2>1, <2>2
<1>6. QED
  BY <1>1, <1>2, <1>3, <1>4, <1>5

LEMMA ClockGrows ==
  ASSUME IInv, [Next]_vars
  PROVE  clock \in Nat /\ clock' \in Nat /\ clock <= clock'
<1>1. clock \in Nat
  BY RowKnown
<1>2. clock' = clock \/ Tick
  BY ClockStays
<1>3. QED
  BY <1>1, <1>2 DEF Tick

LEMMA StepAnswers ==
  ASSUME IInv, IInv', AnswerInv, DatesInv, DatesInv', BasicInv, AnswersFit, [Next]_vars
  PROVE  AnswersFit'
<1>1. SUFFICES ASSUME Running', NEW a \in Recent' PROVE AnswerFits(a)'
  BY DEF AnswersFit
<1>2. /\ Newest' \in Subs /\ IsLive(Newest)' /\ Ends' = Ends /\ flaws' = {}
      /\ \/ Subscribe
         \/ /\ ~Subscribe /\ Running /\ Newest' = Newest
            /\ UNCHANGED <<stripe, version>> \/ (Turn /\ clock' = clock)
  BY <1>1, RunningOn
<1>3. Latest'.end \in Nat /\ version' \in Nat
  BY <1>2, NextLive DEF IInv, CountInv
<1>4. a.snap.sub = Newest' /\ applied' <= a.ver
  BY RecentStep
<1>5. a = Now' \/ (a \in Flight /\ (Newest' = Newest => a \in Recent))
  BY RecentStep
<1>6. ASSUME a = Now', Latest'.status = "trialing" /\ clock' < Ends' => ~Latest'.cancel
      PROVE  AnswerFits(a)'
  <2>1. a.snap = Snapshot(Newest)' /\ a.ver = version'
    BY <1>6 DEF Now
  <2>2. QED
    BY <1>3, <1>6, <2>1, FitsNow
<1>7. CASE Subscribe
  <2>1. PICK s \in Subs : /\ s \notin Used /\ Newest' = s
                          /\ \E q \in {stripe'[s]} : ~q.cancel
    BY <1>7, Bought DEF BasicInv
  <2>2. a \notin Flight
    BY <1>4, <2>1 DEF BasicInv, FlightUsed
  <2>3. ~Latest'.cancel
    BY <2>1 DEF Latest
  <2>4. QED
    BY <1>5, <1>6, <2>2, <2>3
<1>8. CASE Running /\ Newest' = Newest
  <2>1. \A b \in Recent : AnswerFits(b)
    BY <1>8 DEF AnswersFit
  <2>2. /\ Latest.end \in Nat /\ Latest.end >= clock /\ clock \in Nat /\ Ends \in Nat
        /\ Latest.status = "trialing" => Latest.end = Ends
    BY <1>8, NewestLive DEF Running
  <2>3. Latest.status = "trialing" /\ clock < Ends => ~Latest.cancel
    <3>1. Now \in Recent /\ Now.snap = Snapshot(Newest)
      BY NowIsRecent
    <3>2. AnswerFits(Now) /\ Now.snap.status = Latest.status /\ Now.snap.cancel = Latest.cancel
      BY <2>1, <3>1 DEF Snapshot, SnapshotOf, Latest
    <3>3. QED
      BY <3>2 DEF AnswerFits
  <2>4. ASSUME a \in Recent
        PROVE  /\ a.ver \in Nat /\ a.snap.end \in Nat /\ a.ver <= version /\ AnswerFits(a)
               /\ a.ver = version => a.snap.status = Latest.status /\ SameTerms(a.snap, Latest)
    <3>1. /\ a.ver \in Nat /\ a.snap.end \in Nat /\ a.ver <= version
          /\ a.ver = version => a.snap = Snapshot(Newest)
      BY <1>8, <2>4, RecentFacts DEF Running
    <3>2. QED
      BY <2>1, <2>4, <3>1 DEF Snapshot, SnapshotOf, Latest, SameTerms, Pair
  <2>5. clock' \in Nat /\ clock <= clock'
    BY ClockGrows
  <2>6. CASE UNCHANGED <<stripe, version>>
    <3>1. Latest' = Latest
      BY <1>8, <2>6 DEF Latest
    <3>2. CASE a = Now'
      <4>1. Latest'.status = "trialing" /\ clock' < Ends' => ~Latest'.cancel
        BY <1>2, <2>2, <2>3, <2>5, <3>1
      <4>2. QED
        BY <1>6, <3>2, <4>1
    <3>3. CASE a \in Recent
      BY <1>2, <1>4, <1>8, <2>2, <2>4, <2>5, <2>6, <3>3, FitsRest
    <3>4. QED
      BY <1>5, <1>8, <3>2, <3>3
  <2>7. CASE Turn /\ clock' = clock
    <3>1. version' = version + 1 /\ version \in Nat
      BY <2>7, TurnKeeps
    <3>2. TurnsTo(Latest', Latest)
      BY <1>2, <2>7, TurnSums
    <3>3. CASE a = Now'
      <4>1. Latest'.status = "trialing" /\ clock' < Ends' => ~Latest'.cancel
        BY <1>2, <2>2, <2>3, <2>7, <3>2 DEF TurnsTo
      <4>2. QED
        BY <1>6, <3>3, <4>1
    <3>4. CASE a \in Recent
      <4>1. Period \in Nat
        BY Constants
      <4>2. QED
        BY <1>2, <1>4, <1>8, <2>2, <2>4, <2>7, <3>1, <3>2, <3>4, <4>1, FitsTurn
    <3>5. QED
      BY <1>5, <1>8, <3>3, <3>4
  <2>8. QED
    BY <1>2, <1>8, <2>6, <2>7, <1>7
<1>9. QED
  BY <1>2, <1>7, <1>8
-----------------------------------------------------------------------------
(* OwnerFits: what the owner has been answered is what Stripe has.         *)

LEMMA OwnerIsRecent ==
  ASSUME IInv, AnswerInv, Running, owner.pc = "called", owner.sub = Newest
  PROVE  \E a \in Recent \cap Flight : a.snap = owner.snap /\ a.ver = owner.ver
<1>1. PICK a : a = Answer(owner)
  OBVIOUS
<1>2. a \in Flight /\ a.snap = owner.snap /\ a.ver = owner.ver
  BY <1>1 DEF Flight, Answer
<1>3. owner.snap.sub = Newest
  BY DEF AnswerInv, OwnerCarries, Carries
<1>4. applied \in Nat /\ owner.ver \in Nat
  BY RowKnown DEF IInv, OwnerInv, OwnerRecords
<1>5. applied <= owner.ver
  BY <1>4 DEF Running, Doomed
<1>6. QED
  BY <1>2, <1>3, <1>5 DEF Recent

(* What the owner has asked for is still what Stripe has, as long as the   *)
(* subscription runs and nothing newer has been applied: a change that has *)
(* been scheduled awaits its date, or has been made; and what is past due  *)
(* has not been told to go on after the owner cancelled its period.        *)
ScheduleFits(a) ==
  \/ SameTerms(a.snap, owner.snap)
  \/ a.snap.end > owner.snap.end /\ Pair(a.snap) = <<owner.plan, owner.interval>>
ScheduleStays ==
  /\ \A a \in Recent : owner.ver <= a.ver => ScheduleFits(a)
  /\ Latest.end = owner.snap.end =>
       NextOf(Latest) = <<owner.plan, owner.interval>> /\ ~Latest.cancel
  /\ Latest.end # owner.snap.end => Latest.nextPlan = "none"
EndStays ==
  Latest.status = "past_due" =>
    Latest.cancel \/ owner.deferred \/ owner.snap.end <= clock
OwnerKept ==
  /\ Calls("schedule", Newest) => ScheduleStays
  /\ Calls("cancel", Newest) => owner.snap.cancel /\ EndStays
  /\ Calls("resume", Newest) => ~owner.snap.cancel
OwnerFits == Running => OwnerKept

(* Nobody asks about a subscription before it is made.                     *)
LEMMA NobodyCalls ==
  ASSUME IInv, AnswerInv, BasicInv, Subscribe
  PROVE  \A op : ~Calls(op, Newest)'
<1>1. PICK s \in Subs : s \notin Used /\ Newest' = s
  BY Bought DEF BasicInv
<1>2. owner' = owner
  BY DEF Subscribe, StripeKeeps
<1>3. owner.pc = "called" => owner.sub \in Used
  <2>1. SUFFICES ASSUME owner.pc = "called" PROVE owner.sub \in Used
    OBVIOUS
  <2>2. Answer(owner) \in Flight
    BY <2>1 DEF Flight
  <2>3. Answer(owner).snap.sub \in Used
    BY <2>2 DEF BasicInv, FlightUsed
  <2>4. QED
    BY <2>1, <2>3 DEF Answer, AnswerInv, OwnerCarries, Carries
<1>4. QED
  BY <1>1, <1>2, <1>3 DEF Calls

(* A turn that runs on leaves the owner alone, or is what the owner called *)
(* for.                                                                    *)
LEMMA TurnOwner ==
  ASSUME IInv, Turn, IsLive(Newest)'
  PROVE  \/ UNCHANGED owner /\ (Renewal \/ Recovery \/ ToldToEnd \/ ToldToGoOn)
         \/ Called
<1>1. ~Closure
  BY TurnKeeps, ClosureFields DEF IsLive, Latest, Live
<1>2. QED
  BY <1>1 DEF Turn, Renewal, Recovery, StripeKeeps, ToldToEnd, ToldToGoOn

(* A request that is called for is a turn of the newest subscription.      *)
LEMMA CallTurns ==
  ASSUME IInv, Running, OwnerCalls, UNCHANGED <<stripe, version>> \/ Turn, IsLive(Newest)',
         owner.op # "confirm"
  PROVE  Called
<1>1. /\ version' = version + 1 /\ version \in Nat
  BY RowKnown DEF OwnerCalls, Change
<1>2. Turn
  BY <1>1
<1>3. owner' # owner
  BY CallsFacts
<1>4. QED
  BY <1>2, <1>3, TurnOwner

LEMMA StepOwnerKept ==
  ASSUME IInv, IInv', AnswerInv, DatesInv, DatesInv', BasicInv, AnswersFit, OwnerFits, [Next]_vars
  PROVE  OwnerFits'
<1>1. SUFFICES ASSUME Running' PROVE OwnerKept'
  BY DEF OwnerFits
<1>2. /\ Newest' \in Subs /\ IsLive(Newest)'
      /\ \/ Subscribe
         \/ /\ ~Subscribe /\ Running /\ Newest' = Newest
            /\ UNCHANGED <<stripe, version>> \/ (Turn /\ clock' = clock)
  BY <1>1, RunningOn
<1>3. CASE Subscribe
  BY <1>3, NobodyCalls DEF OwnerKept
<1>4. CASE ~Subscribe
  <2>1. /\ Running /\ Newest' = Newest /\ Newest \in Subs
        /\ UNCHANGED <<stripe, version>> \/ (Turn /\ clock' = clock)
    BY <1>2, <1>4
  <2>2. OwnerKept
    BY <2>1 DEF OwnerFits
  <2>3. /\ Latest.end \in Nat /\ clock \in Nat /\ Period \in Nat \ {0}
        /\ Newest # NoSub /\ Now \in Recent /\ Now.ver = version /\ version \in Nat
        /\ owner.ver \in Nat /\ owner.ver <= version
        /\ owner.op \in WithTarget => owner.plan \in PaidPlans
        /\ "none" \notin PaidPlans
    BY <2>1, NewestLive, NowIsRecent, RowKnown, ClockFacts
       DEF Running, IInv, OwnerInv, OwnerRecords, PaidPlans
  <2>4. Pair(Now.snap) = Pair(Latest) /\ Now.snap.end = Latest.end
    BY NowIsRecent DEF Snapshot, SnapshotOf, Latest, Pair
  <2>5. Pair(Now'.snap) = Pair(Latest') /\ Now'.snap.end = Latest'.end
    BY DEF Now, Snapshot, SnapshotOf, Latest, Pair
  <2>6. \A a \in Recent' : a = Now' \/ a \in Recent
    BY <2>1, RecentStep
  <2>7. CASE UNCHANGED owner
    <3>1. Calls("cancel", Newest)' => Calls("cancel", Newest)
      BY <2>1, <2>7 DEF Calls
    <3>2. Calls("resume", Newest)' => Calls("resume", Newest)
      BY <2>1, <2>7 DEF Calls
    <3>3. Calls("schedule", Newest)' => Calls("schedule", Newest)
      BY <2>1, <2>7 DEF Calls
    <3>4. Calls("resume", Newest)' => ~owner'.snap.cancel
      BY <2>2, <2>7, <3>2 DEF OwnerKept
    <3>5. ASSUME Calls("cancel", Newest)' PROVE owner'.snap.cancel /\ EndStays'
      <4>1. owner.snap.cancel /\ EndStays /\ owner.pc = "called" /\ owner.sub = Newest
        BY <2>2, <3>1, <3>5 DEF OwnerKept, Calls
      <4>2. SUFFICES ASSUME Latest'.status = "past_due"
                     PROVE  Latest'.cancel \/ owner.deferred \/ owner.snap.end <= clock'
        BY <2>7, <4>1 DEF EndStays
      <4>3. owner.snap.end \in Nat /\ owner.snap.end <= Latest.end
        <5>1. PICK a \in Recent : a.snap = owner.snap
          BY <2>1, <4>1, OwnerIsRecent
        <5>2. AnswerFits(a)
          BY <2>1 DEF AnswersFit
        <5>3. a.snap.end \in Nat
          BY <2>3, RecentFacts
        <5>4. QED
          BY <5>1, <5>2, <5>3 DEF AnswerFits
      <4>4. CASE UNCHANGED stripe
        <5>1. Latest' = Latest
          BY <2>1, <4>4 DEF Latest
        <5>2. QED
          BY <2>3, <4>1, <4>2, <4>3, <5>1, ClockGrows DEF EndStays
      <4>5. CASE Turn /\ clock' = clock
        <5>1. ~Called
          BY <2>7, <4>5, CalledFields
        <5>2. CASE Renewal
          BY <2>3, <4>3, <4>5, <5>2, RenewalFields DEF NextPeriod, DatesInv
        <5>3. CASE Recovery
          BY <4>2, <4>5, <5>3, RecoveryFields
        <5>4. CASE ToldToEnd
          BY <4>5, <5>4, ToldFields DEF ToldToEnd
        <5>5. CASE ToldToGoOn
          <6>1. Latest'.status = Latest.status /\ flaws' = {}
            BY <1>1, <4>5, <5>5, ToldFields DEF ToldToGoOn, Running
          <6>2. applied' = version' /\ version' = version + 1
            BY <4>2, <4>5, <5>5, <6>1, TurnKeeps DEF ToldToGoOn
          <6>3. owner'.pc = "called" /\ owner'.ver = owner.ver
            BY <2>7, <4>1
          <6>4. QED
            BY <1>1, <2>3, <6>2, <6>3 DEF Running, Doomed
        <5>6. QED
          BY <1>2, <4>5, <5>1, <5>2, <5>3, <5>4, <5>5, TurnOwner
      <4>6. QED
        BY <2>1, <4>4, <4>5
    <3>6. ASSUME Calls("schedule", Newest)' PROVE ScheduleStays'
      <4>1. ScheduleStays /\ owner.pc = "called" /\ owner.sub = Newest /\ owner.op = "schedule"
        BY <2>2, <3>3, <3>6 DEF OwnerKept, Calls
      <4>2. \A a : ScheduleFits(a)' <=> ScheduleFits(a)
        BY <2>7 DEF ScheduleFits
      <4>3. /\ ScheduleFits(Now)
            /\ Latest.end = owner.snap.end =>
                 NextOf(Latest) = <<owner.plan, owner.interval>> /\ ~Latest.cancel
            /\ Latest.end # owner.snap.end => Latest.nextPlan = "none"
        BY <2>3, <4>1 DEF ScheduleStays
      <4>4. owner.snap.end \in Nat /\ owner.snap.end <= Latest.end
        <5>1. PICK a \in Recent : a.snap = owner.snap
          BY <2>1, <4>1, OwnerIsRecent
        <5>2. AnswerFits(a)
          BY <2>1 DEF AnswersFit
        <5>3. a.snap.end \in Nat
          BY <2>3, RecentFacts
        <5>4. QED
          BY <5>1, <5>2, <5>3 DEF AnswerFits
      <4>5. SUFFICES
              /\ ScheduleFits(Now')
              /\ Latest'.end = owner.snap.end =>
                   NextOf(Latest') = <<owner.plan, owner.interval>> /\ ~Latest'.cancel
              /\ Latest'.end # owner.snap.end => Latest'.nextPlan = "none"
        <5>1. \A a \in Recent' : owner'.ver <= a.ver => ScheduleFits(a)'
          BY <2>6, <2>7, <4>1, <4>2, <4>5 DEF ScheduleStays
        <5>2. QED
          BY <2>7, <4>5, <5>1 DEF ScheduleStays
      <4>6. owner.plan # "none"
        BY <2>3, <4>1 DEF WithTarget
      <4>7. SUFFICES
              \/ SameTerms(Latest', Latest) /\ SameNext(Latest', Latest) /\ Latest'.cancel = Latest.cancel
              \/ NextPeriod(Latest', Latest, clock)
              \/ /\ SameTerms(Latest', Latest) /\ SameNext(Latest', Latest)
                 /\ Latest.nextPlan = "none"
        <5>1. CASE SameTerms(Latest', Latest) /\ SameNext(Latest', Latest)
          <6>1. ScheduleFits(Now')
            BY <2>4, <2>5, <4>3, <5>1 DEF SameTerms, ScheduleFits
          <6>2. Latest'.end # owner.snap.end => Latest'.nextPlan = "none"
            BY <4>3, <5>1 DEF SameTerms, SameNext
          <6>3. ASSUME Latest'.end = owner.snap.end
                PROVE  NextOf(Latest') = <<owner.plan, owner.interval>> /\ ~Latest'.cancel
            <7>1. NextOf(Latest) = <<owner.plan, owner.interval>> /\ ~Latest.cancel
              BY <4>3, <5>1, <6>3 DEF SameTerms
            <7>2. Latest.nextPlan # "none"
              BY <4>6, <7>1 DEF NextOf
            <7>3. Latest'.cancel = Latest.cancel
              BY <4>7, <5>1, <7>2, <2>3, <4>4, <6>3 DEF NextPeriod, SameTerms
            <7>4. QED
              BY <5>1, <7>1, <7>3 DEF SameNext
          <6>4. QED
            BY <6>1, <6>2, <6>3
        <5>2. CASE NextPeriod(Latest', Latest, clock)
          <6>1. Latest.end = clock /\ Latest'.end = clock + Period /\ Latest'.nextPlan = "none"
            BY <5>2 DEF NextPeriod
          <6>2. Latest'.end > owner.snap.end /\ Latest'.end # owner.snap.end
            BY <2>3, <4>4, <6>1
          <6>3. Pair(Latest') = <<owner.plan, owner.interval>>
            <7>1. CASE Latest.end = owner.snap.end
              <8>1. NextOf(Latest) = <<owner.plan, owner.interval>>
                BY <4>3, <7>1
              <8>2. Latest.nextPlan # "none"
                BY <4>6, <8>1 DEF NextOf
              <8>3. QED
                BY <5>2, <8>1, <8>2 DEF NextPeriod
            <7>2. CASE Latest.end # owner.snap.end
              <8>1. Pair(Latest) = <<owner.plan, owner.interval>>
                BY <2>4, <4>3, <7>2 DEF ScheduleFits, SameTerms
              <8>2. QED
                BY <4>3, <5>2, <7>2, <8>1 DEF NextPeriod
            <7>3. QED
              BY <7>1, <7>2
          <6>4. ScheduleFits(Now')
            BY <2>5, <6>2, <6>3 DEF ScheduleFits
          <6>5. QED
            BY <6>1, <6>2, <6>4
        <5>3. QED
          BY <4>7, <5>1, <5>2
      <4>8. CASE UNCHANGED stripe
        BY <2>1, <4>8 DEF Latest, SameTerms, SameNext
      <4>9. CASE Turn
        <5>1. ~Called
          BY <2>7, <4>9, CalledFields
        <5>2. CASE Renewal
          BY <4>9, <5>2, RenewalFields DEF DatesInv
        <5>3. CASE Recovery
          BY <4>9, <5>3, RecoveryFields
        <5>4. CASE ToldToEnd \/ ToldToGoOn
          <6>1. SameTerms(Latest', Latest) /\ SameNext(Latest', Latest)
            BY <4>9, <5>4, ToldFields DEF ToldToEnd, ToldToGoOn
          <6>2. Latest.nextPlan = "none"
            BY <5>4 DEF ToldToEnd, ToldToGoOn, Scheduled, Latest
          <6>3. QED
            BY <6>1, <6>2
        <5>5. QED
          BY <1>2, <4>9, <5>1, <5>2, <5>3, <5>4, TurnOwner
      <4>10. QED
        BY <2>1, <4>8, <4>9
    <3>7. QED
      BY <3>4, <3>5, <3>6 DEF OwnerKept
  <2>8. CASE OwnerCalls
    <3>1. CASE owner.op = "confirm"
      <4>1. owner'.op = "confirm"
        BY <2>8, <3>1, CallsFacts
      <4>2. QED
        BY <4>1 DEF OwnerKept, Calls
    <3>2. CASE owner.op # "confirm"
      <4>1. Called /\ Turn
        <5>1. Called
          BY <1>2, <2>1, <2>8, <3>2, CallTurns
        <5>2. version' # version
          BY <2>3, <5>1 DEF Called, Change
        <5>3. QED
          BY <2>1, <5>1, <5>2
      <4>2. /\ owner'.op = owner.op /\ owner'.ver = version' /\ owner'.snap = Snapshot(Newest)'
            /\ owner'.plan = owner.plan /\ owner'.interval = owner.interval
            /\ owner.op = "schedule" =>
                 ~Latest.cancel /\ NextOf(Latest') = <<owner.plan, owner.interval>>
            /\ owner.op = "schedule" => Latest'.cancel = Latest.cancel
            /\ owner.op = "cancel" => Latest'.cancel
            /\ owner.op = "resume" => ~Latest'.cancel
        BY <4>1, CalledFields
      <4>3. owner'.snap = Now'.snap /\ owner'.snap.cancel = Latest'.cancel
            /\ owner'.snap.end = Latest'.end
        BY <4>2 DEF Now, Snapshot, SnapshotOf, Latest
      <4>4. ASSUME Calls("schedule", Newest)' PROVE ScheduleStays'
        <5>1. ASSUME NEW a \in Recent', owner'.ver <= a.ver PROVE ScheduleFits(a)'
          <6>1. version' = version + 1
            BY <4>1, TurnKeeps
          <6>2. a \in Recent => a.ver \in Nat /\ a.ver <= version
            BY <2>3, RecentFacts
          <6>3. a = Now'
            BY <2>3, <2>6, <4>2, <5>1, <6>1, <6>2
          <6>4. QED
            BY <4>3, <6>3 DEF ScheduleFits, SameTerms
        <5>2. owner.op = "schedule"
          BY <4>2, <4>4 DEF Calls
        <5>3. QED
          BY <4>2, <4>3, <5>1, <5>2 DEF ScheduleStays
      <4>5. QED
        BY <4>2, <4>3, <4>4 DEF OwnerKept, EndStays, Calls
    <3>3. QED
      BY <3>1, <3>2
  <2>9. CASE owner' = NoRequest \/ OwnerReads
    BY <2>9, ReadsFacts DEF OwnerKept, Calls, NoRequest
  <2>10. QED
    BY <2>7, <2>8, <2>9, OwnerMoves
<1>5. QED
  BY <1>3, <1>4
-----------------------------------------------------------------------------
(* WaitFits: what the row waits for is what Stripe has scheduled or made.  *)

(* What the row waits for is what Stripe has scheduled or has made, as     *)
(* long as nothing that the owner has asked for meanwhile replaces it.     *)
Excused(a) ==
  /\ Calls("release", Newest) \/ Calls("schedule", Newest)
  /\ owner.ver < a.ver /\ owner.snap.end < a.snap.end
WaitsAnswered(r) ==
  \A a \in Recent :
    /\ a.snap.end = r.pendingAt => Pair(a.snap) = Pair(r)
    /\ a.snap.end > r.pendingAt =>
         r.pendingAt <= clock /\ (Pair(a.snap) = Target(r) \/ Excused(a))
WaitsScheduled(r) ==
  /\ Latest.end = r.pendingAt =>
       \/ NextOf(Latest) = Target(r)
       \/ Latest.nextPlan = "none" /\ Calls("release", Newest)
  /\ Latest.end > r.pendingAt => Latest.nextPlan = "none" \/ Calls("schedule", Newest)
RowWaits(r) ==
  /\ Awaiting(r) => WaitsAnswered(r) /\ WaitsScheduled(r)
  /\ r.status = "trialing" => r.end <= Ends /\ (Awaiting(r) => r.pendingAt <= Ends)
  /\ r.status \in Live => r.pendingAt = Latest.end \/ r.pendingAt <= clock
WaitFits == Running => RowWaits(ws.row)

(* What a step makes of what the row waits for.                            *)
MovesRow(x, w) ==
  /\ Awaiting(x.row) => /\ Awaiting(w.row) /\ Pair(x.row) = Pair(w.row)
                        /\ Target(x.row) = Target(w.row) /\ x.row.pendingAt = w.row.pendingAt
  /\ x.row.status \in Live =>
       \/ w.row.status \in Live /\ x.row.pendingAt = w.row.pendingAt
       \/ x.row.pendingAt = Latest.end
       \/ x.row.pendingAt <= clock
  /\ x.row.status = "trialing" =>
       \/ w.row.status = "trialing" /\ x.row.end = w.row.end
       \/ x.row.end <= Ends /\ ~Awaiting(x.row)

LEMMA MovesFits ==
  ASSUME IInv, TidyRow(ws.row), NEW s,
         s.status = "active" => s.end = Latest.end \/ s.end <= clock,
         s.status = "trialing" /\ s.cancel => clock >= Ends,
         NEW x, MovesBy(x, ws, s)
  PROVE  MovesRow(x, ws)
<1>1. clock \in Nat /\ Ends \in Nat /\ Ends = ws.trial.ends
  BY RowKnown DEF Ends
<1>2. Awaiting(x.row) => /\ Awaiting(ws.row) /\ Pair(x.row) = Pair(ws.row)
                         /\ Target(x.row) = Target(ws.row) /\ x.row.pendingAt = ws.row.pendingAt
  BY TidyLeft DEF MovesBy
<1>3. QED
  BY <1>1, <1>2 DEF MovesBy, MovesRow, NoTime

LEMMA MovesSame ==
  ASSUME NEW x, NEW w, x.row = w.row
  PROVE  MovesRow(x, w)
BY DEF MovesRow

(* Told to end in Stripe and in the row.                                   *)
LEMMA LocalFields ==
  ASSUME IInv, DatesInv, BasicInv, NEW x, Kept(x, ws), NEW s \in Subs \cup {NoSub},
         CancelAccepted(s), Change(s, CancelledAtStripe(s), {"subscription"}),
         Newest' = Newest, IsLive(Newest)', NEW y \in CancelledLocally(x, s)
  PROVE  /\ s = Newest /\ clock >= Ends
         /\ Alone(y, x) /\ y.row.status = x.row.status /\ y.row.end = x.row.end
         /\ x.row.status \in Live /\ y.row.cancel /\ ~Awaiting(y.row)
         /\ y.row.pendingAt = Latest.end \/ y.row.pendingAt <= clock
         /\ SameTerms(Latest', Latest) /\ SameNext(Latest', Latest)
         /\ Latest'.status = Latest.status /\ Latest'.cancel
<1>1. s \in Subs /\ s = Newest /\ stripe[s] = Latest /\ IsLive(s)
  BY LiveTurns, Constants DEF CancelAccepted, BasicInv
<1>2. /\ Sound(ws) /\ Sound(x) /\ x.trial = ws.trial /\ Ends \in Nat /\ clock \in Nat
      /\ Ends = ws.trial.ends
  BY RowKnown DEF Kept, Ends
<1>3. Latest' = CancelledAtStripe(s) /\ stripe[s] \in SubscriptionRecords
  BY <1>1, ShapeChange, AtStripe DEF Latest
<1>4. ~TrialActive(ws, clock) /\ clock >= Ends
  <2>1. ASSUME TrialActive(ws, clock) PROVE FALSE
    <3>1. Latest'.status = "canceled"
      BY <1>3, <2>1 DEF CancelledAtStripe, SubscriptionRecords
    <3>2. QED
      BY <3>1 DEF IsLive, Latest, Live
  <2>2. QED
    BY <1>2, <2>1, TrialIs
<1>5. /\ SameTerms(Latest', Latest) /\ SameNext(Latest', Latest)
      /\ Latest'.status = Latest.status /\ Latest'.cancel
  BY <1>1, <1>3, <1>4 DEF CancelledAtStripe, SubscriptionRecords, SameTerms, SameNext, Pair, NextOf
<1>6. PICK when : /\ y \in ScheduleCancellation(x, when)
                  /\ when = IF x.row.status = "trialing" THEN Latest.trialEnd ELSE Latest.end
  BY <1>1, <1>2, <1>4 DEF CancelledLocally, TrialActive
<1>7. /\ Alone(y, x) /\ y.row.status = x.row.status /\ y.row.end = x.row.end
      /\ x.row.status \in Live
      /\ Ending(y.row, IF when = NoTime THEN AccessEnd(x.row) ELSE when)
  BY <1>2, <1>6, CancellationFields
<1>8. y.row.pendingAt = Latest.end \/ y.row.pendingAt <= clock
  <2>1. CASE x.row.status = "trialing"
    <3>1. Latest.trialEnd \in {NoTime, Ends}
      BY <1>1 DEF BasicInv, Deferred
    <3>2. AccessEnd(x.row) = Ends
      BY <1>2, <2>1, Known DEF AccessEnd, RowDated
    <3>3. QED
      BY <1>2, <1>4, <1>6, <1>7, <2>1, <3>1, <3>2 DEF Ending
  <2>2. CASE x.row.status # "trialing"
    <3>1. Latest.end # NoTime
      <4>1. Latest.end >= clock /\ clock >= 1
        BY <1>1 DEF DatesInv, StripeDates, IInv, CountInv
      <4>2. QED
        BY <1>2, <4>1 DEF NoTime
    <3>2. QED
      BY <1>6, <1>7, <2>2, <3>1 DEF Ending
  <2>3. QED
    BY <2>1, <2>2
<1>9. QED
  BY <1>1, <1>4, <1>5, <1>7, <1>8 DEF Ending, Awaiting

LEMMA LocalMoves ==
  ASSUME NEW w, NEW x, MovesRow(x, w), NEW y,
         y.row.status = x.row.status, y.row.end = x.row.end, ~Awaiting(y.row),
         y.row.pendingAt = Latest.end \/ y.row.pendingAt <= clock
  PROVE  MovesRow(y, w)
BY DEF MovesRow

(* An answer that may be applied says of the subscription that it runs.    *)
LEMMA RecentLive ==
  ASSUME IInv, AnswerInv, DatesInv, BasicInv, GraceInv, Running, NEW a \in Recent
  PROVE  a.snap.status \in Live
<1>1. a.snap \in Answers(Ends) /\ a.snap.sub = Newest
  BY RecentFacts DEF Running
<1>2. a.snap.status \in Live \cup {"canceled"}
  BY <1>1 DEF Answers, Snapshots
<1>3. a.snap.status # "canceled"
  <2>1. CASE a \in Flight
    BY <1>1, <2>1 DEF GraceInv, FinalAnswers, Running, IsLive, Live
  <2>2. CASE a = Now
    BY <2>2, NowIsRecent DEF Snapshot, SnapshotOf, Running, IsLive, Live
  <2>3. QED
    BY <2>1, <2>2 DEF Recent
<1>4. QED
  BY <1>2, <1>3

(* An answer fits what the row waits for.                                  *)
LEMMA AnswerFitsWait ==
  ASSUME IInv, AnswerInv, DatesInv, BasicInv, PeriodInv, TidyInv, AnswersFit, WaitFits, Running,
         NEW a \in Recent, ~Excused(a), a.snap.status = "active",
         a.snap.end > clock \/ ws.row.status = "trialing"
  PROVE  FitsWait(ws, a.snap)
<1>1. SUFFICES ASSUME Awaiting(ws.row)
               PROVE  /\ a.snap.end = ws.row.pendingAt => /\ Pair(a.snap) = Pair(ws.row)
                                                          /\ ws.row.status # "trialing"
                      /\ a.snap.end # ws.row.pendingAt => Pair(a.snap) = Target(ws.row)
  BY DEF FitsWait
<1>2. RowWaits(ws.row) /\ AnswerFits(a) /\ Tidy(ws)
  BY DEF WaitFits, AnswersFit, TidyInv, TidyNow, Running
<1>3. /\ Sound(ws) /\ ws.row.status \in Live /\ ws.row.pendingAt \in Nat
  BY <1>1, <1>2, RowKnown, AwaitsLive, Known, Dates DEF Tidy
<1>4. /\ a.snap.end \in Nat /\ clock \in Nat /\ Ends \in Nat /\ a.snap.end > Ends
      /\ Latest.end \in Nat
  BY RecentFacts, RowKnown, NewestLive DEF Running, Paying
<1>5. a.snap.end >= ws.row.pendingAt
  <2>1. CASE ws.row.status = "trialing"
    BY <1>1, <1>2, <1>3, <1>4, <2>1 DEF RowWaits
  <2>2. CASE a.snap.end > clock
    <3>1. a.snap.end = Latest.end
      BY <1>2, <1>4, <2>2 DEF AnswerFits
    <3>2. ws.row.pendingAt = Latest.end \/ ws.row.pendingAt <= clock
      BY <1>2, <1>3 DEF RowWaits
    <3>3. QED
      BY <1>3, <1>4, <2>2, <3>1, <3>2
  <2>3. QED
    BY <2>1, <2>2
<1>6. WaitsAnswered(ws.row)
  BY <1>1, <1>2 DEF RowWaits
<1>7. ws.row.status = "trialing" => a.snap.end # ws.row.pendingAt
  BY <1>1, <1>2, <1>3, <1>4 DEF RowWaits
<1>8. QED
  BY <1>3, <1>4, <1>5, <1>6, <1>7 DEF WaitsAnswered

LEMMA AnswerMovesRow ==
  ASSUME IInv, AnswerInv, DatesInv, BasicInv, GraceInv, PeriodInv, TidyInv, AnswersFit, WaitFits,
         Running, NEW a \in Recent, ~Excused(a), NEW y \in Reconcile(ws, a.snap, clock),
         NEW x, x = y \/ x = ApplyDueTransitions(y, clock)
  PROVE  MovesRow(x, ws)
<1>1. /\ Sound(ws) /\ Tidy(ws) /\ Plain(ws, clock) /\ "none" \notin Intervals /\ clock \in Nat
      /\ Newest # NoSub
  BY RowKnown, Constants DEF Running, TidyInv, TidyNow, PeriodInv, RowPeriod, RowPlain
<1>2. a.snap \in Answers(ws.trial.ends) /\ a.snap.status \in Live /\ a.snap.end # NoTime
      /\ Ends = ws.trial.ends
  BY <1>1, RecentFacts, RecentLive DEF Ends
<1>3. a.snap.status = "active" /\ ws.row.status = "trialing" => FitsWait(ws, a.snap)
  BY AnswerFitsWait
<1>4. MovesBy(y, ws, a.snap)
  BY <1>1, <1>2, <1>3, AnswerMoves
<1>5. Sound(y) /\ Tidy(y)
  BY <1>1, AnswerKeepsTidy
<1>6. MovesBy(x, ws, a.snap)
  BY <1>1, <1>4, <1>5, DueMoves DEF Tidy
<1>7. /\ a.snap.status = "active" => a.snap.end = Latest.end \/ a.snap.end <= clock
      /\ a.snap.status = "trialing" /\ a.snap.cancel => clock >= Ends
  <2>1. AnswerFits(a)
    BY DEF AnswersFit
  <2>2. clock \in Nat /\ Ends \in Nat
    BY RowKnown
  <2>3. QED
    BY <2>1, <2>2 DEF AnswerFits
<1>8. QED
  BY <1>1, <1>6, <1>7, MovesFits DEF Tidy

(* The row at most loses its status, or a date comes.                      *)
LEMMA RestMovesRow ==
  ASSUME IInv, TidyInv, flaws = {}, NEW y, Sound(y), TidyRow(y.row),
         Alone(y, ws), SamePending(y.row, ws.row), y.row.end = ws.row.end,
         y.row.status \in Live => ws.row.status \in Live,
         y.row.status = "trialing" => ws.row.status = "trialing",
         NEW x, x = y \/ x = ApplyDueTransitions(y, clock)
  PROVE  MovesRow(x, ws)
<1>1. MovesBy(y, ws, NoAnswer) /\ clock \in Nat /\ "none" \notin Intervals /\ TidyRow(ws.row)
  BY RestMoves, RowKnown, Constants DEF TidyInv, TidyNow, Tidy
<1>2. MovesBy(x, ws, NoAnswer)
  BY <1>1, DueMoves
<1>3. QED
  BY <1>1, <1>2, MovesFits DEF NoAnswer
-----------------------------------------------------------------------------
(* Every step moves the row as MovesRow says.                              *)

LEMMA StripeTurns ==
  ASSUME OneLive, Stripe, ~Subscribe
  PROVE  StripeKeeps /\ (Renewal \/ Recovery \/ Closure)
<1>1. CASE PeriodEnds
  <2>1. PICK s \in Subs :
          /\ PeriodOver(s)
          /\ IF stripe[s].cancel
             THEN Change(s, [stripe[s] EXCEPT !.status = "canceled"], {"subscription"})
             ELSE \/ Change(s, Renewed(stripe[s], "active"), {"paid", "subscription"})
                  \/ Change(s, Renewed(stripe[s], "past_due"), {"failed", "subscription"})
          /\ StripeKeeps
    BY <1>1 DEF PeriodEnds
  <2>2. s = Newest /\ stripe[s] = Latest
    BY <2>1, LiveTurns DEF PeriodOver, IsLive, Live
  <2>3. QED
    BY <2>1, <2>2 DEF Closure, Renewal
<1>2. CASE RetrySucceeds \/ GivesUp
  <2>1. PICK s \in Subs :
          /\ stripe[s].status = "past_due" /\ StripeKeeps
          /\ \/ Change(s, [stripe[s] EXCEPT !.status = "active"], {"paid", "subscription"})
             \/ Change(s, [stripe[s] EXCEPT !.status = "canceled"], {"subscription"})
    BY <1>2 DEF RetrySucceeds, GivesUp
  <2>2. s = Newest /\ stripe[s] = Latest
    BY <2>1, LiveTurns DEF IsLive, Live
  <2>3. QED
    BY <2>1, <2>2 DEF Recovery, Closure
<1>3. QED
  BY <1>1, <1>2 DEF Stripe

(* Nothing but the answer that has been applied is the owner's or older.   *)
LEMMA NotExcused ==
  ASSUME Running', UNCHANGED owner, NEW a, a.ver \in Nat, a.ver <= applied', applied' \in Nat,
         owner.ver \in Nat
  PROVE  ~Excused(a)
BY DEF Running, Doomed, Excused, Calls

(* The row moves as MovesRow says, and Stripe by itself, or what the row   *)
(* waits for stays as it is.                                               *)
StepMoves ==
  /\ MovesRow(ws', ws)
  /\ \/ UNCHANGED <<stripe, version>> \/ Renewal \/ Recovery \/ Called
     \/ SameTerms(Latest', Latest) /\ SameNext(Latest', Latest) /\ UNCHANGED <<owner, clock>>
Steps == [Next]_vars /\ Running /\ Running' /\ Newest' = Newest
Before ==
  /\ IInv /\ AnswerInv /\ DatesInv /\ BasicInv /\ GraceInv /\ PeriodInv /\ TidyInv
  /\ AnswersFit /\ OwnerFits /\ WaitFits

LEMMA BeforeFacts ==
  ASSUME Before, Running
  PROVE  /\ Sound(ws) /\ Tidy(ws) /\ Plain(ws, clock) /\ "none" \notin Intervals /\ clock \in Nat
         /\ Ends \in Nat /\ Ends = ws.trial.ends /\ Newest # NoSub /\ flaws = {}
         /\ applied \in Nat /\ version \in Nat /\ owner.ver \in Nat /\ owner.ver <= version
         /\ ws.row.sub \in Subs \cup {NoSub} /\ Kept(ws, ws)
<1>1. Sound(ws) /\ clock \in Nat /\ Ends \in Nat /\ applied \in Nat /\ version \in Nat
  BY RowKnown DEF Before
<1>2. Kept(ws, ws) /\ ws.row.sub \in Subs \cup {NoSub} /\ "none" \notin Intervals
  BY <1>1, KeptSame, Known, Constants DEF Rows
<1>3. owner.ver \in Nat /\ owner.ver <= version
  BY DEF Before, IInv, OwnerInv, OwnerRecords
<1>4. QED
  BY <1>1, <1>2, <1>3 DEF Before, Ends, Running, TidyInv, TidyNow, PeriodInv, RowPeriod, RowPlain

LEMMA TookMovesRow ==
  ASSUME Before, Steps, NEW w \in Workers, Apply(w), NEW x, Took(w, x)
  PROVE  MovesRow(x, ws)
<1>1. /\ Sound(ws) /\ Tidy(ws) /\ "none" \notin Intervals /\ clock \in Nat /\ flaws = {}
      /\ applied \in Nat /\ Ends = ws.trial.ends /\ owner.ver \in Nat /\ Newest # NoSub
  BY BeforeFacts DEF Steps
<1>2. x \in Dispatched(event[worker[w].event].kind, worker[w].snap)
  BY DEF Took
<1>3. CASE event[worker[w].event].kind = "failed"
  <2>1. PICK y \in MarkPaymentFailure(ws, clock) : x = ApplyDueTransitions(y, clock)
    BY <1>2, <1>3 DEF Dispatched
  <2>2. /\ Alone(y, ws) /\ SamePending(y.row, ws.row) /\ y.row.end = ws.row.end
        /\ ws.row.status \in Paying /\ y.row.status = "past_due"
    BY <1>1, <2>1, FailureFields
  <2>3. Sound(y) /\ TidyRow(y.row)
    BY <1>1, <2>1, <2>2, FailureKept, AloneLeaves DEF AllKept, Kept, Tidy, Paying
  <2>4. QED
    BY <1>1, <2>1, <2>2, <2>3, RestMovesRow DEF Before, Live, Paying
<1>4. CASE event[worker[w].event].kind # "failed"
  <2>1. PICK a \in Recent \cap Flight : a.snap = worker[w].snap /\ a.ver = worker[w].ver
    BY <1>4 DEF Took
  <2>2. PICK y \in Reconcile(ws, a.snap, clock) : x = y \/ x = ApplyDueTransitions(y, clock)
    BY <1>2, <1>4, <2>1 DEF Dispatched
  <2>3. ~Excused(a)
    <3>1. a.ver \in Nat
      BY <1>1, <2>1, RecentFacts DEF Before
    <3>2. applied' \in Nat /\ a.ver <= applied'
      BY <1>1, <2>1, <3>1 DEF Took, NewestOf
    <3>3. UNCHANGED owner
      BY DEF Apply
    <3>4. QED
      BY <1>1, <3>1, <3>2, <3>3, NotExcused DEF Steps
  <2>4. QED
    BY <2>1, <2>2, <2>3, AnswerMovesRow DEF Before, Steps
<1>5. QED
  BY <1>3, <1>4

LEMMA ApplyMoves ==
  ASSUME Before, Steps, NEW w \in Workers, Apply(w)
  PROVE  StepMoves
<1>1. UNCHANGED <<clock, blocked, owner>> /\ (Raised(w) \/ \E x : Took(w, x))
  BY EventApplied DEF Before, Steps, Running
<1>2. CASE Raised(w)
  BY <1>2, MovesSame DEF Raised, NoChange, StepMoves
<1>3. ASSUME NEW x, Took(w, x) PROVE StepMoves
  <2>1. MovesRow(x, ws)
    BY <1>3, TookMovesRow
  <2>2. CASE ws' = x /\ NoChange
    BY <2>1, <2>2 DEF NoChange, StepMoves
  <2>3. CASE TellsToEnd(x) /\ ws' \in CancelledLocally(x, x.row.sub)
    <3>1. x.row.sub \in Subs \cup {NoSub} /\ Kept(x, ws)
      BY <1>3, Known DEF Took, Kept, Rows
    <3>2. IsLive(Newest)'
      BY DEF Steps, Running
    <3>3. /\ ws'.row.status = x.row.status /\ ws'.row.end = x.row.end /\ ~Awaiting(ws'.row)
          /\ ws'.row.pendingAt = Latest.end \/ ws'.row.pendingAt <= clock
          /\ SameTerms(Latest', Latest) /\ SameNext(Latest', Latest)
      BY <2>3, <3>1, <3>2, LocalFields DEF TellsToEnd, Before, Steps
    <3>4. QED
      BY <1>1, <2>1, <3>3, LocalMoves DEF StepMoves
  <2>4. QED
    BY <1>3, <2>2, <2>3 DEF Took, Reasserted
<1>4. QED
  BY <1>1, <1>2, <1>3

LEMMA WriteMoves ==
  ASSUME Before, Steps, OwnerWrites, owner.op # "schedule"
  PROVE  StepMoves
<1>1. /\ Sound(ws) /\ Tidy(ws) /\ "none" \notin Intervals /\ clock \in Nat /\ flaws = {}
      /\ applied \in Nat /\ Ends = ws.trial.ends /\ Ends \in Nat /\ Newest # NoSub
  BY BeforeFacts DEF Steps
<1>2. flaws' = {}
  BY DEF Steps, Running
<1>3. /\ owner.pc = "called" /\ owner.op \in Ops /\ UNCHANGED <<clock, stripe, version>>
      /\ ws' \in Written /\ Behind = {}
      /\ \E a \in Recent \cap Flight : a.snap = owner.snap /\ a.ver = owner.ver
  BY <1>2, OwnerAnswer DEF Before, Wrote
<1>4. PICK a \in Recent : a.snap = owner.snap /\ a.ver = owner.ver
  BY <1>3
<1>5. a.snap.status \in Live /\ a.ver \in Nat /\ a.snap.end # NoTime /\ a.snap \in Answers(Ends)
      /\ AnswerFits(a)
  BY <1>1, RecentLive, RecentFacts DEF Before, Steps, AnswersFit
<1>6. ~Excused(a)
  BY <1>4, <1>5 DEF Excused
<1>7. CASE owner.op \in {"confirm", "retarget", "upgrade"}
  <2>1. ws' \in Reconcile(ws, a.snap, clock)
    BY <1>3, <1>4, <1>7 DEF Written
  <2>2. MovesRow(ws', ws)
    BY <1>6, <2>1, AnswerMovesRow DEF Before, Steps
  <2>3. QED
    BY <1>3, <2>2 DEF StepMoves
<1>8. owner.op # "clear"
  BY <1>3, <1>4, <1>5 DEF Before, GraceInv, FinalAnswers, Live
<1>9. CASE owner.op = "cancel"
  <2>1. PICK when : /\ ws' \in ScheduleCancellation(ws, when)
                    /\ when = IF owner.deferred THEN a.snap.trialEnd ELSE a.snap.end
    BY <1>3, <1>4, <1>9 DEF Written
  <2>2. when # NoTime /\ (when = Latest.end \/ when <= clock)
    <3>1. CASE owner.deferred
      <4>1. a.snap.status = "trialing"
        BY <1>3, <1>4, <3>1 DEF Behind
      <4>2. a.snap.trialEnd = Ends /\ Ends # NoTime
        BY <1>1, <1>5, <4>1, Answered
      <4>3. clock >= Ends
        BY <1>3, <1>9 DEF Before, BasicInv, OwnerLate
      <4>4. QED
        BY <1>1, <2>1, <3>1, <4>2, <4>3
    <3>2. CASE ~owner.deferred
      BY <1>5, <2>1, <3>2 DEF AnswerFits
    <3>3. QED
      BY <3>1, <3>2
  <2>3. /\ ws'.row.end = ws.row.end /\ ws'.row.status = ws.row.status
        /\ ws'.row.cancel /\ ws'.row.pendingAt = when
    BY <1>1, <2>1, <2>2, CancellationFields DEF Ending
  <2>4. QED
    BY <1>3, <2>2, <2>3 DEF StepMoves, MovesRow, Awaiting
<1>10. CASE owner.op \in {"resume", "release"}
  <2>1. /\ ws'.row.end = ws.row.end /\ ws'.row.status = ws.row.status /\ Leaves(ws', ws)
        /\ ws' = ws \/ ws'.row.pendingAt = NoTime
    <3>1. CASE owner.op = "resume"
      <4>1. ws' \in ClearPendingCancellation(ws)
        BY <1>3, <3>1 DEF Written
      <4>2. QED
        BY <1>1, <4>1, ResumedFields DEF NonePending
    <3>2. CASE owner.op = "release"
      <4>1. ws' \in ClearPendingScheduledChange(ws)
        BY <1>3, <3>2 DEF Written
      <4>2. QED
        BY <1>1, <4>1, ReleasedFields DEF Tidy
    <3>3. QED
      BY <1>10, <3>1, <3>2
  <2>2. CASE ws' = ws
    BY <1>3, <2>2, MovesSame DEF StepMoves
  <2>3. CASE ws'.row.pendingAt = NoTime
    BY <1>1, <1>3, <2>1, <2>3 DEF StepMoves, MovesRow, Awaiting, NoTime
  <2>4. QED
    BY <2>1, <2>2, <2>3
<1>11. QED
  BY <1>3, <1>7, <1>8, <1>9, <1>10 DEF Ops, WithTarget

LEMMA BrokeMoves ==
  ASSUME Before, IInv', Steps, OwnerInterrupted
  PROVE  StepMoves
<1>1. flaws' = {} /\ flaws = {} /\ Sound(ws') /\ Tidy(ws)
  BY BeforeFacts DEF Steps, Running, IInv, RowInv
<1>2. /\ Alone(ws', ws) /\ SamePending(ws'.row, ws.row) /\ ws'.row.end = ws.row.end
      /\ \/ ws'.row.status = ws.row.status
         \/ ws.row.status = "past_due" /\ ws'.row.status = "active"
  BY <1>1, BrokeFields DEF Before
<1>3. TidyRow(ws'.row)
  BY <1>1, BrokeTidy DEF Before, Tidy
<1>4. MovesRow(ws', ws)
  BY <1>1, <1>2, <1>3, RestMovesRow DEF Before, Live
<1>5. QED
  BY <1>4 DEF StepMoves, OwnerInterrupted

LEMMA PlatformMoves ==
  ASSUME Before, Steps, Platform
  PROVE  StepMoves
<1>1. /\ Sound(ws) /\ Tidy(ws) /\ "none" \notin Intervals /\ clock \in Nat /\ flaws = {}
      /\ Ends = ws.trial.ends /\ Newest # NoSub /\ Plain(ws, clock)
      /\ ws.row.sub \in Subs \cup {NoSub} /\ Kept(ws, ws)
  BY BeforeFacts DEF Steps
<1>2. PICK due : due = ApplyDueTransitions(ws, clock)
  OBVIOUS
<1>3. MovesRow(due, ws) /\ Sound(due) /\ Kept(due, ws)
  <2>1. MovesRow(due, ws)
    BY <1>1, <1>2, RestMovesRow DEF Before, Tidy, Alone, SamePending
  <2>2. QED
    BY <1>1, <1>2, <2>1, DueKept DEF Kept
<1>4. IsLive(Newest)'
  BY DEF Steps, Running
<1>5. CASE SendPaymentWarnings
  BY <1>2, <1>3, <1>5 DEF SendPaymentWarnings, StepMoves
<1>6. CASE ExpireTrial
  <2>1. ws'.row = ws.row
    BY <1>1, <1>6, ExpiryFields DEF ExpireTrial
  <2>2. QED
    BY <1>6, <2>1, MovesSame DEF ExpireTrial, StepMoves
<1>7. CASE Block
  <2>1. CASE RunsOn(ws)
    <3>1. /\ CancelAccepted(ws.row.sub)
          /\ Change(ws.row.sub, CancelledAtStripe(ws.row.sub), {"subscription"})
          /\ ws' \in CancelledLocally(ws, ws.row.sub)
          /\ UNCHANGED <<owner, clock>>
      BY <1>7, <2>1 DEF Block, TellsToEnd
    <3>2. /\ ws'.row.status = ws.row.status /\ ws'.row.end = ws.row.end /\ ~Awaiting(ws'.row)
          /\ ws'.row.pendingAt = Latest.end \/ ws'.row.pendingAt <= clock
          /\ SameTerms(Latest', Latest) /\ SameNext(Latest', Latest)
      BY <1>1, <1>4, <3>1, LocalFields DEF Before, Steps
    <3>3. QED
      BY <3>1, <3>2, MovesSame, LocalMoves DEF StepMoves
  <2>2. CASE ~RunsOn(ws)
    BY <1>7, <2>2, MovesSame DEF Block, NoChange, StepMoves
  <2>3. QED
    BY <2>1, <2>2
<1>8. CASE Unblock
  <2>1. CASE ToResume(due)
    <3>1. PICK s : s = due.row.sub
      OBVIOUS
    <3>2. /\ s # NoSub /\ IsLive(s) /\ ws' \in ClearPendingCancellation(due)
          /\ Change(s, [stripe[s] EXCEPT !.cancel = FALSE], {"subscription"})
          /\ due.row.status \in Live /\ due.row.cancel /\ UNCHANGED <<owner, clock>>
      BY <1>2, <1>8, <2>1, <3>1 DEF Unblock, TellsToGoOn, ToResume
    <3>3. s \in Subs
      BY <1>3, <3>1, <3>2, Known DEF Rows
    <3>4. s = Newest /\ stripe[s] = Latest /\ stripe[s] \in SubscriptionRecords
      BY <3>2, <3>3, LiveTurns, AtStripe DEF Before, BasicInv
    <3>5. Latest' = [Latest EXCEPT !.cancel = FALSE]
      BY <3>2, <3>3, <3>4, ShapeChange DEF Before, Steps, Latest
    <3>6. SameTerms(Latest', Latest) /\ SameNext(Latest', Latest)
      BY <3>4, <3>5 DEF SubscriptionRecords, SameTerms, SameNext, Pair, NextOf
    <3>7. /\ ws'.row.status = due.row.status /\ ws'.row.end = due.row.end
          /\ NonePending(ws'.row)
      BY <1>3, <3>2, ResumedFields
    <3>8. QED
      BY <1>1, <1>3, <3>2, <3>6, <3>7, LocalMoves DEF StepMoves, NonePending, Awaiting, NoTime
  <2>2. CASE ~ToResume(due)
    <3>1. NoChange /\ (ws' = due \/ ws' = [due EXCEPT !.plan = "basic"])
      BY <1>2, <1>8, <2>2 DEF Unblock
    <3>2. ws'.row = due.row
      BY <1>3, <3>1, Known DEF Workspaces
    <3>3. MovesRow(ws', ws)
      BY <1>3, <3>2 DEF MovesRow
    <3>4. QED
      BY <3>1, <3>3 DEF StepMoves, NoChange
  <2>3. QED
    BY <2>1, <2>2
<1>9. CASE BlockFails \/ UnblockFails
  <2>1. Turn /\ (ToldToEnd \/ ToldToGoOn) /\ UNCHANGED <<ws, owner, clock>>
    <3>1. UNCHANGED <<ws, owner, clock, worker, applied>> /\ OneLive /\ HoldersStay
      BY <1>9 DEF BlockFails, UnblockFails, Before, BasicInv, HoldersStay
    <3>2. CASE BlockFails
      <4>1. Turn /\ (Closure \/ ToldToEnd)
        BY <1>1, <3>1, <3>2, EndTurns DEF BlockFails, Before
      <4>2. ~Closure
        BY <1>4, <4>1, TurnKeeps, ClosureFields DEF Before, IsLive, Latest, Live
      <4>3. QED
        BY <3>1, <4>1, <4>2
    <3>3. CASE UnblockFails
      <4>1. /\ TellsToGoOn(due)
            /\ stripe[due.row.sub].status # "past_due" \/ flaws' # {}
        BY <1>2, <3>3 DEF UnblockFails, Flawed
      <4>2. QED
        BY <1>2, <3>1, <4>1, GoOnTurns DEF Before
    <3>4. QED
      BY <1>9, <3>2, <3>3
  <2>2. SameTerms(Latest', Latest) /\ SameNext(Latest', Latest)
    BY <2>1, ToldFields DEF Before, ToldToEnd, ToldToGoOn
  <2>3. QED
    BY <2>1, <2>2, MovesSame DEF StepMoves
<1>10. QED
  BY <1>5, <1>6, <1>7, <1>8, <1>9 DEF Platform

LEMMA AllStepsMove ==
  ASSUME Before, IInv', Steps, ~(OwnerWrites /\ owner.op = "schedule")
  PROVE  StepMoves
<1>1. [Next]_vars /\ IsLive(Newest)' /\ Newest' = Newest /\ flaws' = {}
  BY DEF Steps, Running
<1>2. ~Subscribe
  <2>1. SUFFICES ASSUME Subscribe PROVE FALSE
    OBVIOUS
  <2>2. PICK s \in Subs : s \notin Used /\ Newest' = s
    BY <2>1, Bought DEF Before, BasicInv
  <2>3. QED
    BY <1>1, <2>2, NewestExists DEF Before, Steps, Running
<1>3. CASE Stripe
  <2>1. StripeKeeps /\ (Renewal \/ Recovery \/ Closure)
    BY <1>2, <1>3, StripeTurns DEF Before, BasicInv
  <2>2. ~Closure
    <3>1. SUFFICES ASSUME Closure PROVE FALSE
      OBVIOUS
    <3>2. Newest \in Subs
      BY NewestExists DEF Before, Steps, Running
    <3>3. Latest' = [Latest EXCEPT !.status = "canceled"] /\ Latest \in SubscriptionRecords
      BY <1>1, <3>1, <3>2, ShapeChange, AtStripe DEF Before, Closure, Latest
    <3>4. Latest'.status = "canceled"
      BY <3>3 DEF SubscriptionRecords
    <3>5. QED
      BY <1>1, <3>4 DEF IsLive, Latest, Live
  <2>3. MovesRow(ws', ws)
    BY <2>1, MovesSame DEF StripeKeeps
  <2>4. QED
    BY <2>1, <2>2, <2>3 DEF StepMoves
<1>4. CASE OwnerCalls
  <2>1. MovesRow(ws', ws)
    BY <1>4, MovesSame DEF OwnerCalls
  <2>2. CASE owner.op = "confirm"
    BY <1>4, <2>1, <2>2 DEF OwnerCalls, NoChange, StepMoves
  <2>3. CASE owner.op # "confirm"
    <3>1. UNCHANGED <<stripe, version>> \/ Turn
      BY <1>1, <1>2, StepTurns DEF Before, BasicInv
    <3>2. Called
      BY <1>1, <1>4, <2>3, <3>1, CallTurns DEF Before, Steps
    <3>3. QED
      BY <2>1, <3>2 DEF StepMoves
  <2>4. QED
    BY <2>2, <2>3
<1>5. CASE \E w \in Workers : Apply(w)
  BY <1>5, ApplyMoves
<1>6. CASE OwnerWrites
  BY <1>6, WriteMoves
<1>7. CASE OwnerInterrupted
  BY <1>7, BrokeMoves
<1>8. CASE Platform
  BY <1>8, PlatformMoves
<1>9. CASE UNCHANGED <<ws, stripe, version>>
  BY <1>9, MovesSame DEF StepMoves
<1>10. CASE \E w \in Workers : ApplyRolledBack(w)
  <2>1. Turn /\ UNCHANGED <<ws, owner, clock>> /\ (Closure \/ ToldToEnd)
    BY <1>10, RolledBackTurns DEF Before, BasicInv
  <2>2. ~Closure
    BY <1>1, <2>1, TurnKeeps, ClosureFields DEF Before, IsLive, Latest, Live
  <2>3. SameTerms(Latest', Latest) /\ SameNext(Latest', Latest)
    BY <2>1, <2>2, ToldFields DEF Before, ToldToEnd
  <2>4. QED
    BY <2>1, <2>3, MovesSame DEF StepMoves
<1>11. QED
  BY <1>1, <1>3, <1>4, <1>5, <1>6, <1>7, <1>8, <1>9, <1>10
     DEF Next, vars, Owner, OwnerReads, OwnerRefused, Tick, Webhook, Claim, Take, Retrieve,
         RetrieveFails, MarkProcessed, MarkFailed, Crash, Release, AnswerInProgress
-----------------------------------------------------------------------------
(* WaitFits is kept.                                                       *)

(* What is known of a row that waits.                                      *)
LEMMA WaitFacts ==
  ASSUME Before, Running, Awaiting(ws.row)
  PROVE  /\ ws.row.pendingAt \in Nat /\ ws.row.pendingAt >= Ends /\ Ends \in Nat
         /\ ws.row.pendingPlan \in PaidPlans /\ ws.row.status \in Live
         /\ Latest.end \in Nat /\ Latest.end >= clock /\ clock \in Nat
         /\ ws.row.pendingAt <= Latest.end
         /\ WaitsAnswered(ws.row) /\ WaitsScheduled(ws.row)
         /\ Latest.end = ws.row.pendingAt => Pair(Latest) = Pair(ws.row)
         /\ Latest.end > ws.row.pendingAt =>
              ws.row.pendingAt <= clock /\ (Pair(Latest) = Target(ws.row) \/ Excused(Now))
<1>1. Sound(ws) /\ Tidy(ws) /\ clock \in Nat /\ Ends \in Nat /\ Ends = ws.trial.ends /\ Newest # NoSub
  BY BeforeFacts
<1>2. ws.row.status \in Live
  BY <1>1, AwaitsLive DEF Tidy
<1>3. /\ Latest.end \in Nat /\ Latest.end >= clock
  BY <1>1, NewestLive DEF Before, Running
<1>4. RowWaits(ws.row)
  BY DEF Before, WaitFits
<1>5. WaitsAnswered(ws.row) /\ WaitsScheduled(ws.row)
      /\ (ws.row.pendingAt = Latest.end \/ ws.row.pendingAt <= clock)
  BY <1>2, <1>4 DEF RowWaits
<1>6. ws.row.pendingAt \in Nat
  BY <1>1, Known, Constants DEF Rows
<1>7. ws.row.pendingAt >= Ends
  BY <1>1 DEF Sound, RowDated, Awaiting
<1>8. ws.row.pendingPlan \in PaidPlans
  BY <1>1 DEF Tidy, TidyRow
<1>9. Now \in Recent /\ Now.snap = Snapshot(Newest)
  BY NowIsRecent DEF Before
<1>10. Pair(Now.snap) = Pair(Latest) /\ Now.snap.end = Latest.end
  BY <1>9 DEF Snapshot, SnapshotOf, Latest, Pair
<1>11. /\ Latest.end = ws.row.pendingAt => Pair(Latest) = Pair(ws.row)
       /\ Latest.end > ws.row.pendingAt =>
            ws.row.pendingAt <= clock /\ (Pair(Latest) = Target(ws.row) \/ Excused(Now))
  BY <1>5, <1>9, <1>10 DEF WaitsAnswered
<1>12. QED
  BY <1>1, <1>2, <1>3, <1>5, <1>6, <1>7, <1>8, <1>11

(* The owner's answer is no newer than what Stripe has now.                *)
LEMMA CallFacts ==
  ASSUME Before, Running, NEW op, Calls(op, Newest)
  PROVE  /\ owner.snap.end \in Nat /\ owner.snap.end <= Latest.end
         /\ owner.snap.end = Latest.end \/ owner.snap.end <= clock
<1>1. PICK a \in Recent : a.snap = owner.snap
  BY OwnerIsRecent DEF Before, Calls
<1>2. AnswerFits(a)
  BY DEF Before, AnswersFit
<1>3. a.snap.end \in Nat
  BY BeforeFacts, RecentFacts DEF Before
<1>4. QED
  BY <1>1, <1>2, <1>3 DEF AnswerFits

(* While the row waits, a request to replace what it waits for goes on.    *)
LEMMA CallsKept ==
  ASSUME Before, Steps, Awaiting(ws'.row), ~(OwnerWrites /\ owner.op = "schedule"),
         NEW op \in {"release", "schedule"}, Calls(op, Newest)
  PROVE  UNCHANGED owner
<1>1. owner.pc = "called" /\ owner.op = op
  BY DEF Calls
<1>2. [Next]_vars /\ flaws' = {}
  BY DEF Steps, Running
<1>3. ~OwnerReads /\ ~OwnerCalls /\ ~OwnerRefused
  BY <1>1 DEF OwnerReads, OwnerCalls, OwnerRefused
<1>4. ~OwnerInterrupted
  BY <1>1, <1>2 DEF OwnerInterrupted, Flawed, Torn
<1>5. ~OwnerWrites
  <2>1. SUFFICES ASSUME OwnerWrites PROVE FALSE
    OBVIOUS
  <2>2. owner.op = "release"
    BY <1>1, <2>1
  <2>3. ws' \in ClearPendingScheduledChange(ws)
    BY <2>1, <2>2 DEF OwnerWrites, Written
  <2>4. ws'.row.pendingAt = NoTime
    BY <2>3, BeforeFacts, ReleasedFields DEF Steps, Tidy
  <2>5. QED
    BY <2>4 DEF Awaiting
<1>6. QED
  BY <1>2, <1>3, <1>4, <1>5, OwnerMoves

(* A row that goes on waiting, when Stripe goes on with what it waits for. *)
LEMMA WaitsNext ==
  ASSUME Before, IInv', Steps, MovesRow(ws', ws), Awaiting(ws'.row),
         ~(OwnerWrites /\ owner.op = "schedule"),
         Latest'.end = ws.row.pendingAt => Pair(Latest') = Pair(ws.row),
         Latest'.end > ws.row.pendingAt =>
           ws.row.pendingAt <= clock' /\ (Pair(Latest') = Target(ws.row) \/ Excused(Now)'),
         Latest'.end = ws.row.pendingAt =>
           \/ NextOf(Latest') = Target(ws.row)
           \/ Latest'.nextPlan = "none" /\ Calls("release", Newest)',
         Latest'.end > ws.row.pendingAt =>
           Latest'.nextPlan = "none" \/ Calls("schedule", Newest)'
  PROVE  WaitsAnswered(ws.row)' /\ WaitsScheduled(ws.row)'
<1>1. /\ Awaiting(ws.row) /\ Pair(ws'.row) = Pair(ws.row)
      /\ Target(ws'.row) = Target(ws.row) /\ ws'.row.pendingAt = ws.row.pendingAt
  BY DEF MovesRow
<1>2. /\ WaitsAnswered(ws.row) /\ Newest' = Newest /\ [Next]_vars
  BY <1>1, WaitFacts DEF Steps
<1>3. clock \in Nat /\ clock' \in Nat /\ clock <= clock' /\ ws.row.pendingAt \in Nat
  BY <1>1, <1>2, ClockGrows, WaitFacts DEF Before, Steps
<1>4. ASSUME NEW a \in Recent'
      PROVE  /\ a.snap.end = ws.row.pendingAt => Pair(a.snap) = Pair(ws.row)
             /\ a.snap.end > ws.row.pendingAt =>
                  ws.row.pendingAt <= clock' /\ (Pair(a.snap) = Target(ws.row) \/ Excused(a)')
  <2>1. a = Now' \/ a \in Recent
    BY <1>2, RecentStep DEF Before
  <2>2. CASE a = Now'
    <3>1. Pair(a.snap) = Pair(Latest') /\ a.snap.end = Latest'.end
      BY <2>2 DEF Now, Snapshot, SnapshotOf, Latest, Pair
    <3>2. QED
      BY <2>2, <3>1
  <2>3. CASE a \in Recent
    <3>1. /\ a.snap.end = ws.row.pendingAt => Pair(a.snap) = Pair(ws.row)
          /\ a.snap.end > ws.row.pendingAt =>
               ws.row.pendingAt <= clock /\ (Pair(a.snap) = Target(ws.row) \/ Excused(a))
      BY <1>2, <2>3 DEF WaitsAnswered
    <3>2. Excused(a) => Excused(a)'
      <4>1. SUFFICES ASSUME Excused(a) PROVE Excused(a)'
        OBVIOUS
      <4>2. UNCHANGED owner
        BY <4>1, CallsKept DEF Excused
      <4>3. QED
        BY <1>2, <4>1, <4>2 DEF Excused, Calls
    <3>3. QED
      BY <1>3, <3>1, <3>2
  <2>4. QED
    BY <2>1, <2>2, <2>3
<1>5. WaitsAnswered(ws.row)'
  BY <1>1, <1>4 DEF WaitsAnswered
<1>6. WaitsScheduled(ws.row)'
  BY <1>1 DEF WaitsScheduled
<1>7. QED
  BY <1>5, <1>6

LEMMA WaitsRest ==
  ASSUME Before, IInv', Steps, MovesRow(ws', ws), Awaiting(ws'.row),
         ~(OwnerWrites /\ owner.op = "schedule"), UNCHANGED <<stripe, version>>
  PROVE  WaitsAnswered(ws.row)' /\ WaitsScheduled(ws.row)'
<1>1. Awaiting(ws.row) /\ Running /\ Newest' = Newest /\ [Next]_vars
  BY DEF MovesRow, Steps
<1>2. Latest' = Latest /\ Now' = Now
  BY <1>1 DEF Latest, Now, Snapshot
<1>3. /\ Latest.end = ws.row.pendingAt => Pair(Latest) = Pair(ws.row)
      /\ Latest.end > ws.row.pendingAt =>
           ws.row.pendingAt <= clock /\ (Pair(Latest) = Target(ws.row) \/ Excused(Now))
      /\ WaitsScheduled(ws.row) /\ ws.row.pendingAt \in Nat
  BY <1>1, WaitFacts
<1>4. clock \in Nat /\ clock' \in Nat /\ clock <= clock'
  BY <1>1, ClockGrows DEF Before
<1>5. Excused(Now) => Excused(Now)'
  <2>1. SUFFICES ASSUME Excused(Now) PROVE Excused(Now)'
    OBVIOUS
  <2>2. UNCHANGED owner
    BY <2>1, CallsKept DEF Excused
  <2>3. QED
    BY <1>1, <1>2, <2>1, <2>2 DEF Excused, Calls
<1>6. \A op \in {"release", "schedule"} : Calls(op, Newest) => Calls(op, Newest)'
  <2>1. SUFFICES ASSUME NEW op \in {"release", "schedule"}, Calls(op, Newest)
                 PROVE  Calls(op, Newest)'
    OBVIOUS
  <2>2. UNCHANGED owner
    BY <2>1, CallsKept
  <2>3. QED
    BY <1>1, <2>1, <2>2 DEF Calls
<1>7. Pair(Latest') = Pair(Latest) /\ NextOf(Latest') = NextOf(Latest)
  BY <1>2
<1>8. QED
  BY <1>1, <1>2, <1>3, <1>4, <1>5, <1>6, <1>7, WaitsNext DEF WaitsScheduled

LEMMA WaitsRenewed ==
  ASSUME Before, IInv', Steps, MovesRow(ws', ws), Awaiting(ws'.row), Turn, Renewal
  PROVE  WaitsAnswered(ws.row)' /\ WaitsScheduled(ws.row)'
<1>1. Awaiting(ws.row) /\ Running /\ Newest' = Newest /\ [Next]_vars
  BY DEF MovesRow, Steps
<1>2. NextPeriod(Latest', Latest, clock) /\ UNCHANGED owner /\ clock' = clock
  BY RenewalFields DEF Before, DatesInv, Renewal, StripeKeeps
<1>3. Latest.end = clock /\ Latest'.end = clock + Period /\ Period \in Nat \ {0} /\ clock \in Nat
      /\ Latest'.nextPlan = "none"
      /\ Pair(Latest') = IF Latest.nextPlan = "none" THEN Pair(Latest) ELSE NextOf(Latest)
  BY <1>1, <1>2, NewestExists, ClockFacts DEF NextPeriod, Before, Running
<1>4. /\ ws.row.pendingAt \in Nat /\ ws.row.pendingAt <= Latest.end
      /\ ws.row.pendingPlan \in PaidPlans /\ WaitsScheduled(ws.row)
      /\ Latest.end > ws.row.pendingAt => Pair(Latest) = Target(ws.row) \/ Excused(Now)
  BY <1>1, WaitFacts
<1>5. Latest'.end > ws.row.pendingAt /\ ws.row.pendingAt <= clock'
  BY <1>2, <1>3, <1>4
<1>6. ASSUME NEW op \in {"release", "schedule"}, Calls(op, Newest) PROVE Excused(Now)'
  <2>1. owner.snap.end \in Nat /\ owner.snap.end <= Latest.end
    BY <1>1, <1>6, CallFacts
  <2>2. owner.ver <= version /\ version \in Nat /\ owner.ver \in Nat /\ version' = version + 1
    BY <1>1, BeforeFacts, TurnKeeps DEF Before
  <2>3. Now'.ver = version' /\ Now'.snap.end = Latest'.end
    BY DEF Now, Snapshot, SnapshotOf, Latest
  <2>4. owner'.ver < Now'.ver /\ owner'.snap.end < Now'.snap.end
    BY <1>2, <1>3, <2>1, <2>2, <2>3
  <2>5. Calls(op, Newest)'
    BY <1>1, <1>2, <1>6 DEF Calls
  <2>6. QED
    BY <2>4, <2>5 DEF Excused
<1>7. Excused(Now) => Excused(Now)'
  BY <1>6 DEF Excused
<1>8. Pair(Latest') = Target(ws.row) \/ Excused(Now)'
  <2>1. CASE Latest.end = ws.row.pendingAt
    <3>1. NextOf(Latest) = Target(ws.row) \/ Calls("release", Newest)
      BY <1>4, <2>1 DEF WaitsScheduled
    <3>2. CASE NextOf(Latest) = Target(ws.row)
      <4>1. Latest.nextPlan # "none"
        BY <1>4, <3>2 DEF NextOf, Target, PaidPlans
      <4>2. QED
        BY <1>3, <3>2, <4>1
    <3>3. QED
      BY <1>6, <3>1, <3>2
  <2>2. CASE Latest.end > ws.row.pendingAt
    <3>1. Latest.nextPlan = "none" \/ Calls("schedule", Newest)
      BY <1>4, <2>2 DEF WaitsScheduled
    <3>2. QED
      BY <1>3, <1>4, <1>6, <1>7, <2>2, <3>1
  <2>3. QED
    BY <1>3, <1>4, <2>1, <2>2
<1>9. ~(OwnerWrites /\ owner.op = "schedule")
  <2>1. version' # version
    BY <1>1, BeforeFacts, TurnKeeps DEF Before
  <2>2. QED
    BY <2>1 DEF OwnerWrites
<1>10. QED
  BY <1>3, <1>4, <1>5, <1>8, <1>9, WaitsNext

LEMMA WaitsKept ==
  ASSUME Before, IInv', Steps, MovesRow(ws', ws), Awaiting(ws'.row), Turn,
         SameTerms(Latest', Latest), SameNext(Latest', Latest), UNCHANGED <<owner, clock>>
  PROVE  WaitsAnswered(ws.row)' /\ WaitsScheduled(ws.row)'
<1>1. Awaiting(ws.row) /\ Running /\ Newest' = Newest /\ [Next]_vars
  BY DEF MovesRow, Steps
<1>2. UNCHANGED owner /\ clock' = clock
  OBVIOUS
<1>3. Latest'.end = Latest.end /\ Pair(Latest') = Pair(Latest)
      /\ NextOf(Latest') = NextOf(Latest) /\ Latest'.nextPlan = Latest.nextPlan
  BY DEF SameTerms, SameNext
<1>4. owner.ver <= version /\ version \in Nat /\ owner.ver \in Nat /\ version' = version + 1
  BY <1>1, BeforeFacts, TurnKeeps DEF Before
<1>5. Excused(Now) => Excused(Now)'
  <2>1. Now'.ver = version' /\ Now'.snap.end = Now.snap.end /\ Now.ver = version
    BY <1>3 DEF Now, Snapshot, SnapshotOf, Latest
  <2>2. \A op : Calls(op, Newest)' <=> Calls(op, Newest)
    BY <1>1, <1>2 DEF Calls
  <2>3. owner'.ver < Now'.ver
    BY <1>2, <1>4, <2>1
  <2>4. QED
    BY <1>2, <2>1, <2>2, <2>3 DEF Excused
<1>6. \A op : Calls(op, Newest)' <=> Calls(op, Newest)
  BY <1>1, <1>2 DEF Calls
<1>7. /\ Latest.end = ws.row.pendingAt => Pair(Latest) = Pair(ws.row)
      /\ Latest.end > ws.row.pendingAt =>
           ws.row.pendingAt <= clock /\ (Pair(Latest) = Target(ws.row) \/ Excused(Now))
      /\ WaitsScheduled(ws.row)
  BY <1>1, WaitFacts
<1>8. ~(OwnerWrites /\ owner.op = "schedule")
  BY <1>4 DEF OwnerWrites
<1>9. QED
  BY <1>2, <1>3, <1>5, <1>6, <1>7, <1>8, WaitsNext DEF WaitsScheduled

LEMMA WaitsCalled ==
  ASSUME Before, IInv', Steps, MovesRow(ws', ws), Awaiting(ws'.row), Turn, Called
  PROVE  WaitsAnswered(ws.row)' /\ WaitsScheduled(ws.row)'
<1>1. Awaiting(ws.row) /\ Running /\ Newest' = Newest /\ [Next]_vars
  BY DEF MovesRow, Steps
<1>2. flaws' = {} /\ IsLive(Newest)'
  BY DEF Steps, Running
<1>3. /\ owner.pc = "read" /\ owner'.pc = "called" /\ owner'.op = owner.op
      /\ owner'.sub = Newest /\ clock' = clock
      /\ owner.op \in Ops \ {"confirm"}
  BY CalledFields DEF Before
<1>4. \A op : ~Calls(op, Newest)
  BY <1>3 DEF Calls
<1>5. Calls(owner.op, Newest)'
  BY <1>1, <1>3 DEF Calls
<1>6. ~Excused(Now)
  BY <1>4 DEF Excused
<1>7. /\ Latest.end = ws.row.pendingAt => Pair(Latest) = Pair(ws.row)
      /\ Latest.end > ws.row.pendingAt =>
           ws.row.pendingAt <= clock /\ Pair(Latest) = Target(ws.row)
      /\ Latest.end = ws.row.pendingAt => NextOf(Latest) = Target(ws.row)
      /\ Latest.end > ws.row.pendingAt => Latest.nextPlan = "none"
  BY <1>1, <1>4, <1>6, WaitFacts DEF WaitsScheduled
<1>8. ~(OwnerWrites /\ owner.op = "schedule")
  BY <1>3 DEF OwnerWrites
<1>9. CASE owner.op = "release"
  <2>1. SameTerms(Latest', Latest) /\ Latest'.nextPlan = "none"
    BY <1>9, CalledFields DEF Before
  <2>2. Latest'.end = Latest.end /\ Pair(Latest') = Pair(Latest)
    BY <2>1 DEF SameTerms
  <2>3. QED
    BY <1>3, <1>5, <1>7, <1>8, <1>9, <2>1, <2>2, WaitsNext
<1>10. CASE owner.op \notin {"release", "clear"}
  <2>1. Latest.nextPlan = "none"
    BY <1>10, CalledFields DEF Before
  <2>2. ws.row.pendingAt \in Nat /\ Latest.end \in Nat /\ ws.row.pendingAt <= Latest.end
        /\ ws.row.pendingPlan \in PaidPlans /\ ws.row.pendingAt >= Ends /\ Ends \in Nat
    BY <1>1, WaitFacts
  <2>3. Latest.end # ws.row.pendingAt
    BY <1>7, <2>1, <2>2 DEF NextOf, Target, PaidPlans
  <2>4. Latest.end > ws.row.pendingAt /\ Pair(Latest) = Target(ws.row)
    BY <1>7, <2>2, <2>3
  <2>5. CASE owner.op \in {"schedule", "cancel", "resume"}
    <3>1. SameTerms(Latest', Latest)
      BY <2>5, CalledFields DEF Before
    <3>2. Latest'.end = Latest.end /\ Pair(Latest') = Pair(Latest)
      BY <3>1 DEF SameTerms
    <3>3. Latest'.nextPlan = "none" \/ Calls("schedule", Newest)'
      <4>1. CASE owner.op = "schedule"
        BY <1>3, <1>5, <4>1 DEF Calls
      <4>2. CASE owner.op \in {"cancel", "resume"}
        BY <2>1, <4>2, CalledFields DEF Before, SameNext
      <4>3. QED
        BY <2>5, <4>1, <4>2
    <3>4. QED
      BY <1>3, <1>7, <1>8, <2>2, <2>4, <3>2, <3>3, WaitsNext
  <2>6. owner.op # "upgrade"
    <3>1. SUFFICES ASSUME owner.op = "upgrade" PROVE FALSE
      OBVIOUS
    <3>2. Latest.interval = owner.interval
      BY <1>2, <3>1, CalledFields DEF Before
    <3>3. Tidy(ws) /\ UpgradeAsked
      BY <1>1 DEF Before, Running, TidyInv, TidyNow
    <3>4. owner.interval = ws.row.interval /\ ws.row.plan = "plus"
      BY <1>1, <1>3, <3>1, <3>3 DEF UpgradeAsked
    <3>5. Target(ws.row) # Pair(ws.row) /\ Target(ws.row) # <<"business", ws.row.interval>>
      BY <1>1, <3>3, <3>4 DEF Tidy, TidyRow
    <3>6. QED
      BY <2>2, <2>4, <3>2, <3>4, <3>5 DEF Pair, Target, PaidPlans
  <2>7. owner.op # "retarget"
    <3>1. SUFFICES ASSUME owner.op = "retarget" PROVE FALSE
      OBVIOUS
    <3>2. Latest.status = "trialing"
      BY <3>1, CalledFields DEF Before
    <3>3. Latest.end = Ends
      BY <1>1, <3>2, NewestLive DEF Before, Running
    <3>4. QED
      BY <2>2, <2>4, <3>3
  <2>8. QED
    BY <1>3, <1>10, <2>5, <2>6, <2>7 DEF Ops, WithTarget
<1>11. owner.op # "clear"
  <2>1. SUFFICES ASSUME owner.op = "clear" PROVE FALSE
    OBVIOUS
  <2>2. Latest'.status = "canceled"
    BY <2>1, CalledFields DEF Before
  <2>3. QED
    BY <1>2, <2>2 DEF IsLive, Latest, Live
<1>12. QED
  BY <1>9, <1>10, <1>11

(* What was scheduled at Stripe, written into the row.                     *)
LEMMA WaitsWritten ==
  ASSUME Before, IInv', Steps, OwnerWrites, owner.op = "schedule"
  PROVE  RowWaits(ws.row)'
<1>1. /\ Sound(ws) /\ Tidy(ws) /\ "none" \notin Intervals /\ clock \in Nat /\ flaws = {}
      /\ applied \in Nat /\ Ends = ws.trial.ends /\ Ends \in Nat /\ Newest # NoSub
      /\ owner.ver \in Nat
  BY BeforeFacts DEF Steps
<1>2. [Next]_vars /\ Running /\ Running' /\ Newest' = Newest /\ flaws' = {}
  BY DEF Steps, Running
<1>3. /\ owner.pc = "called" /\ UNCHANGED <<clock, stripe, version>>
      /\ owner.sub = Newest /\ ws' \in Written /\ Behind = {}
      /\ applied' = NewestOf(applied, owner.ver)
  BY <1>2, OwnerAnswer DEF Before, Wrote
<1>4. ws' \in ScheduleBillingChange(ws, owner.plan, owner.interval)
  BY <1>3 DEF Written
<1>5. owner.plan \in PaidPlans /\ owner.interval \in Intervals
  BY DEF Before, IInv, OwnerInv, WithTarget
<1>6. /\ Alone(ws', ws) /\ ws'.row.status = ws.row.status /\ ws'.row.end = ws.row.end
      /\ ws.row.status \in Live
      /\ Target(ws'.row) = <<owner.plan, owner.interval>> /\ ws'.row.pendingAt = ws.row.end
  BY <1>1, <1>4, <1>5, ScheduledFields
<1>7. /\ Calls("schedule", Newest)
      /\ owner.snap.end = ws.row.end /\ Pair(ws.row) = Pair(owner.snap)
  <2>1. <<ws.row.plan, ws.row.interval, ws.row.end>>
          = <<owner.snap.plan, owner.snap.interval, owner.snap.end>>
    BY <1>3 DEF Behind
  <2>2. QED
    BY <1>3, <2>1 DEF Calls, Pair
<1>8. ScheduleStays
  BY <1>2, <1>7 DEF Before, OwnerFits, OwnerKept
<1>9. /\ owner.snap.end \in Nat /\ owner.snap.end <= Latest.end
      /\ owner.snap.end = Latest.end \/ owner.snap.end <= clock
  BY <1>2, <1>7, CallFacts
<1>10. Latest' = Latest /\ Now' = Now /\ Now \in Recent /\ Ends' = Ends
  <2>1. ws'.trial = ws.trial
    BY <1>6 DEF Alone
  <2>2. QED
    BY <1>2, <1>3, <2>1, NowIsRecent DEF Before, Latest, Now, Snapshot, Ends
<1>11. ASSUME NEW a \in Recent'
       PROVE  /\ a.snap.end = ws.row.end => Pair(a.snap) = Pair(ws.row)
              /\ a.snap.end > ws.row.end =>
                   ws.row.end <= clock /\ Pair(a.snap) = <<owner.plan, owner.interval>>
  <2>1. a \in Recent /\ applied' <= a.ver
    BY <1>2, <1>10, RecentStep DEF Before
  <2>2. AnswerFits(a) /\ a.ver \in Nat /\ a.snap.end \in Nat
    BY <1>1, <1>2, <2>1, RecentFacts DEF Before, AnswersFit
  <2>3. owner.ver <= a.ver
    BY <1>1, <1>3, <2>1, <2>2 DEF NewestOf
  <2>4. ScheduleFits(a)
    BY <1>8, <2>1, <2>3 DEF ScheduleStays
  <2>5. a.snap.end <= Latest.end /\ Latest.end \in Nat
    BY <1>2, <2>2, NewestLive DEF Before, Running, AnswerFits
  <2>6. CASE SameTerms(a.snap, owner.snap)
    BY <1>7, <1>9, <2>2, <2>6 DEF SameTerms
  <2>7. CASE a.snap.end > owner.snap.end /\ Pair(a.snap) = <<owner.plan, owner.interval>>
    BY <1>7, <1>9, <2>2, <2>5, <2>7
  <2>8. QED
    BY <2>4, <2>6, <2>7 DEF ScheduleFits
<1>12. Pair(ws'.row) = Pair(ws.row)
  BY <1>6 DEF Alone, Pair
<1>13. WaitsAnswered(ws.row)'
  BY <1>3, <1>6, <1>11, <1>12 DEF WaitsAnswered
<1>14. WaitsScheduled(ws.row)'
  BY <1>6, <1>7, <1>8, <1>9, <1>10 DEF WaitsScheduled, ScheduleStays
<1>15. ws.row.status = "trialing" => ws.row.end <= Ends
  BY <1>2 DEF Before, WaitFits, RowWaits
<1>16. QED
  BY <1>3, <1>6, <1>7, <1>9, <1>10, <1>13, <1>14, <1>15 DEF RowWaits

LEMMA StepRowWaits ==
  ASSUME Before, IInv', DatesInv', Steps, UNCHANGED <<stripe, version>> \/ (Turn /\ clock' = clock),
         Ends' = Ends
  PROVE  RowWaits(ws.row)'
<1>1. [Next]_vars /\ Running /\ Running' /\ Newest' = Newest
  BY DEF Steps
<1>2. CASE OwnerWrites /\ owner.op = "schedule"
  BY <1>2, WaitsWritten
<1>3. CASE ~(OwnerWrites /\ owner.op = "schedule")
  <2>1. StepMoves
    BY <1>3, AllStepsMove
  <2>2. RowWaits(ws.row)
    BY <1>1 DEF Before, WaitFits
  <2>3. clock \in Nat /\ clock' \in Nat /\ clock <= clock' /\ ws'.row.pendingAt \in Nat
        /\ ws.row.pendingAt \in Nat
    <3>1. Sound(ws) /\ Sound(ws')
      BY DEF Before, IInv, RowInv
    <3>2. QED
      BY <1>1, <3>1, ClockGrows, Known, Constants DEF Before, Rows
  <2>4. Latest'.end = Latest.end \/ Latest.end <= clock
    <3>1. CASE UNCHANGED stripe
      BY <1>1, <3>1 DEF Latest
    <3>2. CASE Turn
      <4>1. TurnsTo(Latest', Latest)
        BY <1>1, <3>2, TurnSums DEF Before, Running
      <4>2. QED
        BY <2>3, <4>1 DEF TurnsTo
    <3>3. QED
      BY <3>1, <3>2
  <2>5. MovesRow(ws', ws)
    BY <2>1 DEF StepMoves
  <2>6. ws'.row.status \in Live => ws'.row.pendingAt = Latest'.end \/ ws'.row.pendingAt <= clock'
    <3>1. ws'.row.status \in Live => ws'.row.pendingAt = Latest.end \/ ws'.row.pendingAt <= clock
      BY <2>2, <2>5 DEF MovesRow, RowWaits
    <3>2. QED
      BY <2>3, <2>4, <3>1
  <2>7. ws'.row.status = "trialing" =>
          ws'.row.end <= Ends' /\ (Awaiting(ws'.row) => ws'.row.pendingAt <= Ends')
    BY <2>2, <2>5, Zenon DEF MovesRow, RowWaits
  <2>8. ASSUME Awaiting(ws'.row)
        PROVE  WaitsAnswered(ws.row)' /\ WaitsScheduled(ws.row)'
    <3>1. CASE UNCHANGED <<stripe, version>>
      BY <1>3, <2>5, <2>8, <3>1, WaitsRest
    <3>2. CASE Turn
      <4>1. \/ Renewal \/ Recovery \/ Called
            \/ SameTerms(Latest', Latest) /\ SameNext(Latest', Latest) /\ UNCHANGED <<owner, clock>>
        <5>1. version' # version
          BY <1>1, <3>2, BeforeFacts, TurnKeeps DEF Before
        <5>2. QED
          BY <2>1, <5>1 DEF StepMoves
      <4>2. Recovery =>
              SameTerms(Latest', Latest) /\ SameNext(Latest', Latest) /\ UNCHANGED <<owner, clock>>
        BY <3>2, RecoveryFields DEF Before, Recovery, StripeKeeps
      <4>3. QED
        BY <2>5, <2>8, <3>2, <4>1, <4>2, WaitsRenewed, WaitsKept, WaitsCalled
    <3>3. QED
      BY <3>1, <3>2
  <2>9. QED
    BY <2>6, <2>7, <2>8 DEF RowWaits
<1>4. QED
  BY <1>2, <1>3

LEMMA StepWaits ==
  ASSUME Before, IInv', DatesInv', [Next]_vars
  PROVE  WaitFits'
<1>1. SUFFICES ASSUME Running' PROVE RowWaits(ws.row)'
  BY DEF WaitFits
<1>2. /\ Ends' = Ends
      /\ \/ Subscribe
         \/ /\ ~Subscribe /\ Running /\ Newest' = Newest
            /\ UNCHANGED <<stripe, version>> \/ (Turn /\ clock' = clock)
  BY <1>1, RunningOn DEF Before
<1>3. CASE Subscribe
  <2>1. ws.row.status \notin Live /\ ws' = ws /\ flaws = {}
    BY <1>1, <1>3, Bought, RunningBack DEF Before, BasicInv, Subscribe, StripeKeeps
  <2>2. Sound(ws) /\ TidyRow(ws.row)
    BY <2>1, RowKnown DEF Before, TidyInv, TidyNow, Tidy
  <2>3. ~Awaiting(ws'.row)
    BY <2>1, <2>2, AwaitsLive
  <2>4. QED
    BY <2>1, <2>3 DEF RowWaits, Live
<1>4. CASE ~Subscribe
  BY <1>1, <1>2, <1>4, StepRowWaits DEF Steps
<1>5. QED
  BY <1>3, <1>4
-----------------------------------------------------------------------------
(* AccordInv: the row agrees, or what is left to be applied brings it      *)
(* there.                                                                  *)

LEMMA AccordLater ==
  ASSUME NEW w, NEW t, NEW K, NEW now, NEW later, Accord(w, t, K, now),
         Awaiting(w.row) => w.row.status \in Live,
         w.row.status \in Live /\ w.row.pendingAt <= later => w.row.pendingAt <= now
  PROVE  Accord(w, t, K, later)
BY DEF Accord, PastDueAccord

(* What is left to be applied of the newest subscription.                  *)
Left == Ahead(-1)
LEMMA LeftAll ==
  ASSUME IInv, NEW v \in Nat
  PROVE  Ahead(v) \subseteq Left
<1>1. ASSUME NEW j \in Ahead(v) PROVE j \in Left
  <2>1. PICK e \in Events : Coming(e, v) /\ j = Report(e)
    BY <1>1, AheadIs
  <2>2. ASSUME NEW w \in Workers, worker[w].pc = "ready" PROVE worker[w].ver \in Nat
    BY <2>2, Holds
  <2>3. Coming(e, -1)
    BY <2>1, <2>2 DEF Coming
  <2>4. QED
    BY <2>1, <2>3 DEF Left, Ahead
<1>2. QED
  BY <1>1

LEMMA LeftKeeps ==
  ASSUME IInv, [Next]_vars, Newest' = Newest, flaws' = {}, \A w \in Workers : ~Apply(w)
  PROVE  Left \subseteq Left'
<1>1. -1 \in Int /\ -1 < version
  BY RowKnown
<1>2. QED
  BY <1>1, AllKeep DEF Left, Keeps

LEMMA LeftBrought ==
  ASSUME NEW kinds, Brings(kinds), NEW k \in kinds
  PROVE  \E j \in Left' : j \notin Left /\ j.kind = k
<1>1. -1 \in Int
  OBVIOUS
<1>2. QED
  BY <1>1, BroughtOne DEF Left

LEMMA LeftTwo ==
  ASSUME Brings({"paid", "subscription"})
  PROVE  HasTwo(Left)'
<1>1. -1 \in Int
  OBVIOUS
<1>2. HasTwo(Ahead(-1)')
  BY <1>1, BroughtTwo
<1>3. QED
  BY <1>2 DEF Left, HasTwo

LEMMA LeftHas ==
  ASSUME NEW kinds, Brings(kinds), NEW k \in kinds, NEW those, k \in those
  PROVE  Has(Left', those)
BY LeftBrought DEF Has

(* The row agrees with a subscription that runs, or what is left brings it *)
(* there; a blocked row that runs on is not left alone; and a past due row *)
(* that is to end ends at Stripe, too, or is due.                          *)
Stopped(r, s) ==
  s.status = "past_due" /\ r.status \in Live /\ r.cancel =>
    \/ s.cancel \/ r.pendingAt <= clock
    \/ Calls("resume", Newest) /\ owner.snap.status = "past_due"
Covered ==
  /\ Accord(ws, Latest, Left, clock)
  /\ blocked /\ RunsOn(ws) => Left # {}
  /\ Stopped(ws.row, Latest)
AccordInv == Running /\ Latest.end > clock => Covered

(* A step in a period that goes on.                                        *)
GoesOn ==
  /\ Before /\ IInv' /\ DatesInv' /\ Steps /\ Covered
  /\ Latest.end > clock /\ Latest'.end > clock'

LEMMA GoesOnFacts ==
  ASSUME GoesOn
  PROVE  /\ IInv /\ [Next]_vars /\ Newest' = Newest /\ flaws' = {} /\ Running /\ Running'
         /\ Sound(ws) /\ Tidy(ws) /\ Plain(ws, clock) /\ "none" \notin Intervals
         /\ clock \in Nat /\ Ends \in Nat /\ Ends = ws.trial.ends /\ Newest \in Subs
         /\ Latest.status \in Live /\ Latest'.status \in Live
         /\ Latest.end \in Nat /\ version \in Nat /\ applied \in Nat /\ owner.ver \in Nat
         /\ Latest.status = "trialing" => clock < Ends
         /\ Latest.status \in Paying => clock >= Ends
         /\ Latest = stripe[Newest] /\ Accord(ws, Latest, Left, clock)
<1>1. Before /\ Running /\ Running' /\ [Next]_vars /\ Newest' = Newest
  BY DEF GoesOn, Steps
<1>2. Newest # NoSub /\ clock \in Nat
  BY <1>1, BeforeFacts
<1>3. /\ Newest \in Subs /\ Latest.end \in Nat /\ Latest.status \in Live
      /\ Latest.status = "trialing" => Latest.end = Ends
      /\ Latest.status \in Paying => clock >= Ends
  BY <1>1, <1>2, NewestLive DEF Before, Running
<1>4. Latest.status = "trialing" => clock < Ends
  BY <1>3 DEF GoesOn
<1>5. Latest'.status \in Live
  BY <1>1 DEF Running, IsLive, Latest
<1>6. QED
  BY <1>1, <1>2, <1>3, <1>4, <1>5, BeforeFacts DEF Before, GoesOn, Running, Covered, Latest

(* A change the row waits for that is due has been made at Stripe, or is   *)
(* reported.                                                               *)
LEMMA DueReported ==
  ASSUME Before, Running, Latest.end > clock, Latest.status = "active",
         Awaiting(ws.row), ws.row.pendingAt <= clock
  PROVE  Pair(Latest) = Target(ws.row) \/ HasTwo(Left)
<1>1. Pair(Latest) = Target(ws.row) \/ Excused(Now)
  BY WaitFacts
<1>2. ASSUME Excused(Now) PROVE HasTwo(Left)
  <2>1. PICK op : Calls(op, Newest)
    BY <1>2 DEF Excused
  <2>2. owner.ver < version /\ owner.snap.end < Latest.end
    BY <1>2 DEF Excused, Now, Snapshot, SnapshotOf, Latest
  <2>3. PICK a \in Recent : a.snap = owner.snap /\ a.ver = owner.ver
    BY <2>1, OwnerIsRecent DEF Before, Calls
  <2>4. AnswerFits(a) /\ a.ver \in Nat
    BY <2>3, BeforeFacts DEF Before, AnswersFit
  <2>5. owner.snap.end \in Nat /\ Latest.end \in Nat
    BY <2>1, CallFacts, WaitFacts
  <2>6. ~SameTerms(a.snap, Latest)
    BY <2>2, <2>3, <2>5 DEF SameTerms
  <2>7. HasTwo(Ahead(a.ver))
    BY <2>2, <2>3, <2>4, <2>6 DEF AnswerFits, Lags
  <2>8. QED
    BY <2>4, <2>7, LeftAll, TwoMore DEF Before
<1>3. QED
  BY <1>1, <1>2

LEMMA RenewalCovers ==
  ASSUME Before, Steps, Turn, Renewal
  PROVE  Covered'
<1>1. /\ NextPeriod(Latest', Latest, clock) /\ Latest'.status \in {"active", "past_due"}
      /\ UNCHANGED <<clock, ws, blocked, owner>> /\ Newest' = Newest
  BY RenewalFields DEF Before, DatesInv, Renewal, StripeKeeps, Steps
<1>2. /\ Latest'.status = "active" => Brings({"paid", "subscription"})
      /\ Latest'.status = "past_due" => Brings({"failed", "subscription"})
      /\ Brings({"subscription"})
  BY TurnBrings DEF Before, DatesInv
<1>3. Left' # {}
  BY <1>2, LeftBrought
<1>4. Accord(ws, Latest', Left', clock)
  <2>1. Latest'.status = "active" => HasTwo(Left')
    BY <1>2, LeftTwo DEF HasTwo
  <2>2. Latest'.status = "past_due" => Has(Left', {"failed"}) /\ Has(Left', {"subscription"})
    BY <1>2, LeftHas
  <2>3. QED
    BY <1>1, <2>1, <2>2, AccordEnough
<1>5. ws.row.status \in Live => ws.row.pendingAt <= clock
  <2>1. Latest.end = clock /\ RowWaits(ws.row) /\ clock \in Nat
    BY <1>1, BeforeFacts DEF NextPeriod, Before, WaitFits, Steps
  <2>2. QED
    BY <2>1 DEF RowWaits
<1>6. QED
  BY <1>1, <1>3, <1>4, <1>5 DEF Covered, Stopped

LEMMA RecoveryCovers ==
  ASSUME GoesOn, Turn, Recovery
  PROVE  Covered'
<1>1. /\ Latest'.status = "active" /\ UNCHANGED <<clock, ws, blocked, owner>>
      /\ Brings({"paid", "subscription"})
  BY RecoveryFields, TurnBrings DEF GoesOn, Before, DatesInv, Recovery, StripeKeeps
<1>2. HasTwo(Left') /\ Left' # {}
  BY <1>1, LeftTwo, LeftBrought DEF HasTwo
<1>3. Accord(ws, Latest', Left', clock)
  BY <1>1, <1>2, AccordEnough
<1>4. QED
  BY <1>1, <1>2, <1>3 DEF Covered, Stopped

LEMMA CalledCovers ==
  ASSUME GoesOn, Turn, Called
  PROVE  Covered'
<1>1. /\ owner.pc = "read" /\ owner'.pc = "called" /\ owner'.op = owner.op
      /\ owner'.sub = Newest /\ owner'.snap = Snapshot(Newest)'
      /\ owner.op \in Ops \ {"confirm"} /\ UNCHANGED <<clock, ws, blocked>>
  BY CalledFields DEF GoesOn, Before
<1>2. /\ Newest' = Newest /\ Plain(ws, clock) /\ Accord(ws, Latest, Left, clock)
      /\ [Next]_vars /\ flaws' = {} /\ IInv /\ Latest.status \in Live /\ Latest'.status \in Live
  BY GoesOnFacts
<1>3. /\ Brings({"subscription"})
      /\ owner.op = "upgrade" => Brings({"paid", "subscription"})
  BY TurnBrings DEF GoesOn, Before, DatesInv
<1>4. Left \subseteq Left'
  <2>1. \A w \in Workers : ~Apply(w)
    <3>1. owner' # owner
      BY <1>1
    <3>2. QED
      BY <3>1 DEF Apply
  <2>2. QED
    BY <1>2, <2>1, LeftKeeps
<1>5. PICK j \in Left' : j \notin Left /\ j.kind = "subscription"
  BY <1>3, LeftBrought
<1>6. owner.op # "clear"
  <2>1. owner.op = "clear" => Latest'.status = "canceled"
    BY CalledFields DEF GoesOn, Before
  <2>2. QED
    BY <1>2, <2>1 DEF Live
<1>7. Latest'.status = Latest.status
  BY <1>6, CalledFields DEF GoesOn, Before
<1>8. Accord(ws, Latest', Left', clock)
  <2>1. CASE owner.op = "retarget"
    <3>1. Latest.status = "trialing"
      BY <2>1, CalledFields DEF GoesOn, Before
    <3>2. Has(Left', Reports)
      BY <1>3, LeftHas DEF Reports
    <3>3. QED
      BY <1>7, <3>1, <3>2, AccordEnough
  <2>2. CASE owner.op = "upgrade"
    <3>1. HasTwo(Left')
      BY <1>3, <2>2, LeftTwo DEF HasTwo
    <3>2. QED
      BY <1>2, <1>4, <1>7, <3>1, AccordPaid
  <2>3. CASE owner.op \in {"schedule", "cancel", "resume", "release"}
    <3>1. Pair(Latest') = Pair(Latest)
      BY <2>3, CalledFields DEF GoesOn, Before, SameTerms
    <3>2. QED
      BY <1>2, <1>4, <1>5, <1>7, <3>1, AccordTold DEF Alone
  <2>4. QED
    BY <1>1, <1>6, <2>1, <2>2, <2>3 DEF Ops, WithTarget
<1>9. Stopped(ws.row, Latest)'
  <2>1. SUFFICES ASSUME Latest'.status = "past_due", ws.row.status \in Live, ws.row.cancel,
                        ~(ws.row.pendingAt <= clock)
                 PROVE  \/ Latest'.cancel
                        \/ Calls("resume", Newest)' /\ owner'.snap.status = "past_due"
    BY <1>1 DEF Stopped
  <2>2. Latest.cancel /\ Latest.status = "past_due"
    BY <1>1, <1>7, <2>1 DEF GoesOn, Covered, Stopped, Calls
  <2>3. CASE owner.op = "resume"
    <3>1. Calls("resume", Newest)'
      BY <1>1, <1>2, <2>3 DEF Calls
    <3>2. owner'.snap.status = Latest'.status
      BY <1>1 DEF Snapshot, SnapshotOf, Latest
    <3>3. QED
      BY <2>1, <3>1, <3>2
  <2>4. CASE owner.op \in {"schedule", "cancel", "release", "upgrade"}
    BY <2>2, <2>4, CalledFields DEF GoesOn, Before
  <2>5. owner.op # "retarget"
    BY <2>2, CalledFields DEF GoesOn, Before
  <2>6. QED
    BY <1>1, <1>6, <2>3, <2>4, <2>5 DEF Ops, WithTarget
<1>10. QED
  BY <1>1, <1>5, <1>8, <1>9 DEF Covered
-----------------------------------------------------------------------------
(* The steps that apply no answer keep the accord.                         *)

LEMMA NobodyApplies ==
  ASSUME IInv, UNCHANGED worker
  PROVE  \A w \in Workers : ~Apply(w)
<1>1. SUFFICES ASSUME NEW w \in Workers, Apply(w) PROVE FALSE
  OBVIOUS
<1>2. worker \in [Workers -> WorkerRecords] /\ worker[w].pc = "ready"
  BY <1>1 DEF IInv, WorkerInv, Apply
<1>3. worker'[w].pc \in {"raised", "applied"}
  BY <1>1, <1>2 DEF Apply, WorkerRecords
<1>4. QED
  BY <1>2, <1>3

(* Stripe, the row and the block rest; time may pass.                      *)
LEMMA RestCovers ==
  ASSUME GoesOn, UNCHANGED <<ws, blocked, stripe, version>>, Left \subseteq Left',
         Calls("resume", Newest) => UNCHANGED owner
  PROVE  Covered'
<1>1. /\ Newest' = Newest /\ Accord(ws, Latest, Left, clock) /\ IInv /\ [Next]_vars
      /\ flaws' = {} /\ Sound(ws) /\ Tidy(ws) /\ Running
  BY GoesOnFacts
<1>2. Latest' = Latest
  BY <1>1 DEF Latest
<1>3. clock \in Nat /\ clock' \in Nat /\ clock <= clock' /\ ws.row.pendingAt \in Nat
  BY <1>1, ClockGrows, Known, Constants DEF Rows
<1>5. ws.row.status \in Live /\ ws.row.pendingAt <= clock' => ws.row.pendingAt <= clock
  <2>1. ws.row.status \in Live => ws.row.pendingAt = Latest.end \/ ws.row.pendingAt <= clock
    BY <1>1 DEF GoesOn, Before, WaitFits, RowWaits
  <2>2. Latest.end > clock' /\ Latest.end \in Nat
    BY <1>2, GoesOnFacts DEF GoesOn
  <2>3. QED
    BY <1>3, <2>1, <2>2
<1>6. Awaiting(ws.row) => ws.row.status \in Live
  BY <1>1, AwaitsLive DEF Tidy
<1>7. Accord(ws, Latest, Left, clock')
  BY <1>1, <1>5, <1>6, AccordLater
<1>8. Accord(ws, Latest, Left', clock')
  BY <1>7, AccordMore
<1>9. Stopped(ws.row, Latest)'
  <2>1. Calls("resume", Newest) => Calls("resume", Newest)'
    BY <1>1 DEF Calls
  <2>2. Stopped(ws.row, Latest)
    BY DEF GoesOn, Covered
  <2>3. QED
    BY <1>2, <1>3, <2>1, <2>2 DEF Stopped, Calls
<1>10. blocked' /\ RunsOn(ws)' => Left' # {}
  BY DEF GoesOn, Covered, RunsOn
<1>11. QED
  BY <1>2, <1>8, <1>9, <1>10 DEF Covered

(* The row has been told to end, and Stripe, too.                          *)
LEMMA EndCovers ==
  ASSUME GoesOn, NEW x, Kept(x, ws), Plain(x, clock), NEW s \in Subs \cup {NoSub},
         CancelAccepted(s), Change(s, CancelledAtStripe(s), {"subscription"}), HoldersStay,
         ws' \in CancelledLocally(x, s), UNCHANGED clock,
         NEW K, K \subseteq Left, K \subseteq Left', Accord(x, Latest, K, clock)
  PROVE  Covered'
<1>1. /\ Newest' = Newest /\ IInv /\ Running' /\ IsLive(Newest)' /\ Newest \in Subs
  BY GoesOnFacts DEF Running
<1>2. /\ s = Newest
      /\ Alone(ws', x) /\ ws'.row.status = x.row.status
      /\ ws'.row.cancel /\ ~Awaiting(ws'.row)
      /\ SameTerms(Latest', Latest) /\ Latest'.status = Latest.status /\ Latest'.cancel
  BY <1>1, LocalFields DEF GoesOn, Before
<1>3. Brings({"subscription"})
  BY <1>1, <1>2, ChangeBrings
<1>4. PICK j \in Left' : j \notin Left /\ j.kind = "subscription"
  BY <1>3, LeftBrought
<1>5. Accord(ws', Latest', Left', clock)
  BY <1>2, <1>4, AccordTold DEF SameTerms
<1>6. QED
  BY <1>2, <1>4, <1>5 DEF Covered, RunsOn, Stopped

LEMMA BlockCovers ==
  ASSUME GoesOn, Block
  PROVE  Covered'
<1>1. /\ Newest' = Newest /\ Accord(ws, Latest, Left, clock) /\ IInv /\ [Next]_vars /\ flaws' = {}
      /\ Plain(ws, clock)
  BY GoesOnFacts
<1>2. \A w \in Workers : ~Apply(w)
  BY DEF Block, Apply
<1>3. Left \subseteq Left'
  BY <1>1, <1>2, LeftKeeps
<1>4. CASE RunsOn(ws)
  <2>1. PICK s : s = ws.row.sub
    OBVIOUS
  <2>2. /\ CancelAccepted(s) /\ Change(s, CancelledAtStripe(s), {"subscription"})
        /\ ws' \in CancelledLocally(ws, s) /\ UNCHANGED <<clock, worker>>
    BY <1>4, <2>1 DEF Block, TellsToEnd
  <2>3. s \in Subs \cup {NoSub} /\ Kept(ws, ws)
    BY <2>1, BeforeFacts DEF GoesOn, Steps
  <2>4. QED
    BY <1>1, <1>3, <2>2, <2>3, EndCovers DEF HoldersStay
<1>5. CASE ~RunsOn(ws)
  <2>1. ws' = ws /\ UNCHANGED <<stripe, clock, owner>>
    BY <1>5 DEF Block, NoChange
  <2>2. Latest' = Latest
    BY <1>1, <2>1 DEF Latest
  <2>3. Accord(ws, Latest, Left', clock)
    BY <1>1, <1>3, AccordMore
  <2>4. Stopped(ws.row, Latest)
    BY DEF GoesOn, Covered
  <2>5. Stopped(ws.row, Latest)'
    BY <1>1, <2>1, <2>2, <2>4 DEF Stopped, Calls
  <2>6. QED
    BY <1>5, <2>1, <2>2, <2>3, <2>5 DEF Covered
<1>6. QED
  BY <1>4, <1>5

(* The dates that come leave the row in accord.                            *)
LEMMA DueAccords ==
  ASSUME GoesOn, NEW due, due = ApplyDueTransitions(ws, clock)
  PROVE  /\ Accord(due, Latest, Left, clock) /\ Plain(due, clock) /\ Kept(due, ws)
         /\ due.row.status \in Live /\ due.row.cancel => due = ws
<1>1. /\ Newest' = Newest /\ Accord(ws, Latest, Left, clock)
      /\ Sound(ws) /\ Tidy(ws) /\ Plain(ws, clock) /\ "none" \notin Intervals
      /\ clock \in Nat /\ Ends \in Nat /\ Ends = ws.trial.ends
      /\ Latest.end \in Nat /\ Latest.end > clock
      /\ Latest.status = "trialing" => clock < Ends
      /\ Latest.status \in Paying => clock >= Ends /\ Running
  BY GoesOnFacts DEF GoesOn
<1>2. Latest.status = "active" =>
        /\ clock >= Ends
        /\ Awaiting(ws.row) /\ ws.row.pendingAt <= clock =>
             Pair(Latest) = Target(ws.row) \/ HasTwo(Left)
  BY <1>1, DueReported DEF GoesOn, Paying
<1>3. Latest.status = "trialing" => clock < Ends /\ ws.row.pendingPlan \notin PaidPlans
  <2>1. ws.row.pendingPlan \in PaidPlans => clock >= Ends
    BY GoesOnFacts DEF GoesOn, Before, PeriodInv, RowPeriod, RowPlain, Running
  <2>2. QED
    BY <1>1, <2>1
<1>4. Accord(due, Latest, Left, clock)
  BY <1>1, <1>2, <1>3, AccordDue
<1>5. Plain(due, clock) /\ Kept(due, ws)
  BY <1>1, DueTaken, DueKept
<1>6. due.row.status \in Live /\ due.row.cancel => due = ws
  BY <1>1, DueFields DEF Tidy, EndsRow, StartsRow, Switches, NonePending
<1>7. QED
  BY <1>4, <1>5, <1>6

LEMMA UnblockCovers ==
  ASSUME GoesOn, Unblock
  PROVE  Covered'
<1>1. /\ Newest' = Newest /\ IInv /\ [Next]_vars /\ flaws' = {} /\ Newest \in Subs
      /\ Latest = stripe[Newest] /\ OneLive
  BY GoesOnFacts DEF GoesOn, Before, BasicInv
<1>2. PICK due : due = ApplyDueTransitions(ws, clock)
  OBVIOUS
<1>3. /\ Accord(due, Latest, Left, clock) /\ Plain(due, clock) /\ Kept(due, ws)
      /\ due.row.status \in Live /\ due.row.cancel => due = ws
  BY <1>2, DueAccords
<1>4. \A w \in Workers : ~Apply(w)
  BY DEF Unblock, Apply
<1>5. Left \subseteq Left'
  BY <1>1, <1>4, LeftKeeps
<1>6. Sound(due)
  BY <1>3 DEF Kept
<1>7. blocked' = FALSE /\ UNCHANGED <<clock, owner, worker>>
  BY DEF Unblock
<1>8. CASE ToResume(due)
  <2>1. PICK s : s = due.row.sub
    OBVIOUS
  <2>2. /\ s # NoSub /\ IsLive(s) /\ ws' \in ClearPendingCancellation(due)
        /\ Change(s, [stripe[s] EXCEPT !.cancel = FALSE], {"subscription"})
        /\ due.row.status \in Live /\ due.row.cancel
    BY <1>2, <1>8, <2>1 DEF Unblock, TellsToGoOn, ToResume
  <2>3. s \in Subs
    BY <1>6, <2>1, <2>2, Known DEF Rows
  <2>4. s = Newest /\ stripe[s] = Latest /\ stripe[s] \in SubscriptionRecords
    BY <1>1, <2>2, <2>3, LiveTurns, AtStripe
  <2>5. Latest' = [Latest EXCEPT !.cancel = FALSE]
    BY <1>1, <2>2, <2>3, <2>4, ShapeChange DEF Latest
  <2>6. Pair(Latest') = Pair(Latest) /\ Latest'.status = Latest.status
    BY <2>4, <2>5 DEF SubscriptionRecords, Pair
  <2>7. Brings({"subscription"})
    BY <1>1, <1>7, <2>2, <2>3, <2>4, ChangeBrings DEF HoldersStay
  <2>8. PICK j \in Left' : j \notin Left /\ j.kind = "subscription"
    BY <2>7, LeftBrought
  <2>9. /\ Alone(ws', due) /\ ws'.row.status = due.row.status
        /\ NonePending(ws'.row)
    BY <1>6, <2>2, ResumedFields
  <2>10. Accord(ws', Latest', Left', clock)
    BY <1>3, <1>5, <2>6, <2>8, <2>9, AccordTold DEF NonePending, Awaiting
  <2>11. QED
    BY <1>7, <2>9, <2>10 DEF Covered, Stopped, NonePending
<1>9. CASE ~ToResume(due)
  <2>1. /\ NoChange
        /\ ws' = IF due.row.status \in Live THEN due ELSE [due EXCEPT !.plan = "basic"]
    BY <1>2, <1>9 DEF Unblock
  <2>2. Latest' = Latest
    BY <1>1, <2>1 DEF Latest, NoChange
  <2>3. ws'.row = due.row /\ ws'.plan \in {due.plan, "basic"}
    BY <1>6, <2>1, Known DEF Workspaces
  <2>4. Accord(ws', Latest, Left, clock)
    BY <1>3, <2>3, AccordExpired
  <2>5. Accord(ws', Latest, Left', clock)
    BY <1>5, <2>4, AccordMore
  <2>6. QED
    BY <1>7, <1>9, <2>2, <2>3, <2>5 DEF Covered, Stopped, ToResume
<1>10. QED
  BY <1>8, <1>9

(* Stripe is told to end the subscription, or to go on with it, and the    *)
(* row is left as it was: the event that reports it is still to come.      *)
LEMMA ToldCovers ==
  ASSUME GoesOn, Turn, ToldToEnd \/ ToldToGoOn, UNCHANGED <<ws, blocked>>,
         \A w \in Workers : ~Apply(w), ToldToGoOn => Latest.status # "past_due"
  PROVE  Covered'
<1>1. /\ Newest' = Newest /\ Plain(ws, clock) /\ Accord(ws, Latest, Left, clock)
      /\ [Next]_vars /\ flaws' = {} /\ IInv
  BY GoesOnFacts
<1>2. UNCHANGED <<clock, owner>>
  BY DEF ToldToEnd, ToldToGoOn
<1>3. Brings({"subscription"})
  BY TurnBrings DEF GoesOn, Before, DatesInv
<1>4. PICK j \in Left' : j \notin Left /\ j.kind = "subscription"
  BY <1>3, LeftBrought
<1>5. Left \subseteq Left'
  BY <1>1, LeftKeeps
<1>6. /\ Pair(Latest') = Pair(Latest) /\ Latest'.status = Latest.status
      /\ ToldToEnd => Latest'.cancel
  BY <1>1, ToldFields DEF ToldToEnd, ToldToGoOn, SameTerms
<1>7. Accord(ws, Latest', Left', clock)
  BY <1>1, <1>4, <1>5, <1>6, AccordTold DEF Alone
<1>8. Latest'.status = "past_due" => Latest'.cancel
  BY <1>6
<1>9. QED
  BY <1>2, <1>4, <1>7, <1>8 DEF Covered, Stopped

(* A subscription that goes on has not been ended at once.                 *)
LEMMA StillToEnd ==
  ASSUME GoesOn, Turn, Closure \/ ToldToEnd
  PROVE  ToldToEnd
<1>1. Closure => Latest'.status = "canceled"
  BY ClosureFields DEF GoesOn, Before
<1>2. QED
  BY <1>1, GoesOnFacts DEF Live

(* A block, or the end of one, that fails behind its call.                 *)
LEMMA FailedCallCovers ==
  ASSUME GoesOn, BlockFails \/ UnblockFails
  PROVE  Covered'
<1>1. /\ IInv /\ OneLive /\ flaws' = {} /\ ws.row.sub \in Subs \cup {NoSub}
      /\ Latest = stripe[Newest]
  BY GoesOnFacts, BeforeFacts DEF GoesOn, Before, BasicInv, Steps
<1>2. UNCHANGED <<ws, blocked, clock, owner, worker, applied>> /\ HoldersStay
  BY DEF BlockFails, UnblockFails, HoldersStay
<1>3. \A w \in Workers : ~Apply(w)
  BY <1>1, <1>2, NobodyApplies
<1>4. CASE BlockFails
  <2>1. Turn /\ (Closure \/ ToldToEnd)
    BY <1>1, <1>2, <1>4, EndTurns DEF BlockFails
  <2>2. ToldToEnd
    BY <2>1, StillToEnd
  <2>3. Latest'.cancel
    BY <1>1, <2>1, <2>2, ToldFields DEF ToldToEnd
  <2>4. ASSUME ToldToGoOn PROVE FALSE
    BY <1>1, <2>1, <2>3, <2>4, ToldFields DEF ToldToGoOn
  <2>5. QED
    BY <1>2, <1>3, <2>1, <2>2, <2>4, ToldCovers
<1>5. CASE UnblockFails
  <2>1. PICK due : due = ApplyDueTransitions(ws, clock)
    OBVIOUS
  <2>2. /\ TellsToGoOn(due)
        /\ stripe[due.row.sub].status # "past_due"
    BY <1>1, <1>5, <2>1 DEF UnblockFails, Flawed
  <2>3. Turn /\ ToldToGoOn /\ due.row.sub = Newest
    BY <1>1, <1>2, <2>1, <2>2, GoOnTurns
  <2>4. QED
    BY <1>1, <1>2, <1>3, <2>2, <2>3, ToldCovers
<1>6. QED
  BY <1>4, <1>5

LEMMA DailyCovers ==
  ASSUME GoesOn, SendPaymentWarnings \/ ExpireTrial
  PROVE  Covered'
<1>1. /\ Newest' = Newest /\ IInv /\ [Next]_vars /\ flaws' = {} /\ Newest \in Subs
      /\ Sound(ws) /\ Plain(ws, clock) /\ Accord(ws, Latest, Left, clock)
  BY GoesOnFacts
<1>2. UNCHANGED <<clock, blocked, owner, stripe, worker>>
  BY DEF SendPaymentWarnings, ExpireTrial
<1>3. \A w \in Workers : ~Apply(w)
  BY <1>1, <1>2, NobodyApplies
<1>4. Left \subseteq Left' /\ Latest' = Latest
  BY <1>1, <1>2, <1>3, LeftKeeps DEF Latest
<1>5. Stopped(ws.row, Latest) /\ (blocked /\ RunsOn(ws) => Left # {})
  BY DEF GoesOn, Covered
<1>6. CASE SendPaymentWarnings
  <2>1. PICK due : due = ApplyDueTransitions(ws, clock)
    OBVIOUS
  <2>2. /\ Accord(due, Latest, Left, clock)
        /\ due.row.status \in Live /\ due.row.cancel => due = ws
    BY <2>1, DueAccords
  <2>3. ws' = due /\ ~blocked
    BY <1>6, <2>1 DEF SendPaymentWarnings
  <2>4. Accord(ws', Latest, Left', clock)
    BY <1>4, <2>2, <2>3, AccordMore
  <2>5. Stopped(ws.row, Latest)'
    BY <1>1, <1>2, <1>4, <1>5, <2>2, <2>3 DEF Stopped, Calls
  <2>6. QED
    BY <1>2, <1>4, <2>3, <2>4, <2>5 DEF Covered
<1>7. CASE ExpireTrial
  <2>1. ws'.row = ws.row /\ (ws'.plan = ws.plan \/ ws'.plan = "basic")
    BY <1>1, <1>7, ExpiryFields DEF ExpireTrial
  <2>2. Accord(ws', Latest, Left, clock)
    BY <1>1, <2>1, AccordExpired
  <2>3. Accord(ws', Latest, Left', clock)
    BY <1>4, <2>2, AccordMore
  <2>4. Stopped(ws.row, Latest)'
    BY <1>1, <1>2, <1>4, <1>5, <2>1 DEF Stopped, Calls
  <2>5. QED
    BY <1>2, <1>4, <1>5, <2>1, <2>3, <2>4 DEF Covered, RunsOn
<1>8. QED
  BY <1>6, <1>7
-----------------------------------------------------------------------------
(* An answer that is taken in.                                             *)

(* What an answer says of the subscription that runs: what Stripe says, or *)
(* enough is reported.                                                     *)
LEMMA AnswerAgrees ==
  ASSUME Before, Running, Latest.end > clock, NEW a \in Recent
  PROVE  /\ AnswerFits(a) /\ a.ver \in Nat /\ a.snap.status \in Live
         /\ a.snap \in Answers(ws.trial.ends) /\ Ends = ws.trial.ends
         /\ a.snap.status = "active" => clock >= Ends
         /\ ~Lags(a) => /\ a.snap.status = Latest.status /\ SameTerms(a.snap, Latest)
                        /\ a.snap.cancel = Latest.cancel
         /\ Latest.status = "trialing" =>
              /\ clock < Ends /\ a.snap.status = "trialing" /\ ~a.snap.cancel
              /\ a.snap.end = Latest.end
         /\ Latest.status = "past_due" /\ a.snap.status # "past_due" => Failing(Ahead(a.ver))
<1>1. AnswerFits(a) /\ Newest # NoSub /\ Ends = ws.trial.ends /\ Ends \in Nat /\ clock \in Nat
      /\ version \in Nat
  BY BeforeFacts DEF Before, AnswersFit
<1>2. /\ a.snap \in Answers(Ends) /\ a.ver \in Nat /\ a.ver <= version
      /\ a.ver = version => a.snap = Snapshot(Newest)
      /\ a.snap.status \in Paying => clock >= Ends
      /\ a.snap.status = "trialing" => a.snap.end = Ends
      /\ a.snap.status \in Live
  BY <1>1, RecentFacts, RecentLive DEF Before
<1>3. Latest.status = "trialing" => Latest.end = Ends
  BY <1>1, NewestLive DEF Before, Running
<1>4. ~Lags(a) => /\ a.snap.status = Latest.status /\ SameTerms(a.snap, Latest)
                  /\ a.snap.cancel = Latest.cancel
  <2>1. SUFFICES ASSUME ~Lags(a)
                 PROVE  /\ a.snap.status = Latest.status /\ SameTerms(a.snap, Latest)
                        /\ a.snap.cancel = Latest.cancel
    OBVIOUS
  <2>2. a.snap = Snapshot(Newest)
    BY <1>1, <1>2, <2>1 DEF Lags
  <2>3. QED
    BY <2>2 DEF Snapshot, SnapshotOf, Latest, SameTerms, Pair
<1>5. Latest.status = "trialing" =>
        /\ clock < Ends /\ a.snap.status = "trialing" /\ ~a.snap.cancel
        /\ a.snap.end = Latest.end
  BY <1>1, <1>2, <1>3 DEF AnswerFits
<1>6. Latest.status = "past_due" /\ a.snap.status # "past_due" => Failing(Ahead(a.ver))
  BY <1>1, <1>4 DEF AnswerFits
<1>7. QED
  BY <1>1, <1>2, <1>4, <1>5, <1>6 DEF Paying

LEMMA FailingMore ==
  ASSUME NEW K, NEW L, K \subseteq L, Failing(K)
  PROVE  Failing(L) /\ L # {}
BY DEF Failing, Has

(* An answer is taken in, and leaves at least what is newer.               *)
LEMMA AnswerAccord ==
  ASSUME Before, Running, Covered, Latest.end > clock, NEW a \in Recent, ~Excused(a),
         NEW y \in Reconcile(ws, a.snap, clock), NEW L, Ahead(a.ver) \subseteq L,
         HasTwo(Left) => Has(L, Reports), NEW x,
         \/ /\ x = y
            /\ Has(Left, {"failed"}) => Has(L, {"failed"})
            /\ Has(Left, {"subscription"}) => Has(L, {"subscription"})
         \/ /\ x = ApplyDueTransitions(y, clock)
            /\ Has(Left, {"failed"}) /\ Has(Left, {"subscription"}) => L # {}
  PROVE  Accord(x, Latest, L, clock)
<1>1. /\ Sound(ws) /\ Tidy(ws) /\ Plain(ws, clock) /\ "none" \notin Intervals /\ clock \in Nat
      /\ Newest # NoSub /\ Accord(ws, Latest, Left, clock) /\ Ends \in Nat
  BY BeforeFacts DEF Covered
<1>2. /\ AnswerFits(a) /\ a.snap \in Answers(ws.trial.ends) /\ Ends = ws.trial.ends
      /\ a.snap.status = "active" => clock >= Ends
      /\ ~Lags(a) => /\ a.snap.status = Latest.status /\ SameTerms(a.snap, Latest)
                     /\ a.snap.cancel = Latest.cancel
  BY AnswerAgrees
<1>3. Latest.status \in Live
  BY DEF Running, IsLive, Latest
<1>4. Lags(a) => Has(L, Reports)
  BY <1>2, HasMore DEF AnswerFits
<1>5. CASE Latest.status = "active"
  <2>1. CASE a.snap.status = "active" /\ SameTerms(a.snap, Latest)
    <3>1. FitsWait(ws, a.snap)
      BY <2>1, AnswerFitsWait DEF Before, SameTerms
    <3>2. a.snap.cancel = Latest.cancel \/ Has(L, Reports)
      BY <1>2, <1>4
    <3>3. a.snap.end > clock /\ a.snap.end = Latest.end /\ Pair(a.snap) = Pair(Latest)
      BY <2>1 DEF SameTerms
    <3>4. x = y \/ x = ApplyDueTransitions(y, clock)
      OBVIOUS
    <3>5. QED
      BY <1>1, <1>2, <1>5, <2>1, <3>1, <3>2, <3>3, <3>4, AccordActive
  <2>2. CASE ~(a.snap.status = "active" /\ SameTerms(a.snap, Latest))
    <3>1. HasTwo(Ahead(a.ver))
      BY <1>2, <1>5, <2>2 DEF AnswerFits
    <3>2. HasTwo(L)
      BY <3>1, TwoMore
    <3>3. QED
      BY <1>5, <3>2, AccordEnough
  <2>3. QED
    BY <2>1, <2>2
<1>6. CASE Latest.status = "trialing"
  <2>1. /\ clock < ws.trial.ends /\ a.snap.status = "trialing" /\ ~a.snap.cancel
        /\ a.snap.end = Latest.end
    BY <1>6, AnswerAgrees
  <2>2. ws.row.pendingPlan \notin PaidPlans
    <3>1. ws.row.pendingPlan \in PaidPlans => clock >= Ends
      BY DEF Before, PeriodInv, RowPeriod, RowPlain, Running
    <3>2. QED
      BY <1>1, <1>2, <2>1, <3>1
  <2>3. Has(L, Reports) \/ (Pair(a.snap) = Pair(Latest) /\ a.snap.cancel = Latest.cancel)
    BY <1>2, <1>4 DEF SameTerms
  <2>4. x = y \/ x = ApplyDueTransitions(y, clock)
    OBVIOUS
  <2>5. QED
    BY <1>1, <1>2, <1>6, <2>1, <2>2, <2>3, <2>4, AccordTrial DEF Tidy
<1>7. CASE Latest.status = "past_due"
  <2>1. CASE a.snap.status = "past_due"
    <3>1. /\ Alone(y, ws) /\ SamePending(y.row, ws.row)
          /\ ws.row.status \in Paying /\ y.row.status = "past_due"
      BY <1>1, <1>2, <2>1, FailedAnswer
    <3>2. Sound(y)
      BY <1>1, AnswerKeepsTidy DEF Before
    <3>3. QED
      BY <1>1, <1>7, <3>1, <3>2, AccordFailed DEF Tidy
  <2>2. CASE a.snap.status # "past_due"
    <3>1. Failing(Ahead(a.ver))
      BY <1>7, <2>2, AnswerAgrees
    <3>2. Failing(L)
      BY <3>1, FailingMore
    <3>3. QED
      BY <1>7, <3>2, AccordEnough DEF Failing
  <2>3. QED
    BY <2>1, <2>2
<1>8. QED
  BY <1>3, <1>5, <1>6, <1>7 DEF Live

(* A past due row that is to end because of an answer is due.              *)
LEMMA AnswerCancels ==
  ASSUME Before, Running, Latest.end > clock, Latest.status = "past_due",
         NEW a \in Recent, NEW y \in Reconcile(ws, a.snap, clock),
         NEW x, x = y \/ x = ApplyDueTransitions(y, clock),
         x.row.status \in Live, x.row.cancel
  PROVE  \/ x.row.pendingAt <= clock
         \/ /\ ws.row.status \in Live /\ ws.row.cancel /\ x.row.pendingAt = ws.row.pendingAt
<1>1. /\ Sound(ws) /\ Tidy(ws) /\ "none" \notin Intervals /\ clock \in Nat /\ Newest # NoSub
      /\ Ends \in Nat
  BY BeforeFacts
<1>2. /\ AnswerFits(a) /\ a.snap \in Answers(ws.trial.ends) /\ Ends = ws.trial.ends
      /\ a.snap.status \in Live
  BY AnswerAgrees
<1>3. x = y
  <2>1. Sound(y) /\ Tidy(y)
    BY <1>1, AnswerKeepsTidy, BeforeFacts DEF Before
  <2>2. QED
    BY <1>1, <2>1, DueFields DEF Tidy, EndsRow, StartsRow, Switches, NonePending
<1>4. CASE a.snap.status = "past_due"
  BY <1>1, <1>2, <1>3, <1>4, FailedAnswer DEF SamePending, Live, Paying
<1>5. CASE a.snap.status = "active"
  <2>1. a.snap.end # NoTime
    BY <1>1, <1>2, RecentFacts DEF Before
  <2>2. \/ Waited(y, ws, a.snap, clock) \/ Ignored(y, ws, a.snap, clock)
        \/ Shortened(y, ws, a.snap, clock) \/ Adopted(y, ws, a.snap, clock)
    BY <1>1, <1>2, <1>5, <2>1, ActiveAnswer DEF Tidy
  <2>3. y.row.pendingAt = a.snap.end
    BY <1>3, <2>2 DEF Waited, Ignored, Shortened, Adopted, Noted, Ending, SamePending,
                      NonePending, Awaiting
  <2>4. a.snap.end # Latest.end
    BY <1>2, <1>5 DEF AnswerFits
  <2>5. QED
    BY <1>2, <1>3, <2>3, <2>4 DEF AnswerFits
<1>6. CASE a.snap.status = "trialing"
  <2>1. y.row.pendingAt = Ends
    BY <1>1, <1>2, <1>3, <1>6, TrialingAnswer DEF Ending
  <2>2. clock >= Ends
    BY <1>1, NewestLive DEF Before, Running, Paying
  <2>3. QED
    BY <1>1, <1>3, <2>1, <2>2
<1>7. QED
  BY <1>2, <1>4, <1>5, <1>6 DEF Live
-----------------------------------------------------------------------------
(* The events that are applied keep the accord.                            *)

(* What is left when an event is applied: the reports of the others.       *)
Others(w) == {j \in Left : j.slot # worker[w].event}

LEMMA OthersAre ==
  ASSUME NEW w
  PROVE  /\ Others(w) \subseteq Left
         /\ \A j \in Left \ Others(w) :
              j = Report(worker[w].event) /\ j.kind = event[worker[w].event].kind
<1>1. ASSUME NEW j \in Left \ Others(w)
      PROVE  j = Report(worker[w].event) /\ j.kind = event[worker[w].event].kind
  <2>1. j.slot = worker[w].event
    BY <1>1 DEF Others
  <2>2. QED
    BY <1>1, <2>1, AheadIs DEF Left
<1>2. QED
  BY <1>1 DEF Others

LEMMA OthersStay ==
  ASSUME GoesOn, NEW w \in Workers, Apply(w)
  PROVE  Others(w) \subseteq Left'
<1>1. IInv /\ [Next]_vars /\ Newest' = Newest /\ flaws' = {} /\ version \in Nat
  BY GoesOnFacts
<1>2. -1 \in Int /\ -1 < version
  BY <1>1
<1>3. QED
  BY <1>1, <1>2, ApplyLeaves DEF Others, Left

LEMMA OthersKinds ==
  ASSUME NEW w
  PROVE  /\ HasTwo(Left) => Has(Others(w), Reports)
         /\ \A k : event[worker[w].event].kind # k /\ Has(Left, {k}) => Has(Others(w), {k})
<1>1. HasTwo(Left) => Has(Others(w), Reports)
  BY OthersAre DEF HasTwo, Has
<1>2. QED
  BY <1>1, OthersAre DEF Has

(* What a step that applies an event has of its answer.                    *)
LEMMA TookAnswer ==
  ASSUME Before, Steps, NEW w \in Workers, Apply(w), NEW x, Took(w, x),
         event[worker[w].event].kind # "failed"
  PROVE  \E a \in Recent :
           /\ a.snap = worker[w].snap /\ a.ver = worker[w].ver /\ ~Excused(a)
           /\ Ahead(a.ver) \subseteq Others(w) /\ a.ver \in Nat
<1>1. PICK a \in Recent \cap Flight : a.snap = worker[w].snap /\ a.ver = worker[w].ver
  BY DEF Took
<1>2. a.ver \in Nat /\ applied \in Nat /\ owner.ver \in Nat
  BY <1>1, BeforeFacts, RecentFacts DEF Before, Steps
<1>3. applied' \in Nat /\ a.ver <= applied'
  BY <1>1, <1>2 DEF Took, NewestOf
<1>4. UNCHANGED owner
  BY DEF Apply
<1>5. ~Excused(a)
  BY <1>1, <1>2, <1>3, <1>4, NotExcused DEF Steps
<1>6. ASSUME NEW j \in Ahead(a.ver) PROVE j \in Others(w)
  <2>1. PICK e \in Events : Coming(e, a.ver) /\ j = Report(e) /\ j.slot = e
    BY <1>6, AheadIs
  <2>2. worker[w].pc = "ready"
    BY DEF Apply
  <2>3. worker[w].event # e
    BY <1>1, <1>2, <2>1, <2>2 DEF Coming
  <2>4. j \in Left
    BY <1>2, <1>6, LeftAll DEF Before
  <2>5. QED
    BY <2>1, <2>3, <2>4 DEF Others
<1>7. QED
  BY <1>1, <1>2, <1>5, <1>6

(* A failure that is applied, and the dates with it.                       *)
LEMMA TookFailure ==
  ASSUME Before, Running, NEW w, NEW x, Took(w, x), event[worker[w].event].kind = "failed"
  PROVE  \E y :
           /\ Sound(y) /\ TidyRow(y.row) /\ Alone(y, ws) /\ SamePending(y.row, ws.row)
           /\ ws.row.status \in Paying /\ y.row.status = "past_due"
           /\ x = ApplyDueTransitions(y, clock)
<1>1. Sound(ws) /\ Tidy(ws) /\ clock \in Nat
  BY BeforeFacts
<1>2. PICK y \in MarkPaymentFailure(ws, clock) : x = ApplyDueTransitions(y, clock)
  BY DEF Dispatched, Took
<1>3. /\ Alone(y, ws) /\ SamePending(y.row, ws.row)
      /\ ws.row.status \in Paying /\ y.row.status = "past_due"
  BY <1>1, <1>2, FailureFields
<1>4. Sound(y) /\ TidyRow(y.row)
  BY <1>1, <1>2, <1>3, FailureKept, AloneLeaves DEF AllKept, Kept, Tidy, Paying
<1>5. QED
  BY <1>2, <1>3, <1>4

LEMMA TookAccord ==
  ASSUME GoesOn, NEW w \in Workers, Apply(w), NEW x, Took(w, x)
  PROVE  Accord(x, Latest, Others(w), clock)
<1>1. /\ Sound(ws) /\ Tidy(ws) /\ "none" \notin Intervals /\ clock \in Nat /\ Running
      /\ Accord(ws, Latest, Left, clock)
  BY GoesOnFacts
<1>2. PICK e, snap : e = worker[w].event /\ snap = worker[w].snap
  OBVIOUS
<1>3. CASE event[e].kind = "failed"
  <2>1. PICK y : /\ Sound(y) /\ Alone(y, ws) /\ SamePending(y.row, ws.row)
                 /\ ws.row.status \in Paying /\ y.row.status = "past_due"
                 /\ x = ApplyDueTransitions(y, clock)
    BY <1>1, <1>2, <1>3, TookFailure DEF GoesOn
  <2>2. Latest.status = "past_due"
    BY <1>2, <1>3 DEF Took
  <2>3. Has(Left, {"subscription"}) => Others(w) # {}
    BY <1>2, <1>3, OthersKinds DEF Has
  <2>4. QED
    BY <1>1, <2>1, <2>2, <2>3, AccordFailed DEF Tidy
<1>4. CASE event[e].kind # "failed"
  <2>1. PICK a \in Recent : /\ a.snap = snap /\ ~Excused(a) /\ Ahead(a.ver) \subseteq Others(w)
    BY <1>2, <1>4, TookAnswer DEF GoesOn
  <2>2. PICK y \in Reconcile(ws, a.snap, clock) :
          x = IF event[e].kind = "subscription" THEN ApplyDueTransitions(y, clock) ELSE y
    BY <1>2, <1>4, <2>1 DEF Dispatched, Took
  <2>3. HasTwo(Left) => Has(Others(w), Reports)
    BY OthersKinds
  <2>4. CASE event[e].kind = "subscription"
    <3>1. Has(Left, {"failed"}) => Others(w) # {}
      BY <1>2, <2>4, OthersKinds DEF Has
    <3>2. QED
      BY <1>1, <2>1, <2>2, <2>3, <2>4, <3>1, AnswerAccord DEF GoesOn
  <2>5. CASE event[e].kind # "subscription"
    <3>1. /\ Has(Left, {"failed"}) => Has(Others(w), {"failed"})
          /\ Has(Left, {"subscription"}) => Has(Others(w), {"subscription"})
      BY <1>2, <1>4, <2>5, OthersKinds
    <3>2. QED
      BY <1>1, <2>1, <2>2, <2>3, <2>5, <3>1, AnswerAccord DEF GoesOn
  <2>6. QED
    BY <2>4, <2>5
<1>5. QED
  BY <1>3, <1>4

(* A past due row that an event leaves to end is due, or was to end.       *)
LEMMA TookCancels ==
  ASSUME GoesOn, NEW w \in Workers, Apply(w), NEW x, Took(w, x), Latest.status = "past_due",
         x.row.status \in Live, x.row.cancel
  PROVE  \/ x.row.pendingAt <= clock
         \/ /\ ws.row.status \in Live /\ ws.row.cancel /\ x.row.pendingAt = ws.row.pendingAt
<1>1. "none" \notin Intervals /\ clock \in Nat /\ Running
  BY GoesOnFacts
<1>2. CASE event[worker[w].event].kind = "failed"
  <2>1. PICK y : /\ Sound(y) /\ TidyRow(y.row) /\ SamePending(y.row, ws.row)
                 /\ ws.row.status \in Paying /\ x = ApplyDueTransitions(y, clock)
    BY <1>1, <1>2, TookFailure DEF GoesOn
  <2>2. x = y
    BY <1>1, <2>1, DueFields DEF EndsRow, StartsRow, Switches, NonePending
  <2>3. QED
    BY <2>1, <2>2 DEF SamePending, Paying, Live
<1>3. CASE event[worker[w].event].kind # "failed"
  <2>1. PICK a \in Recent : a.snap = worker[w].snap
    BY <1>3, TookAnswer DEF GoesOn
  <2>2. PICK y \in Reconcile(ws, a.snap, clock) : x = y \/ x = ApplyDueTransitions(y, clock)
    BY <1>3, <2>1 DEF Dispatched, Took
  <2>3. QED
    BY <1>1, <2>1, <2>2, AnswerCancels DEF GoesOn
<1>4. QED
  BY <1>2, <1>3

LEMMA TookCovers ==
  ASSUME GoesOn, NEW w \in Workers, Apply(w), NEW x, Took(w, x)
  PROVE  Covered'
<1>1. /\ IInv /\ AnswerInv /\ Newest' = Newest /\ flaws' = {} /\ Tidy(ws) /\ Plain(ws, clock)
      /\ worker \in [Workers -> WorkerRecords]
  BY GoesOnFacts DEF GoesOn, Before, IInv, WorkerInv
<1>2. UNCHANGED <<clock, blocked, owner>>
  BY DEF Apply
<1>3. Accord(x, Latest, Others(w), clock) /\ Others(w) \subseteq Left /\ Others(w) \subseteq Left'
  BY TookAccord, OthersAre, OthersStay
<1>4. CASE ws' = x /\ NoChange /\ ~(blocked /\ RunsOn(x))
  <2>1. Latest' = Latest
    BY <1>1, <1>4 DEF NoChange, Latest
  <2>2. Accord(x, Latest, Left', clock)
    BY <1>3, AccordMore
  <2>3. Stopped(ws.row, Latest)
    BY DEF GoesOn, Covered
  <2>4. Stopped(x.row, Latest)
    BY <2>3, TookCancels DEF Stopped
  <2>5. Stopped(ws.row, Latest)'
    BY <1>1, <1>2, <1>4, <2>1, <2>4 DEF Stopped, Calls
  <2>6. QED
    BY <1>2, <1>4, <2>1, <2>2, <2>5 DEF Covered
<1>5. CASE TellsToEnd(x) /\ ws' \in CancelledLocally(x, x.row.sub)
  <2>1. Plain(x, clock) /\ Kept(x, ws)
    BY <1>1, TookTidies DEF Took, GoesOn, Before
  <2>2. x.row.sub \in Subs \cup {NoSub}
    BY <2>1, Known DEF Kept, Rows
  <2>3. HoldersStay
    BY <1>1 DEF Apply, HoldersStay, WorkerRecords
  <2>4. QED
    BY <1>2, <1>3, <1>5, <2>1, <2>2, <2>3, EndCovers DEF TellsToEnd
<1>6. QED
  BY <1>4, <1>5 DEF Took, Reasserted

(* An event that raises stays to be applied.                               *)
LEMMA RaisedCovers ==
  ASSUME GoesOn, NEW w \in Workers, Apply(w), Raised(w)
  PROVE  Covered'
<1>1. /\ IInv /\ Newest' = Newest /\ version \in Nat /\ worker \in [Workers -> WorkerRecords]
  BY GoesOnFacts DEF IInv, WorkerInv
<1>2. /\ UNCHANGED <<ws, clock, blocked, owner, stripe, version, event>>
      /\ worker' = [worker EXCEPT ![w].pc = "raised"]
  BY DEF Apply, Raised, NoChange
<1>3. \A v \in Workers :
        \/ worker'[v].pc = "raised"
        \/ worker'[v] = worker[v]
  BY <1>1, <1>2 DEF WorkerRecords
<1>4. -1 \in Int /\ -1 < version' /\ version' \in Int
  BY <1>1, <1>2
<1>5. ASSUME NEW j \in Left PROVE j \in Left'
  <2>1. PICK e \in Events : Coming(e, -1) /\ j = Report(e)
    BY <1>5, <1>4, AheadIs DEF Left
  <2>2. event'[e] = event[e] /\ event'[e].status # "free"
    BY <1>2, <2>1 DEF Coming
  <2>3. \A v \in Workers :
          \/ worker'[v].pc \notin {"ready", "applied"}
          \/ /\ worker'[v].event = worker[v].event /\ worker'[v].pc = worker[v].pc
             /\ worker'[v].ver = worker[v].ver
    BY <1>3
  <2>4. Report(e) \in Ahead(-1)'
    BY <1>1, <1>4, <2>1, <2>2, <2>3, ComingKept
  <2>5. QED
    BY <2>1, <2>4 DEF Left
<1>6. QED
  BY <1>2, <1>5, RestCovers

(* An event that is rolled back once Stripe was told stays to be applied.  *)
LEMMA RolledBackAlone ==
  ASSUME IInv, NEW w \in Workers, ApplyRolledBack(w)
  PROVE  \A u \in Workers : ~Apply(u)
<1>1. SUFFICES ASSUME NEW u \in Workers, Apply(u) PROVE FALSE
  OBVIOUS
<1>2. /\ worker[w].pc = "ready" /\ worker \in [Workers -> WorkerRecords]
      /\ worker' = [worker EXCEPT ![w].pc = "raised"]
  BY RolledBackTold
<1>3. version' = version + 1 /\ version \in Nat
  BY RolledBackTold, RowKnown DEF TellsToEnd, Change
<1>4. worker[u].pc = "ready"
  BY <1>1 DEF Apply
<1>5. CASE Raised(u)
  BY <1>3, <1>5 DEF Raised, NoChange
<1>6. CASE ~Raised(u)
  <2>1. worker' = [worker EXCEPT ![u].pc = "applied", ![u].snap = NoSnapshot, ![u].ver = 0]
    BY <1>1, <1>6 DEF Apply, Raised
  <2>2. worker'[u].pc = "applied"
    BY <1>2, <2>1 DEF WorkerRecords
  <2>3. worker'[u].pc \in {"raised", "ready"}
    BY <1>2, <1>4 DEF WorkerRecords
  <2>4. QED
    BY <2>2, <2>3
<1>7. QED
  BY <1>5, <1>6

LEMMA RolledBackCovers ==
  ASSUME GoesOn, NEW w \in Workers, ApplyRolledBack(w)
  PROVE  Covered'
<1>1. IInv /\ OneLive
  BY DEF GoesOn, Before, BasicInv
<1>2. Turn /\ (Closure \/ ToldToEnd) /\ UNCHANGED <<ws, blocked>>
  BY <1>1, RolledBackTurns
<1>3. ToldToEnd
  BY <1>2, StillToEnd
<1>4. Latest'.cancel
  BY <1>1, <1>2, <1>3, ToldFields DEF ToldToEnd
<1>5. ASSUME ToldToGoOn PROVE FALSE
  BY <1>1, <1>2, <1>4, <1>5, ToldFields DEF ToldToGoOn
<1>6. QED
  BY <1>1, <1>2, <1>3, <1>5, RolledBackAlone, ToldCovers
-----------------------------------------------------------------------------
(* The requests of the owner keep the accord.                              *)

(* What the owner has been answered when it writes, or is interrupted.     *)
LEMMA OwnerHas ==
  ASSUME GoesOn, OwnerWrites \/ OwnerInterrupted
  PROVE  /\ owner.pc = "called" /\ owner.sub = Newest /\ owner.op \in Ops \ {"clear"}
         /\ owner' = NoRequest /\ UNCHANGED <<clock, blocked, stripe, version, event, worker>>
         /\ OwnerWrites => Wrote
         /\ OwnerInterrupted => Broke
         /\ Latest' = Latest /\ Left \subseteq Left'
         /\ \E a \in Recent :
              /\ a.snap = owner.snap /\ a.ver = owner.ver /\ ~Excused(a)
              /\ Ahead(a.ver) \subseteq Left
              /\ Lags(a) => Left # {} /\ Has(Left, Reports)
<1>1. /\ IInv /\ [Next]_vars /\ Newest' = Newest /\ flaws' = {} /\ Running
  BY GoesOnFacts
<1>2. /\ owner.pc = "called" /\ owner.sub = Newest /\ owner.op \in Ops
      /\ owner' = NoRequest /\ UNCHANGED <<clock, blocked, stripe, version, event, worker>>
      /\ OwnerWrites => Wrote
      /\ OwnerInterrupted => Broke
      /\ \E a \in Recent \cap Flight : a.snap = owner.snap /\ a.ver = owner.ver
  BY <1>1, OwnerAnswer DEF GoesOn, Before
<1>3. Latest' = Latest
  BY <1>1, <1>2 DEF Latest
<1>4. Left \subseteq Left'
  BY <1>1, <1>2, NobodyApplies, LeftKeeps
<1>5. PICK a \in Recent : a.snap = owner.snap /\ a.ver = owner.ver
  BY <1>2
<1>6. AnswerFits(a) /\ a.ver \in Nat /\ a.snap.status \in Live
  BY <1>1, <1>5, AnswerAgrees DEF GoesOn
<1>7. ~Excused(a)
  BY <1>5, <1>6 DEF Excused
<1>8. owner.op # "clear"
  BY <1>2, <1>5, <1>6 DEF GoesOn, Before, GraceInv, FinalAnswers, Live
<1>9. Ahead(a.ver) \subseteq Left
  BY <1>1, <1>6, LeftAll
<1>10. Lags(a) => Left # {} /\ Has(Left, Reports)
  <2>1. Lags(a) => Has(Left, Reports)
    BY <1>6, <1>9, HasMore DEF AnswerFits
  <2>2. QED
    BY <2>1 DEF Has
<1>11. QED
  BY <1>2, <1>3, <1>4, <1>5, <1>7, <1>8, <1>9, <1>10

(* An answer taken in by the owner's request.                              *)
LEMMA ReconcileCovers ==
  ASSUME GoesOn, OwnerWrites, owner.op \in {"confirm", "retarget", "upgrade"}
  PROVE  Covered'
<1>1. /\ Sound(ws) /\ Tidy(ws) /\ Plain(ws, clock) /\ "none" \notin Intervals /\ clock \in Nat
      /\ Running /\ Latest.status \in Live /\ Accord(ws, Latest, Left, clock)
      /\ Latest.end > clock /\ Newest' = Newest
  BY GoesOnFacts DEF GoesOn
<1>2. /\ ws' \in Written /\ UNCHANGED <<clock, blocked>> /\ owner' = NoRequest
      /\ Latest' = Latest /\ Left \subseteq Left' /\ owner.op \in Ops \ {"clear"}
  BY OwnerHas DEF Wrote
<1>3. PICK a \in Recent :
        /\ a.snap = owner.snap /\ ~Excused(a) /\ Ahead(a.ver) \subseteq Left
        /\ Lags(a) => Left # {}
  BY OwnerHas
<1>4. ws' \in Reconcile(ws, a.snap, clock)
  BY <1>2, <1>3 DEF Written
<1>5. Accord(ws', Latest, Left, clock)
  BY <1>1, <1>3, <1>4, TwoAreOne, AnswerAccord DEF GoesOn
<1>6. Accord(ws', Latest, Left', clock)
  BY <1>2, <1>5, AccordMore
<1>7. Stopped(ws.row, Latest)'
  <2>1. SUFFICES ASSUME Latest.status = "past_due", ws'.row.status \in Live, ws'.row.cancel
                 PROVE  Latest.cancel \/ ws'.row.pendingAt <= clock
    BY <1>2 DEF Stopped
  <2>2. \/ ws'.row.pendingAt <= clock
        \/ ws.row.status \in Live /\ ws.row.cancel /\ ws'.row.pendingAt = ws.row.pendingAt
    BY <1>1, <1>3, <1>4, <2>1, AnswerCancels DEF GoesOn
  <2>3. Stopped(ws.row, Latest) /\ owner.op # "resume"
    BY DEF GoesOn, Covered
  <2>4. QED
    BY <2>1, <2>2, <2>3 DEF Stopped, Calls
<1>8. blocked /\ RunsOn(ws') => Left # {}
  <2>1. SUFFICES ASSUME blocked, Left = {} PROVE ~RunsOn(ws')
    OBVIOUS
  <2>2. ~RunsOn(ws) /\ ~Lags(a)
    BY <1>3, <2>1 DEF GoesOn, Covered
  <2>3. /\ a.snap \in Answers(ws.trial.ends) /\ Ends = ws.trial.ends
        /\ a.snap.status = "active" => clock >= Ends
        /\ a.snap.status = Latest.status /\ SameTerms(a.snap, Latest)
        /\ a.snap.cancel = Latest.cancel
        /\ Latest.status = "trialing" => ~a.snap.cancel
    BY <1>1, <2>2, AnswerAgrees DEF GoesOn
  <2>4. a.snap.status = "active" => FitsWait(ws, a.snap)
    BY <1>1, <1>3, <2>3, AnswerFitsWait DEF GoesOn, Before, SameTerms
  <2>5. ~Going(ws) /\ Accord(ws, Latest, {}, clock)
    BY <1>1, <2>1, <2>2 DEF Going, RunsOn
  <2>6. Pair(a.snap) = Pair(Latest) /\ a.snap.end = Latest.end
    BY <2>3 DEF SameTerms
  <2>7. ~Going(ws')
    BY <1>1, <1>4, <2>3, <2>4, <2>5, <2>6, AnswerStops
  <2>8. QED
    BY <2>7 DEF Going, RunsOn
<1>9. QED
  BY <1>2, <1>6, <1>7, <1>8 DEF Covered, RunsOn

(* A row that was written without being run on, or told to end.            *)
LEMMA WrittenCovers ==
  ASSUME GoesOn, OwnerWrites, Alone(ws', ws), ws'.row.status = ws.row.status,
         Matches(ws.row, Latest) => Matches(ws'.row, Latest) \/ Has(Left, Reports),
         Latest.status = "past_due" /\ Awaiting(ws'.row) /\ ws'.row.pendingAt <= clock =>
           \/ Awaiting(ws.row) /\ ws'.row.pendingAt = ws.row.pendingAt
           \/ Failing(Left),
         Latest.status = "past_due" /\ ws'.row.cancel /\ ws'.row.pendingAt <= clock =>
           Failing(Left),
         Latest.status = "past_due" /\ ws'.row.status \in Live /\ ws'.row.cancel =>
           Latest.cancel \/ ws'.row.pendingAt <= clock,
         blocked /\ RunsOn(ws') => RunsOn(ws) \/ Left # {}
  PROVE  Covered'
<1>1. /\ UNCHANGED <<clock, blocked>> /\ Latest' = Latest /\ Left \subseteq Left'
  BY OwnerHas
<1>2. Accord(ws, Latest, Left, clock)
  BY GoesOnFacts
<1>3. Failing(Left) =>
        /\ Has(Left, {"failed"}) /\ Has(Left, {"subscription"})
        /\ Has(Left, {"failed", "subscription"})
  BY DEF Failing, Has
<1>4. Accord(ws', Latest, Left, clock)
  BY <1>2, <1>3, AccordWritten
<1>5. Accord(ws', Latest, Left', clock)
  BY <1>1, <1>4, AccordMore
<1>6. blocked /\ RunsOn(ws') => Left # {}
  BY DEF GoesOn, Covered
<1>7. QED
  BY <1>1, <1>5, <1>6 DEF Covered, Stopped, RunsOn

LEMMA CancelKnown ==
  ASSUME GoesOn
  PROVE  ws.row.cancel \in BOOLEAN /\ ws'.row.cancel \in BOOLEAN
<1>1. Sound(ws) /\ Sound(ws')
  BY DEF GoesOn, Before, IInv, RowInv
<1>2. QED
  BY <1>1, Known DEF Rows

LEMMA ScheduleCovers ==
  ASSUME GoesOn, OwnerWrites, owner.op = "schedule"
  PROVE  Covered'
<1>1. Sound(ws) /\ clock \in Nat /\ Running /\ Latest.end > clock /\ Latest.end \in Nat
  BY GoesOnFacts DEF GoesOn
<1>2. ws' \in Written /\ Behind = {}
  BY OwnerHas DEF Wrote
<1>3. PICK a \in Recent : a.snap = owner.snap /\ Ahead(a.ver) \subseteq Left
  BY OwnerHas
<1>4. owner.plan \in PaidPlans /\ owner.interval \in Intervals
  BY GoesOnFacts DEF IInv, OwnerInv, WithTarget
<1>5. ws' \in ScheduleBillingChange(ws, owner.plan, owner.interval)
  BY <1>2 DEF Written
<1>6. /\ Alone(ws', ws) /\ ws'.row.status = ws.row.status
      /\ ~ws.row.cancel /\ ~ws'.row.cancel /\ ws'.row.pendingAt = ws.row.end
  BY <1>1, <1>4, <1>5, ScheduledFields
<1>7. ws.row.end = owner.snap.end
  BY <1>2 DEF Behind
<1>8. ASSUME Latest.status = "past_due", ws'.row.pendingAt <= clock PROVE Failing(Left)
  <2>1. a.snap.end # Latest.end
    BY <1>1, <1>3, <1>6, <1>7, <1>8
  <2>2. Failing(Ahead(a.ver))
    BY <1>1, <1>8, <2>1, AnswerAgrees DEF GoesOn, AnswerFits, SameTerms
  <2>3. QED
    BY <1>3, <2>2, FailingMore
<1>9. Matches(ws.row, Latest) => Matches(ws'.row, Latest)
  BY <1>1, <1>6, CancelKnown DEF GoesOn, Matches, Alone, Pair
<1>10. QED
  BY <1>6, <1>8, <1>9, WrittenCovers DEF RunsOn

LEMMA CancelCovers ==
  ASSUME GoesOn, OwnerWrites, owner.op = "cancel"
  PROVE  Covered'
<1>1. /\ Sound(ws) /\ clock \in Nat /\ Running /\ Latest.end > clock /\ Latest.end \in Nat
      /\ Ends \in Nat /\ Ends = ws.trial.ends /\ Latest.status \in Live
      /\ Latest.status = "trialing" => clock < Ends
  BY GoesOnFacts DEF GoesOn
<1>2. ws' \in Written /\ Behind = {} /\ owner.pc = "called" /\ owner.sub = Newest
  BY OwnerHas DEF Wrote
<1>3. PICK a \in Recent :
        /\ a.snap = owner.snap /\ Ahead(a.ver) \subseteq Left
        /\ Lags(a) => Has(Left, Reports)
  BY OwnerHas
<1>4. /\ AnswerFits(a) /\ a.snap \in Answers(ws.trial.ends) /\ a.snap.status \in Live
      /\ ~Lags(a) => /\ a.snap.status = Latest.status /\ SameTerms(a.snap, Latest)
                     /\ a.snap.cancel = Latest.cancel
  BY <1>1, AnswerAgrees DEF GoesOn
<1>5. PICK when : /\ ws' \in ScheduleCancellation(ws, when)
                  /\ when = IF owner.deferred THEN a.snap.trialEnd ELSE a.snap.end
  BY <1>2, <1>3 DEF Written
<1>6. owner.deferred => a.snap.status = "trialing" /\ Lags(a)
  <2>1. SUFFICES ASSUME owner.deferred PROVE a.snap.status = "trialing" /\ Lags(a)
    OBVIOUS
  <2>2. a.snap.status = "trialing"
    BY <1>2, <1>3, <2>1 DEF Behind
  <2>3. clock >= Ends
    BY <1>2 DEF GoesOn, Before, BasicInv, OwnerLate
  <2>4. Latest.status # "trialing"
    BY <1>1, <2>3
  <2>5. QED
    BY <1>4, <2>2, <2>4
<1>7. when # NoTime
  <2>1. a.snap.status = "trialing" => a.snap.trialEnd = Ends /\ Ends # NoTime
    BY <1>1, <1>4, Answered
  <2>2. a.snap.end # NoTime
    BY <1>1, <1>4, RecentFacts DEF GoesOn, Before, Running
  <2>3. QED
    BY <1>5, <1>6, <2>1, <2>2
<1>8. when = Latest.end \/ (Lags(a) /\ Has(Left, Reports))
  BY <1>3, <1>4, <1>5, <1>6 DEF SameTerms
<1>9. Latest.status = "past_due" /\ when <= clock => Failing(Left)
  <2>1. SUFFICES ASSUME Latest.status = "past_due", when <= clock PROVE Failing(Left)
    OBVIOUS
  <2>2. when # Latest.end
    BY <1>1, <2>1
  <2>3. Lags(a) /\ ~(a.snap.status = "past_due" /\ a.snap.end = Latest.end)
    BY <1>5, <1>6, <1>8, <2>2
  <2>4. Failing(Ahead(a.ver))
    BY <1>4, <2>1, <2>3 DEF AnswerFits
  <2>5. QED
    BY <1>3, <2>4, FailingMore
<1>10. /\ Alone(ws', ws) /\ ws'.row.status = ws.row.status
       /\ ws'.row.cancel /\ ws'.row.pendingAt = when
  BY <1>1, <1>5, <1>7, CancellationFields DEF Ending
<1>11. owner.snap.cancel /\ EndStays
  BY <1>1, <1>2 DEF GoesOn, Before, OwnerFits, OwnerKept, Calls
<1>12. Matches(ws.row, Latest) => Matches(ws'.row, Latest) \/ Has(Left, Reports)
  <2>1. Lags(a) => Has(Left, Reports)
    BY <1>3
  <2>2. CASE ~Lags(a)
    <3>1. Latest.cancel = a.snap.cancel /\ a.snap.cancel /\ when = Latest.end
      BY <1>3, <1>4, <1>8, <1>11, <2>2
    <3>2. QED
      BY <1>10, <3>1 DEF Matches, Alone, Pair
  <2>3. QED
    BY <2>1, <2>2
<1>13. ~Awaiting(ws'.row) /\ ~RunsOn(ws')
  BY <1>10 DEF Awaiting, RunsOn
<1>14. Latest.status = "past_due" => Latest.cancel \/ when <= clock
  <2>1. CASE owner.deferred
    <3>1. a.snap.trialEnd = Ends /\ clock >= Ends
      BY <1>1, <1>2, <1>4, <1>6, <2>1, Answered DEF GoesOn, Before, BasicInv, OwnerLate
    <3>2. QED
      BY <1>1, <1>5, <2>1, <3>1
  <2>2. CASE ~owner.deferred
    BY <1>3, <1>5, <1>11, <2>2 DEF EndStays
  <2>3. QED
    BY <2>1, <2>2
<1>15. QED
  BY <1>9, <1>10, <1>12, <1>13, <1>14, WrittenCovers

LEMMA ResumeCovers ==
  ASSUME GoesOn, OwnerWrites, owner.op = "resume"
  PROVE  Covered'
<1>1. Sound(ws) /\ Running /\ Latest.status \in Live /\ Accord(ws, Latest, Left, clock)
  BY GoesOnFacts
<1>2. ws' \in Written /\ Behind = {} /\ owner.pc = "called" /\ owner.sub = Newest
  BY OwnerHas DEF Wrote
<1>3. PICK a \in Recent :
        a.snap = owner.snap /\ (Lags(a) => Left # {} /\ Has(Left, Reports))
  BY OwnerHas
<1>4. ~Lags(a) => a.snap.status = Latest.status /\ a.snap.cancel = Latest.cancel
  BY <1>1, AnswerAgrees DEF GoesOn
<1>5. ws' \in ClearPendingCancellation(ws)
  BY <1>2 DEF Written
<1>6. /\ Alone(ws', ws) /\ ws'.row.status = ws.row.status /\ ~ws'.row.cancel
      /\ (ws' = ws /\ ~ws.row.cancel) \/ (NonePending(ws'.row) /\ ws.row.cancel)
  BY <1>1, <1>5, ResumedFields
<1>7. ~a.snap.cancel
  BY <1>1, <1>2, <1>3 DEF GoesOn, Before, OwnerFits, OwnerKept, Calls
<1>8. Matches(ws.row, Latest) => Matches(ws'.row, Latest) \/ Has(Left, Reports)
  <2>1. CASE ws' = ws
    BY <2>1
  <2>2. CASE ws.row.cancel
    BY <1>3, <1>4, <1>7, <2>2 DEF Matches
  <2>3. QED
    BY <1>6, <2>1, <2>2
<1>9. Awaiting(ws'.row) => Awaiting(ws.row) /\ ws'.row.pendingAt = ws.row.pendingAt
  BY <1>6 DEF NonePending, Awaiting
<1>10. blocked /\ RunsOn(ws') => RunsOn(ws) \/ Left # {}
  <2>1. SUFFICES ASSUME blocked, RunsOn(ws'), Left = {} PROVE RunsOn(ws)
    OBVIOUS
  <2>2. a.snap.status = Latest.status /\ ~Latest.cancel
    BY <1>3, <1>4, <1>7, <2>1
  <2>3. Latest.status # "past_due"
    BY <1>2, <1>3, <2>1, <2>2 DEF Behind
  <2>4. ~Has(Left, Reports)
    BY <2>1 DEF Has
  <2>5. Matches(ws.row, Latest)
    BY <1>1, <2>3, <2>4 DEF Accord, ActiveAccord, Live
  <2>6. QED
    BY <1>1, <2>2, <2>5 DEF Matches, RunsOn
<1>11. QED
  BY <1>6, <1>8, <1>9, <1>10, WrittenCovers

LEMMA ReleaseCovers ==
  ASSUME GoesOn, OwnerWrites, owner.op = "release"
  PROVE  Covered'
<1>1. Sound(ws) /\ Tidy(ws) /\ "none" \notin Intervals
  BY GoesOnFacts
<1>2. ws' \in ClearPendingScheduledChange(ws)
  BY OwnerHas DEF Wrote, Written
<1>3. /\ Alone(ws', ws) /\ ws'.row.status = ws.row.status
      /\ ~ws'.row.cancel /\ ~ws.row.cancel /\ ws'.row.pendingAt = NoTime
  BY <1>1, <1>2, ReleasedFields DEF Tidy
<1>4. Matches(ws.row, Latest) => Matches(ws'.row, Latest)
  BY <1>3, CancelKnown DEF GoesOn, Matches, Alone, Pair
<1>5. QED
  BY <1>3, <1>4, WrittenCovers DEF RunsOn, Awaiting

LEMMA WriteCovers ==
  ASSUME GoesOn, OwnerWrites
  PROVE  Covered'
<1>1. owner.op \in Ops \ {"clear"}
  BY OwnerHas
<1>2. QED
  BY <1>1, ReconcileCovers, ScheduleCovers, CancelCovers, ResumeCovers, ReleaseCovers
     DEF Ops, WithTarget

(* What a request that dies leaves behind.                                 *)
LEMMA BrokeCovers ==
  ASSUME GoesOn, OwnerInterrupted
  PROVE  Covered'
<1>1. Running /\ flaws' = {} /\ Accord(ws, Latest, Left, clock) /\ IInv
  BY GoesOnFacts
<1>2. /\ UNCHANGED <<clock, blocked>> /\ owner' = NoRequest /\ Broke
      /\ Latest' = Latest /\ Left \subseteq Left'
  BY OwnerHas
<1>3. PICK a \in Recent : a.snap = owner.snap /\ Ahead(a.ver) \subseteq Left
  BY OwnerHas
<1>4. /\ Alone(ws', ws) /\ SamePending(ws'.row, ws.row)
      /\ \/ ws'.row.status = ws.row.status
         \/ /\ ws.row.status = "past_due" /\ ws'.row.status = "active"
            /\ owner.snap.status \in {"trialing", "active"}
  BY <1>1, BrokeFields DEF GoesOn, Before
<1>5. Accord(ws', Latest, Left, clock)
  <2>1. CASE ws'.row.status = ws.row.status
    BY <1>1, <1>4, <2>1, AccordAlone
  <2>2. CASE ws'.row.status # ws.row.status
    <3>1. Latest.status = "past_due" => Failing(Ahead(a.ver))
      BY <1>1, <1>3, <1>4, <2>2, AnswerAgrees DEF GoesOn
    <3>2. Latest.status = "past_due" => Left # {}
      BY <1>3, <3>1, FailingMore
    <3>3. QED
      BY <1>1, <1>4, <2>2, <3>2, AccordRecovered
  <2>3. QED
    BY <2>1, <2>2
<1>6. Accord(ws', Latest, Left', clock)
  BY <1>2, <1>5, AccordMore
<1>7. Stopped(ws.row, Latest)'
  <2>1. Stopped(ws.row, Latest)
    BY DEF GoesOn, Covered
  <2>2. ~(Calls("resume", Newest) /\ owner.snap.status = "past_due")
    BY <1>2 DEF Broke, Torn, Calls
  <2>3. ws'.row.status \in Live => ws.row.status \in Live
    BY <1>4 DEF Live
  <2>4. QED
    BY <1>2, <1>4, <2>1, <2>2, <2>3 DEF Stopped, SamePending
<1>8. RunsOn(ws') => RunsOn(ws)
  BY <1>4 DEF RunsOn, SamePending, Live
<1>9. QED
  BY <1>2, <1>6, <1>7, <1>8 DEF GoesOn, Covered, RunsOn
-----------------------------------------------------------------------------
(* Every step keeps the accord; and what it is for.                        *)

LEMMA ApplyCovers ==
  ASSUME GoesOn, NEW w \in Workers, Apply(w)
  PROVE  Covered'
<1>1. IInv /\ AnswerInv /\ flaws' = {}
  BY GoesOnFacts DEF GoesOn, Before
<1>2. QED
  BY <1>1, EventApplied, RaisedCovers, TookCovers

LEMMA StripeCovers ==
  ASSUME GoesOn, Stripe, ~Subscribe
  PROVE  Covered'
<1>1. Newest \in Subs /\ Running /\ Running' /\ Newest' = Newest
  BY GoesOnFacts
<1>2. StripeKeeps /\ (Renewal \/ Recovery \/ Closure)
  BY StripeTurns DEF GoesOn, Before, BasicInv
<1>3. Turn
  BY <1>1, <1>2 DEF Turn, HoldersStay, StripeKeeps, Running
<1>4. ~Closure
  <2>1. Closure => Latest'.status = "canceled"
    BY <1>3, ClosureFields DEF GoesOn, Before
  <2>2. QED
    BY <2>1, GoesOnFacts DEF Live
<1>5. QED
  BY <1>2, <1>3, <1>4, RenewalCovers, RecoveryCovers DEF GoesOn

LEMMA CallCovers ==
  ASSUME GoesOn, OwnerCalls, ~Subscribe
  PROVE  Covered'
<1>1. /\ IInv /\ [Next]_vars /\ Newest' = Newest /\ Running /\ Running' /\ flaws' = {}
      /\ IsLive(Newest)'
  BY GoesOnFacts DEF Running
<1>2. /\ owner.pc = "read" /\ UNCHANGED <<clock, ws, blocked, worker>>
  BY DEF OwnerCalls
<1>3. CASE owner.op = "confirm"
  <2>1. UNCHANGED <<stripe, version>>
    BY <1>3 DEF OwnerCalls, NoChange
  <2>2. Left \subseteq Left'
    BY <1>1, <1>2, NobodyApplies, LeftKeeps
  <2>3. QED
    BY <1>2, <2>1, <2>2, RestCovers DEF Calls
<1>4. CASE owner.op # "confirm"
  <2>1. UNCHANGED <<stripe, version>> \/ Turn
    BY <1>1, StepTurns DEF GoesOn, Before, BasicInv
  <2>2. Called
    BY <1>1, <1>4, <2>1, CallTurns
  <2>3. Turn
    <3>1. Newest \in Subs /\ IsLive(Newest)
      BY GoesOnFacts DEF Running
    <3>2. QED
      BY <1>2, <2>2, <3>1 DEF Turn, HoldersStay
  <2>4. QED
    BY <2>2, <2>3, CalledCovers
<1>5. QED
  BY <1>3, <1>4

(* No step of a period that goes on leaves the row behind for good.        *)
LEMMA GoesOnCovers ==
  ASSUME GoesOn, ~Subscribe
  PROVE  Covered'
<1>1. IInv /\ [Next]_vars /\ Newest' = Newest /\ flaws' = {}
  BY GoesOnFacts
<1>2. CASE \E w \in Workers : Apply(w)
  BY <1>2, ApplyCovers
<1>3. CASE Stripe
  BY <1>3, StripeCovers
<1>4. CASE OwnerCalls \/ OwnerWrites \/ OwnerInterrupted
  BY <1>4, CallCovers, WriteCovers, BrokeCovers
<1>5. CASE Platform
  BY <1>5, DailyCovers, BlockCovers, UnblockCovers, FailedCallCovers DEF Platform
<1>6. CASE /\ \A w \in Workers : ~Apply(w)
           /\ UNCHANGED <<ws, blocked, stripe, version>>
           /\ Calls("resume", Newest) => UNCHANGED owner
  <2>1. Left \subseteq Left'
    BY <1>1, <1>6, LeftKeeps
  <2>2. QED
    BY <1>6, <2>1, RestCovers
<1>7. CASE OwnerReads \/ OwnerRefused
  <2>1. UNCHANGED <<ws, blocked, stripe, version, worker>> /\ owner.pc # "called"
    BY <1>7 DEF OwnerReads, OwnerRefused
  <2>2. \A w \in Workers : ~Apply(w)
    BY <1>1, <2>1, NobodyApplies
  <2>3. QED
    BY <1>6, <2>1, <2>2 DEF Calls
<1>8. CASE Tick \/ UNCHANGED vars
  <2>1. UNCHANGED <<ws, blocked, stripe, version, worker, owner>>
    BY <1>8 DEF Tick, vars
  <2>2. QED
    BY <1>1, <1>6, <2>1, NobodyApplies
<1>9. ASSUME NEW w \in Workers, Webhook(w), ~Apply(w), ~ApplyRolledBack(w)
      PROVE  UNCHANGED <<ws, blocked, stripe, version, owner>>
  BY <1>9 DEF Webhook, Claim, Take, Retrieve, RetrieveFails, MarkProcessed, MarkFailed, Crash, Release
<1>10. CASE \E w \in Workers : Webhook(w)
  BY <1>2, <1>6, <1>9, <1>10, RolledBackCovers
<1>11. ASSUME NEW e \in Events, AnswerInProgress(e)
       PROVE  UNCHANGED <<ws, blocked, stripe, version, worker, owner>>
  BY <1>11 DEF AnswerInProgress
<1>12. CASE \E e \in Events : AnswerInProgress(e)
  BY <1>1, <1>6, <1>11, <1>12, NobodyApplies
<1>13. QED
  BY <1>1, <1>3, <1>4, <1>5, <1>7, <1>8, <1>10, <1>12 DEF Next, Owner

(* A subscription that has been bought is reported.                        *)
LEMMA BoughtCovers ==
  ASSUME Before, Running', Subscribe
  PROVE  Covered'
<1>1. PICK s \in Subs :
        /\ Newest' = s /\ ws.row.status \notin Live
        /\ stripe'[s].status \in {"trialing", "active"} /\ ~stripe'[s].cancel
        /\ Change(s, stripe'[s], {"checkout"})
  BY Bought DEF Before, BasicInv
<1>2. IInv /\ UNCHANGED <<ws, blocked, worker, flaws>>
  BY DEF Subscribe, StripeKeeps, Before
<1>3. PlusIsPaid(ws)
  BY <1>2 DEF Before, TidyInv, TidyNow, Tidy, Running
<1>4. Brings({"checkout"})
  BY <1>1, <1>2, ChangeBrings DEF HoldersStay
<1>5. Has(Left', Reports)
  BY <1>4, LeftHas DEF Reports
<1>6. Latest' = stripe'[Newest']
  BY DEF Latest
<1>7. Accord(ws, Latest', Left', clock')
  BY <1>1, <1>3, <1>5, <1>6, AccordSubscribed
<1>8. QED
  BY <1>1, <1>2, <1>6, <1>7 DEF Covered, RunsOn, Stopped

(* Only the end of a period moves the end of the newest subscription.      *)
LEMMA TurnEnd ==
  ASSUME Before, Turn, ~Renewal, IsLive(Newest)', Newest' = Newest
  PROVE  Latest'.end = Latest.end
<1>1. \/ UNCHANGED owner /\ (Renewal \/ Recovery \/ ToldToEnd \/ ToldToGoOn)
      \/ Called
  BY TurnOwner DEF Before
<1>2. CASE Recovery
  BY <1>2, RecoveryFields DEF Before, SameTerms
<1>3. CASE ToldToEnd
  <2>1. Change(Newest, [Latest EXCEPT !.cancel = TRUE], {"subscription"}) /\ TRUE \in BOOLEAN
    BY <1>3 DEF ToldToEnd
  <2>2. QED
    BY <2>1, ToldFields DEF Before, SameTerms
<1>4. CASE ToldToGoOn
  <2>1. Change(Newest, [Latest EXCEPT !.cancel = FALSE], {"subscription"}) /\ FALSE \in BOOLEAN
    BY <1>4 DEF ToldToGoOn
  <2>2. QED
    BY <2>1, ToldFields DEF Before, SameTerms
<1>5. CASE Called
  <2>1. owner.op = "clear" => Latest'.status = "canceled"
    BY <1>5, CalledFields DEF Before
  <2>2. owner.op # "clear"
    BY <2>1 DEF IsLive, Latest, Live
  <2>3. QED
    BY <1>5, <2>2, CalledFields DEF Before
<1>6. QED
  BY <1>1, <1>2, <1>3, <1>4, <1>5

LEMMA StepAccord ==
  ASSUME Before, AccordInv, IInv', DatesInv', [Next]_vars
  PROVE  AccordInv'
<1>1. SUFFICES ASSUME Running', Latest'.end > clock' PROVE Covered'
  BY DEF AccordInv
<1>2. \/ Subscribe
      \/ /\ ~Subscribe /\ Running /\ Newest' = Newest /\ IsLive(Newest)'
         /\ UNCHANGED <<stripe, version>> \/ (Turn /\ clock' = clock)
  BY <1>1, RunningOn DEF Before
<1>3. CASE Subscribe
  BY <1>1, <1>3, BoughtCovers
<1>4. CASE /\ ~Subscribe /\ Running /\ Newest' = Newest /\ IsLive(Newest)'
           /\ UNCHANGED <<stripe, version>> \/ (Turn /\ clock' = clock)
  <2>1. Steps
    BY <1>1, <1>4 DEF Steps
  <2>2. CASE Turn /\ Renewal
    BY <2>1, <2>2, RenewalCovers
  <2>3. CASE ~(Turn /\ Renewal)
    <3>1. Latest'.end = Latest.end
      BY <1>4, <2>3, TurnEnd DEF Latest
    <3>2. clock \in Nat /\ clock' \in Nat /\ clock <= clock' /\ Latest.end \in Nat
      BY <1>4, ClockGrows, NewestLive DEF Before, Running
    <3>3. Latest.end > clock
      BY <1>1, <3>1, <3>2
    <3>4. GoesOn
      BY <1>1, <1>4, <2>1, <3>3 DEF GoesOn, AccordInv
    <3>5. QED
      BY <1>4, <3>4, GoesOnCovers
  <2>4. QED
    BY <2>2, <2>3
<1>5. QED
  BY <1>2, <1>3, <1>4

(* All of it together.                                                     *)
AgreeInv == FlowInv /\ Before /\ AccordInv

LEMMA InitAgree ==
  ASSUME Init
  PROVE  AgreeInv
<1>1. ~Running
  BY DEF Init, Running, Newest, Used, NoSubscription
<1>2. AnswersFit /\ OwnerFits /\ WaitFits /\ AccordInv
  BY <1>1 DEF AnswersFit, OwnerFits, WaitFits, AccordInv
<1>3. FlowInv /\ AnswerInv
  BY InitFlow DEF FlowInv
<1>4. QED
  BY <1>2, <1>3, InitInv, InitDates, InitBasic, InitGrace, InitPeriod, InitTidy
     DEF AgreeInv, Before

LEMMA StepAgree ==
  ASSUME AgreeInv, [Next]_vars
  PROVE  AgreeInv'
<1>1. FlowInv /\ Before /\ AccordInv /\ IInv
  BY DEF AgreeInv, Before
<1>2. IInv' /\ FlowInv'
  BY <1>1, StepInv, StepFlow
<1>3. AnswerInv'
  BY <1>2 DEF FlowInv
<1>4. DatesInv' /\ GraceInv'
  BY <1>1, <1>2, StepDates, StepGrace DEF Before
<1>5. BasicInv' /\ PeriodInv' /\ TidyInv'
  BY <1>1, <1>2, <1>3, <1>4, StepBasic, StepPeriod, StepTidyInv DEF Before
<1>6. AnswersFit' /\ OwnerFits'
  BY <1>1, <1>2, <1>4, StepAnswers, StepOwnerKept DEF Before
<1>7. WaitFits' /\ AccordInv'
  BY <1>1, <1>2, <1>4, StepWaits, StepAccord
<1>8. QED
  BY <1>2, <1>3, <1>4, <1>5, <1>6, <1>7 DEF AgreeInv, Before

(* As long as no flaw has occurred, the row agrees with a running subscription at Stripe, or the      *)
(* reports of _on_subscription_upsert that are still to be applied, and the write of a request that   *)
(* has been answered, bring it there.                                                                 *)
THEOREM RowInAccord == Spec => []AgreeInv
<1>1. AgreeInv /\ UNCHANGED vars => AgreeInv'
  BY StepAgree
<1>2. QED
  BY InitAgree, StepAgree, PTL DEF Spec

(* When everything is quiet nothing is left that could bring the row there: it is there.              *)
LEMMA QuietCovers ==
  ASSUME AgreeInv, Quiet, flaws = {}, Newest # NoSub, IsLive(Newest)
  PROVE  /\ Accord(ws, Latest, {}, clock) /\ (blocked => ~RunsOn(ws))
         /\ Latest.status = "past_due" /\ ws.row.status \in Live /\ ws.row.cancel =>
              Latest.cancel \/ ws.row.pendingAt <= clock
<1>1. Running /\ owner.pc # "called"
  BY DEF Running, Doomed, Quiet, NoRequests
<1>2. Newest \in Subs
  BY NewestExists DEF AgreeInv, Before
<1>3. Covered
  BY <1>1, <1>2 DEF AgreeInv, AccordInv, Quiet, Settled, Running, Latest
<1>4. Left = {}
  BY DEF Left, Ahead, Coming, Quiet
<1>5. QED
  BY <1>1, <1>3, <1>4 DEF Covered, Stopped, Calls

(* When every event has been applied, no request is under way and no flaw has occurred, the row says  *)
(* of the newest subscription what Stripe says, as long as it runs: status, plan, interval and        *)
(* cancellation; a past due one is past due in the row, or already ended there by the grace.          *)
THEOREM QuietlyAgrees == Spec => []QuietAgrees
<1>1. ASSUME AgreeInv, Quiet, flaws = {}, Newest # NoSub, Latest.status \in Live
      PROVE  /\ Latest.status \in {"trialing", "active"} => Matches(ws.row, Latest)
             /\ Latest.status = "past_due" => ws.row.status \in {"past_due", "canceled"}
  <2>1. Accord(ws, Latest, {}, clock)
    BY <1>1, QuietCovers DEF IsLive, Latest
  <2>2. QED
    BY <2>1 DEF Accord, ActiveAccord, PastDueAccord, Has
<1>2. AgreeInv => QuietAgrees
  BY <1>1 DEF QuietAgrees, Latest, Matches, Pair, Live
<1>3. QED
  BY <1>2, RowInAccord, PTL

(* ... and in a workspace that is blocked a live row is cancelled, and so is the subscription at      *)
(* Stripe: what block_workspace tells Stripe is not undone by requests or events still under way.     *)
THEOREM BlockedWillEnd == Spec => []BlockedEnds
<1>1. ASSUME AgreeInv, Quiet, flaws = {}, blocked, ws.row.status \in Live
      PROVE  ws.row.cancel /\ (IsLive(Newest) => Latest.cancel)
  <2>1. Newest # NoSub /\ FlowInv /\ IInv
    BY <1>1 DEF AgreeInv, Before, TidyInv, TidyNow
  <2>2. Newest \in Subs /\ Latest.status # "none" /\ Latest \in SubscriptionRecords
    BY <2>1, NewestExists, AtStripe DEF Exists, Latest
  <2>3. CASE IsLive(Newest)
    <3>1. /\ Accord(ws, Latest, {}, clock) /\ ws.row.cancel
          /\ Latest.status = "past_due" => Latest.cancel \/ ws.row.pendingAt <= clock
      BY <1>1, <2>1, <2>3, QuietCovers DEF RunsOn
    <3>2. CASE Latest.status \in {"trialing", "active"}
      BY <3>1, <3>2 DEF Accord, ActiveAccord, Matches, Has
    <3>3. CASE Latest.status = "past_due"
      BY <1>1, <3>1, <3>3 DEF Accord, PastDueAccord, Has
    <3>4. QED
      BY <2>3, <3>1, <3>2, <3>3 DEF IsLive, Latest, Live
  <2>4. CASE ~IsLive(Newest)
    <3>1. Latest.status = "canceled"
      BY <2>2, <2>4 DEF SubscriptionRecords, IsLive, Latest
    <3>2. EndedRow(ws.row, Latest.end)
      BY <1>1, <2>1, <3>1 DEF FlowInv, Waiting, Fresh, Quiet, Delivered, Latest
    <3>3. QED
      BY <1>1, <2>4, <3>2 DEF EndedRow
  <2>5. QED
    BY <2>3, <2>4
<1>2. AgreeInv => BlockedEnds
  BY <1>1 DEF BlockedEnds, Latest
<1>3. QED
  BY <1>2, RowInAccord, PTL
=============================================================================
