------------------------- MODULE StripePeriodProofs --------------------------
(***************************************************************************)
(* No step of StripeBilling lowers a Business plan in the middle of a paid *)
(* period before Stripe has, for every number of subscriptions, events and *)
(* workers, as long as no flaw occurs.                                     *)
(*                                                                         *)
(* The property is not inductive: what lowers the plan later, a date that  *)
(* comes or an answer that is applied, has been set up by requests and     *)
(* answers before it.  Shapes says what one step makes of a subscription   *)
(* at Stripe, DatesInv what that leaves of the dates of subscriptions and  *)
(* of answers in flight, PeriodInv that the change of plan a row waits for *)
(* is Stripe's own and that nothing in flight is a plan of an earlier      *)
(* period.                                                                 *)
(***************************************************************************)
EXTENDS StripeBillingProofs

(* A live subscription ends no sooner than now, with the free week while   *)
(* it is deferred, and is paid when the free week is over.                 *)
StripeDates ==
  \A s \in Subs :
    /\ IsLive(s) => stripe[s].end >= clock
    /\ stripe[s].status = "trialing" => stripe[s].end = Ends
    /\ stripe[s].status \in Paying => clock >= Ends

(* In the middle of a period the answers in flight are of this tick, and a *)
(* plan has only been raised since.                                        *)
FlightInv ==
  \A a \in Flight :
    /\ a.snap.status = "trialing" => clock < Ends \/ ~MidPeriod(a.snap.sub)
    /\ a.snap.status \in Paying => clock >= Ends
    /\ a.snap.status \in Paying /\ a.snap.plan = "business" /\ MidPeriod(a.snap.sub) =>
         stripe[a.snap.sub].plan = "business"

FlightOrder ==
  \A a, b \in Flight :
    /\ a.snap.sub = b.snap.sub /\ MidPeriod(a.snap.sub)
    /\ a.snap.status \in Paying /\ a.snap.plan = "plus"
    /\ b.snap.status \in Paying /\ b.snap.plan = "business"
    => a.ver < b.ver

OwnerDates ==
  owner.pc # "idle" =>
    /\ owner.op \in {"upgrade", "schedule"} => clock >= Ends
    /\ owner.op \in {"retarget", "clear"} => clock < Ends

DatesInv == StripeDates /\ FlightInv /\ FlightOrder /\ OwnerDates
-----------------------------------------------------------------------------
(* What a step makes of a subscription r.                                  *)
Unmoved(r, q) ==
  /\ q.plan = r.plan /\ q.end = r.end /\ q.nextPlan = r.nextPlan
  /\ q.status \in Live => r.status \in Live
  /\ q.status = "trialing" => r.status = "trialing"
  /\ q.status \in Paying => r.status \in Paying
  /\ r.status # "none" => q.status # "none"

Renews(r, q) ==
  /\ r.status \in {"trialing", "active"} /\ r.end = clock
  /\ clock >= Ends /\ q.status \in Paying /\ q.end = clock + Period
  /\ q.plan = IF r.nextPlan = "none" THEN r.plan ELSE r.nextPlan
  /\ q.nextPlan = "none"

Starts(r, q) ==
  /\ r.status = "none" /\ ws.row.status \notin Live /\ q.nextPlan = "none"
  /\ \/ q.status = "trialing" /\ q.end = Ends /\ clock < Ends
     \/ q.status = "active" /\ q.end = clock + Period /\ clock >= Ends

Granted(r, q) ==
  /\ r.status \in Live /\ q.status = r.status /\ q.end = r.end
  /\ \/ /\ owner.op = "upgrade" /\ clock >= Ends
        /\ q.plan = "business" /\ q.nextPlan = "none" /\ r.nextPlan = "none"
     \/ owner.op = "retarget" /\ clock < Ends
     \/ /\ owner.op = "schedule" /\ r.nextPlan = "none"
        /\ q.plan = r.plan /\ q.nextPlan = owner.plan
        /\ owner'.snap.plan = r.plan /\ owner'.snap.end = r.end
     \/ owner.op = "release" /\ q.plan = r.plan /\ q.nextPlan = "none"

Shape(s) ==
  \/ Unmoved(stripe[s], stripe'[s])
  \/ UNCHANGED owner /\ Renews(stripe[s], stripe'[s])
  \/ UNCHANGED owner /\ Starts(stripe[s], stripe'[s])
  \/ OwnerCalls /\ s = owner.sub /\ Granted(stripe[s], stripe'[s])

Shapes == \A s \in Subs : Shape(s)
Stays  == \A s \in Subs : Unmoved(stripe[s], stripe'[s])

LEMMA Rests ==
  ASSUME NEW r
  PROVE  Unmoved(r, r)
BY DEF Unmoved

LEMMA ShapeChange ==
  ASSUME IInv, NEW s \in Subs, NEW sub, NEW kinds, Change(s, sub, kinds)
  PROVE  stripe'[s] = sub /\ \A u \in Subs \ {s} : stripe'[u] = stripe[u]
<1>1. stripe' = [stripe EXCEPT ![s] = sub] /\ stripe \in [Subs -> Subscriptions(Ends)]
  BY DEF Change, IInv, StripeInv
<1>2. QED
  BY <1>1

LEMMA UnmovedShapes ==
  ASSUME IInv, NEW s \in Subs, NEW sub, NEW kinds, Change(s, sub, kinds), Unmoved(stripe[s], sub)
  PROVE  Shapes /\ Stays
BY ShapeChange, Rests DEF Shapes, Shape, Stays

LEMMA NoChangeShapes ==
  ASSUME UNCHANGED stripe
  PROVE  Shapes /\ Stays
BY Rests DEF Shapes, Shape, Stays

(* A status that is none of the live ones moves nothing.                   *)
LEMMA StatusUnmoved ==
  ASSUME IInv, NEW s \in Subs, NEW status \in Live \cup {"canceled"},
         status \in Live => stripe[s].status \in Live,
         status = "trialing" => stripe[s].status = "trialing",
         status \in Paying => stripe[s].status \in Paying
  PROVE  Unmoved(stripe[s], [stripe[s] EXCEPT !.status = status])
BY AtStripe DEF Unmoved, SubscriptionRecords, Live

LEMMA CancelUnmoved ==
  ASSUME IInv, NEW s \in Subs, NEW cancel
  PROVE  Unmoved(stripe[s], [stripe[s] EXCEPT !.cancel = cancel])
BY AtStripe DEF Unmoved, SubscriptionRecords

LEMMA ToldShapes ==
  ASSUME IInv, NEW x, Sound(x), TellsToEnd(x) \/ TellsToGoOn(x)
  PROVE  Shapes /\ Stays
<1>1. x.row.sub \in Subs \cup {NoSub}
  BY Known DEF Rows
<1>2. CASE TellsToEnd(x)
  <2> DEFINE s == x.row.sub
  <2>1. s \in Subs /\ stripe[s].status \in Live
    BY <1>1, <1>2, CancelledFits DEF TellsToEnd, CancelAccepted, IsLive
  <2>2. Unmoved(stripe[s], [stripe[s] EXCEPT !.status = "canceled"])
    BY <2>1, StatusUnmoved DEF Live, Paying
  <2>3. Unmoved(stripe[s], CancelledAtStripe(s))
    BY <2>1, <2>2, CancelUnmoved DEF CancelledAtStripe
  <2>4. QED
    BY <1>2, <2>1, <2>3, UnmovedShapes DEF TellsToEnd
<1>3. CASE TellsToGoOn(x)
  BY <1>1, <1>3, CancelUnmoved, UnmovedShapes DEF TellsToGoOn
<1>4. QED
  BY <1>2, <1>3

LEMMA StripeShapes ==
  ASSUME IInv, StripeDates, Stripe
  PROVE  Shapes
<1>0. UNCHANGED owner
  BY DEF Stripe, Subscribe, PeriodEnds, RetrySucceeds, GivesUp, StripeKeeps
<1>1. CASE Subscribe
  <2>1. PICK s \in Subs, p \in PaidPlans, i \in Intervals :
          /\ stripe[s].status = "none" /\ ws.row.status \notin Live
          /\ LET waits == TrialActive(ws, clock)
                 end == IF waits THEN Ends ELSE clock + Period IN
             Change(s, [NoSubscription EXCEPT
                          !.status = IF waits THEN "trialing" ELSE "active",
                          !.plan = p, !.interval = i, !.end = end,
                          !.trialEnd = IF waits THEN end ELSE NoTime],
                    {"checkout"})
    BY <1>1 DEF Subscribe, Ends
  <2> DEFINE waits == TrialActive(ws, clock)
             end == IF waits THEN Ends ELSE clock + Period
             sub == [NoSubscription EXCEPT
                       !.status = IF waits THEN "trialing" ELSE "active",
                       !.plan = p, !.interval = i, !.end = end,
                       !.trialEnd = IF waits THEN end ELSE NoTime]
  <2>2. sub.status = (IF waits THEN "trialing" ELSE "active") /\ sub.end = end
        /\ sub.nextPlan = "none"
    BY DEF NoSubscription
  <2>3. IF waits THEN clock < Ends ELSE clock >= Ends
    BY RowKnown DEF TrialActive, Ends, IInv, RowInv, NoTime
  <2>4. Change(s, sub, {"checkout"})
    BY <2>1
  <2>5. Starts(stripe[s], sub)
    BY <2>1, <2>2, <2>3 DEF Starts
  <2> HIDE DEF sub
  <2>6. QED
    BY <1>0, <2>4, <2>5, ShapeChange, Rests DEF Shapes, Shape
<1>2. CASE PeriodEnds
  <2>1. PICK s \in Subs :
          /\ PeriodOver(s)
          /\ \/ Change(s, [stripe[s] EXCEPT !.status = "canceled"], {"subscription"})
             \/ Change(s, Renewed(stripe[s], "active"), {"paid", "subscription"})
             \/ Change(s, Renewed(stripe[s], "past_due"), {"failed", "subscription"})
    BY <1>2 DEF PeriodEnds
  <2>2. /\ stripe[s].status \in {"trialing", "active"} /\ stripe[s].end = clock /\ clock >= Ends
    BY <2>1, AtStripe, RowKnown DEF PeriodOver, StripeDates, IsLive, Live, Paying
  <2>3. CASE Change(s, [stripe[s] EXCEPT !.status = "canceled"], {"subscription"})
    BY <2>2, <2>3, StatusUnmoved, UnmovedShapes DEF Live, Paying
  <2>4. ASSUME NEW status \in Paying, NEW kinds, Change(s, Renewed(stripe[s], status), kinds)
        PROVE  Shapes
    <3>1. Renews(stripe[s], Renewed(stripe[s], status))
      BY <2>2, AtStripe DEF Renews, Renewed, SubscriptionRecords
    <3>2. QED
      BY <1>0, <2>4, <3>1, ShapeChange, Rests DEF Shapes, Shape
  <2>5. QED
    BY <2>1, <2>3, <2>4 DEF Paying
<1>3. CASE RetrySucceeds \/ GivesUp
  <2>1. PICK s \in Subs, status \in {"active", "canceled"} :
          /\ stripe[s].status = "past_due"
          /\ \E kinds : Change(s, [stripe[s] EXCEPT !.status = status], kinds)
    BY <1>3 DEF RetrySucceeds, GivesUp
  <2>2. Unmoved(stripe[s], [stripe[s] EXCEPT !.status = status])
    BY <2>1, StatusUnmoved DEF Live, Paying
  <2>3. QED
    BY <2>1, <2>2, UnmovedShapes
<1>4. QED
  BY <1>1, <1>2, <1>3 DEF Stripe

LEMMA CallShapes ==
  ASSUME IInv, OwnerDates, OwnerCalls
  PROVE  Shapes
<1>0. PICK s : s = owner.sub
  OBVIOUS
<1>1. /\ owner \in OwnerRecords /\ owner.op \in Ops /\ s \in Subs /\ owner.pc = "read"
  BY <1>0 DEF OwnerCalls, IInv, OwnerInv, OwnerRecords
<1>2. CASE NoChange
  BY <1>2, NoChangeShapes DEF NoChange
<1>3. CASE /\ owner.op # "confirm" /\ Accepted(s)
           /\ \E kinds : Change(s, Asked(s), kinds)
           /\ owner' = [owner EXCEPT !.pc = "called", !.ver = version + 1,
                                     !.snap = SnapshotOf(s, Asked(s))]
  <2>1. PICK kinds : Change(s, Asked(s), kinds)
    BY <1>3
  <2>2. stripe[s] \in SubscriptionRecords /\ stripe[s].status \in Live
    BY <1>1, <1>3, AtStripe DEF Accepted, IsLive
  <2>3. CASE owner.op \in {"clear", "cancel", "resume"}
    <3>1. Unmoved(stripe[s], Asked(s))
      BY <1>1, <2>2, <2>3, StatusUnmoved, CancelUnmoved DEF Asked, Live, Paying
    <3>2. QED
      BY <1>1, <2>1, <3>1, UnmovedShapes
  <2>4. CASE owner.op \in {"upgrade", "retarget", "schedule", "release"}
    <3>1. owner'.snap = SnapshotOf(s, Asked(s))
      BY <1>1, <1>3 DEF OwnerRecords
    <3>2. Asked(s).status = stripe[s].status /\ Asked(s).end = stripe[s].end
      BY <2>2, <2>4 DEF Asked, SubscriptionRecords
    <3>3. /\ owner.op = "upgrade" => /\ Asked(s).plan = "business"
                                     /\ Asked(s).nextPlan = stripe[s].nextPlan
          /\ owner.op = "schedule" => /\ Asked(s).plan = stripe[s].plan
                                      /\ Asked(s).nextPlan = owner.plan
          /\ owner.op = "release" => /\ Asked(s).plan = stripe[s].plan
                                     /\ Asked(s).nextPlan = "none"
      BY <2>2 DEF Asked, SubscriptionRecords
    <3>4. owner.op \in {"upgrade", "schedule"} => stripe[s].nextPlan = "none"
      BY <1>3 DEF Accepted, Scheduled
    <3>5. Granted(stripe[s], Asked(s))
      BY <1>1, <2>2, <2>4, <3>1, <3>2, <3>3, <3>4 DEF Granted, OwnerDates, SnapshotOf
    <3>6. QED
      BY <1>0, <1>1, <2>1, <3>5, ShapeChange, Rests DEF Shapes, Shape
  <2>5. QED
    BY <1>1, <1>3, <2>3, <2>4 DEF Ops, WithTarget
<1>4. QED
  BY <1>0, <1>2, <1>3 DEF OwnerCalls

LEMMA SettleShapes ==
  ASSUME IInv, NEW x, Sound(x), NEW f, Settle(x, f)
  PROVE  Shapes /\ Stays
BY ToldShapes, NoChangeShapes DEF Settle, NoChange

LEMMA ApplyOutcome ==
  ASSUME IInv, NEW w \in Workers, Apply(w)
  PROVE  \/ UNCHANGED <<ws, flaws, applied>> /\ NoChange
         \/ \E x \in Dispatched(event[worker[w].event].kind, worker[w].snap) :
              /\ Settle(x, FlawsOf(worker[w].event, worker[w].ver)) /\ Kept(x, ws)
              /\ applied' = NewestOf(applied, worker[w].ver)
<1> DEFINE e == worker[w].event
<1>1. event[e].kind # "failed" => worker[w].snap \in Answers(Ends)
  BY DEF Apply, IInv, WorkerInv
<1>2. AllKept(Dispatched(event[e].kind, worker[w].snap), ws)
  BY <1>1, DispatchedKept
<1>3. QED
  BY <1>2 DEF Apply, AllKept

LEMMA ApplyShapes ==
  ASSUME IInv, NEW w \in Workers, Apply(w)
  PROVE  Shapes /\ Stays /\ Ends' = Ends
<1>1. clock' = clock
  BY DEF Apply
<1>2. QED
  BY <1>1, ApplyOutcome, SettleShapes, SettleKept, NoChangeShapes DEF Kept, NoChange, Ends

LEMMA RolledBackShapes ==
  ASSUME IInv, NEW w \in Workers, ApplyRolledBack(w)
  PROVE  Shapes /\ Stays /\ Ends' = Ends /\ UNCHANGED <<ws, owner, applied, clock, flaws>>
<1>1. PICK x \in Dispatched(event[worker[w].event].kind, worker[w].snap) : TellsToEnd(x)
  BY DEF ApplyRolledBack
<1>2. event[worker[w].event].kind # "failed" => worker[w].snap \in Answers(Ends)
  BY DEF ApplyRolledBack, IInv, WorkerInv
<1>3. Sound(x)
  BY <1>2, DispatchedKept DEF AllKept, Kept
<1>4. QED
  BY <1>1, <1>3, ToldShapes DEF ApplyRolledBack, Ends

LEMMA PlatformShapes ==
  ASSUME IInv, Platform
  PROVE  Shapes /\ Stays /\ Ends' = Ends
<1>0. Sound(ws) /\ clock \in Nat /\ ws.row.sub \in Subs \cup {NoSub} /\ Kept(ws, ws)
  BY RowKnown, Known, KeptSame DEF Rows
<1>1. CASE SendPaymentWarnings
  <2>1. UNCHANGED stripe /\ ws'.trial = ws.trial
    BY <1>0, <1>1, DueKept DEF SendPaymentWarnings, Kept
  <2>2. QED
    BY <2>1, NoChangeShapes DEF Ends
<1>2. CASE ExpireTrial
  <2>1. UNCHANGED stripe /\ ws'.trial.ends = ws.trial.ends
    BY <1>0, <1>2, ExpiryKept DEF ExpireTrial
  <2>2. QED
    BY <2>1, NoChangeShapes DEF Ends
<1>3. CASE Block
  <2>1. CASE NoChange /\ UNCHANGED ws
    BY <2>1, NoChangeShapes DEF NoChange, Ends
  <2>2. CASE TellsToEnd(ws) /\ ws' \in CancelledLocally(ws, ws.row.sub)
    <3>1. Exists(ws.row.sub)
      BY <1>0, <2>2, EndIsSteady
    <3>2. ws'.trial = ws.trial
      BY <1>0, <2>2, <3>1, CancelledKept DEF AllKept, Kept
    <3>3. QED
      BY <1>0, <2>2, <3>2, ToldShapes DEF Ends
  <2>3. QED
    BY <1>3, <2>1, <2>2 DEF Block
<1>4. CASE Unblock
  <2> DEFINE due == ApplyDueTransitions(ws, clock)
  <2>1. Sound(due) /\ due.trial = ws.trial
    BY <1>0, DueKept DEF Kept
  <2>2. \/ TellsToGoOn(due) /\ ws' \in ClearPendingCancellation(due)
        \/ NoChange /\ ws' = IF due.row.status \in Live THEN due ELSE [due EXCEPT !.plan = "basic"]
    BY <1>4 DEF Unblock
  <2> HIDE DEF due
  <2>3. Shapes /\ Stays
    BY <2>1, <2>2, ToldShapes, NoChangeShapes DEF NoChange
  <2>4. ws'.trial = ws.trial
    BY <2>1, <2>2, ResumedKept, Known DEF AllKept, Kept, Workspaces
  <2>5. QED
    BY <2>3, <2>4 DEF Ends
<1>5. CASE BlockFails \/ UnblockFails
  <2>1. PICK x : Sound(x) /\ (TellsToEnd(x) \/ TellsToGoOn(x))
    BY <1>0, <1>5, DueKept DEF BlockFails, UnblockFails, Kept
  <2>2. QED
    BY <1>5, <2>1, ToldShapes DEF BlockFails, UnblockFails, Ends
<1>6. QED
  BY <1>1, <1>2, <1>3, <1>4, <1>5 DEF Platform

LEMMA OwnerShapes ==
  ASSUME IInv, OwnerDates, Owner
  PROVE  Shapes /\ Ends' = Ends
<1>1. CASE OwnerReads \/ OwnerRefused
  BY <1>1, NoChangeShapes DEF OwnerReads, OwnerRefused, Ends
<1>2. CASE OwnerCalls
  BY <1>2, CallShapes DEF OwnerCalls, Ends
<1>3. CASE OwnerWrites
  BY <1>3, NoChangeShapes, WrittenKept DEF OwnerWrites, AllKept, Kept, Ends
<1>4. CASE OwnerInterrupted
  <2>1. Sound(ws) /\ owner.snap \in Answers(ws.trial.ends) /\ UNCHANGED stripe
    BY <1>4, RowKnown DEF OwnerInterrupted, IInv, OwnerInv, Ends
  <2>2. ws' = ws \/ ws' \in ReconciledInPart(ws, owner.snap)
    BY <1>4 DEF OwnerInterrupted
  <2>3. ws'.trial = ws.trial
    BY <2>1, <2>2, InPartKept
  <2>4. QED
    BY <2>1, <2>3, NoChangeShapes DEF Ends
<1>5. QED
  BY <1>1, <1>2, <1>3, <1>4 DEF Owner

LEMMA StepShapes ==
  ASSUME IInv, StripeDates, OwnerDates, [Next]_vars
  PROVE  Shapes /\ Ends' = Ends
<1>1. CASE Stripe
  <2>1. UNCHANGED ws
    BY <1>1 DEF Stripe, Subscribe, PeriodEnds, RetrySucceeds, GivesUp, StripeKeeps
  <2>2. QED
    BY <1>1, <2>1, StripeShapes DEF Ends
<1>2. CASE Tick \/ UNCHANGED vars
  BY <1>2, NoChangeShapes DEF Tick, vars, Ends
<1>3. ASSUME NEW w \in Workers, Webhook(w) PROVE Shapes /\ Ends' = Ends
  <2>1. CASE ~Apply(w) /\ ~ApplyRolledBack(w)
    BY <1>3, <2>1, NoChangeShapes
       DEF Webhook, Claim, Take, Retrieve, RetrieveFails, MarkProcessed, MarkFailed, Crash,
           Release, Ends
  <2>2. QED
    BY <2>1, ApplyShapes, RolledBackShapes
<1>4. ASSUME NEW e \in Events, AnswerInProgress(e) PROVE Shapes /\ Ends' = Ends
  BY <1>4, NoChangeShapes DEF AnswerInProgress, Ends
<1>5. QED
  BY <1>1, <1>2, <1>3, <1>4, OwnerShapes, PlatformShapes DEF Next
-----------------------------------------------------------------------------
LEMMA FlightFacts ==
  ASSUME IInv, AnswerInv, NEW a \in Flight
  PROVE  /\ a.snap \in Answers(Ends) /\ a.snap.sub \in Subs
         /\ a.ver \in Nat /\ a.ver <= version
         /\ a.ver = version => a.snap = Snapshot(a.snap.sub)
<1>1. CASE owner.pc = "called" /\ a = Answer(owner)
  BY <1>1 DEF Answer, IInv, OwnerInv, OwnerRecords, AnswerInv, OwnerCarries, Carries
<1>2. CASE \E w \in Carriers : a = Answer(worker[w])
  <2>1. PICK w \in Carriers : a = Answer(worker[w])
    BY <1>2
  <2>2. QED
    BY <2>1 DEF Answer, Carriers, IInv, WorkerInv, WorkerRecords, AnswerInv, WorkerCarries, Carries
<1>3. QED
  BY <1>1, <1>2 DEF Flight

(* Every change at Stripe is counted.                                      *)
Counts ==
  /\ version' \in Nat /\ version <= version'
  /\ version' = version => stripe' = stripe

(* Dates are numbers, and those of a period are a period apart.            *)
LEMMA ClockFacts ==
  ASSUME IInv, NEW s \in Subs
  PROVE  stripe[s].end \in Nat /\ clock \in Nat /\ Ends \in Nat /\ Period \in Nat \ {0}
BY AtStripe, RowKnown, StripeAssumption

LEMMA DatesStep ==
  ASSUME IInv, IInv', AnswerInv, DatesInv, FlightStep, Shapes, Counts,
         clock' = clock, Ends' = Ends
  PROVE  StripeDates' /\ FlightInv' /\ FlightOrder'
<1>1. StripeDates'
  <2>1. ASSUME NEW s \in Subs
        PROVE  /\ IsLive(s)' => stripe'[s].end >= clock
               /\ stripe'[s].status = "trialing" => stripe'[s].end = Ends
               /\ stripe'[s].status \in Paying => clock >= Ends
    <3>1. /\ stripe[s].end \in Nat /\ clock \in Nat /\ Ends \in Nat /\ Period \in Nat
          /\ stripe[s].status \in Live => stripe[s].end >= clock
          /\ stripe[s].status = "trialing" => stripe[s].end = Ends
          /\ stripe[s].status \in Paying => clock >= Ends
      BY ClockFacts DEF DatesInv, StripeDates, IsLive
    <3>2. Shape(s)
      BY DEF Shapes
    <3>3. QED
      BY <3>1, <3>2 DEF Shape, Unmoved, Renews, Starts, Granted, IsLive, Live, Paying
  <2>2. QED
    BY <2>1 DEF StripeDates
(* A period that has its middle was there before.                          *)
<1>2. ASSUME NEW s \in Subs, MidPeriod(s)'
      PROVE  /\ ~(clock < Ends) => MidPeriod(s)
             /\ stripe[s].plan = "business" /\ ~(clock < Ends) => stripe'[s].plan = "business"
  <2>1. stripe[s].end \in Nat /\ clock \in Nat /\ Ends \in Nat /\ Period \in Nat
    BY ClockFacts
  <2>2. clock < stripe'[s].end /\ stripe'[s].end < clock + Period
    BY <1>2 DEF MidPeriod
  <2>3. Shape(s)
    BY DEF Shapes
  <2>4. QED
    BY <2>1, <2>2, <2>3 DEF Shape, Unmoved, Renews, Starts, Granted, MidPeriod
<1>3. ASSUME NEW a \in Flight'
      PROVE  /\ a.snap.status = "trialing" => clock < Ends \/ ~MidPeriod(a.snap.sub)'
             /\ a.snap.status \in Paying => clock >= Ends
             /\ a.snap.status \in Paying /\ a.snap.plan = "business" /\ MidPeriod(a.snap.sub)' =>
                  stripe'[a.snap.sub].plan = "business"
  <2>1. CASE a \in Flight
    <3>1. a.snap.sub \in Subs /\ clock \in Nat /\ Ends \in Nat
      BY <2>1, FlightFacts, RowKnown
    <3>2. QED
      BY <1>2, <2>1, <3>1 DEF DatesInv, FlightInv
  <2>2. CASE \E s \in Subs : a.snap = Snapshot(s)'
    <3>1. PICK s \in Subs : a.snap = Snapshot(s)'
      BY <2>2
    <3>2. a.snap.sub = s /\ a.snap.status = stripe'[s].status /\ a.snap.plan = stripe'[s].plan
      BY <3>1 DEF Snapshot, SnapshotOf
    <3>3. QED
      BY <1>1, <3>2 DEF StripeDates, MidPeriod
  <2>3. QED
    BY <2>1, <2>2 DEF FlightStep
<1>4. ASSUME NEW a \in Flight', NEW b \in Flight',
             a.snap.sub = b.snap.sub, MidPeriod(a.snap.sub)',
             a.snap.status \in Paying, a.snap.plan = "plus",
             b.snap.status \in Paying, b.snap.plan = "business"
      PROVE  a.ver < b.ver
  <2>1. stripe'[a.snap.sub].plan = "business" /\ ~(clock < Ends)
    BY <1>3, <1>4, RowKnown
  <2>2. a \in Flight
    <3>1. ASSUME NEW s \in Subs, a.snap = Snapshot(s)' PROVE FALSE
      <4>1. a.snap.sub = s /\ a.snap.plan = stripe'[s].plan
        BY <3>1 DEF Snapshot, SnapshotOf
      <4>2. QED
        BY <1>4, <2>1, <4>1
    <3>2. a \in Flight \/ \E s \in Subs : a.snap = Snapshot(s)'
      BY <1>4 DEF FlightStep
    <3>3. QED
      BY <3>1, <3>2
  <2>3. /\ a.snap.sub \in Subs /\ a.ver \in Nat /\ a.ver <= version
        /\ a.ver = version => a.snap = Snapshot(a.snap.sub)
    BY <2>2, FlightFacts
  <2>4. CASE b \in Flight
    BY <1>2, <1>4, <2>1, <2>2, <2>3, <2>4 DEF DatesInv, FlightOrder
  <2>5. CASE \E s \in Subs : b.snap = Snapshot(s)' /\ b.ver = version'
    <3>1. version \in Nat /\ version' \in Nat /\ version <= version'
          /\ (version' = version => stripe' = stripe)
      BY RowKnown DEF Counts
    <3>2. a.ver # version'
      <4>1. ASSUME a.ver = version' PROVE FALSE
        <5>1. a.ver = version /\ stripe' = stripe
          BY <2>3, <3>1, <4>1
        <5>2. a.snap.plan = stripe[a.snap.sub].plan
          BY <2>3, <5>1 DEF Snapshot, SnapshotOf
        <5>3. QED
          BY <1>4, <2>1, <5>1, <5>2
      <4>2. QED
        BY <4>1
    <3>3. QED
      BY <2>3, <2>5, <3>1, <3>2
  <2>6. QED
    BY <2>4, <2>5 DEF FlightStep
<1>5. QED
  BY <1>1, <1>3, <1>4 DEF FlightInv, FlightOrder

LEMMA CountsKept ==
  ASSUME IInv, UNCHANGED <<stripe, version>>
  PROVE  Counts
BY RowKnown DEF Counts

LEMMA CountsChange ==
  ASSUME IInv, NEW s, NEW sub, NEW kinds, Change(s, sub, kinds)
  PROVE  Counts
BY RowKnown DEF Change, Counts

LEMMA StepCounts ==
  ASSUME IInv, [Next]_vars
  PROVE  Counts
<1>1. CASE Stripe
  BY <1>1, CountsChange DEF Stripe, Subscribe, PeriodEnds, RetrySucceeds, GivesUp
<1>2. CASE Owner
  <2>1. CASE OwnerCalls
    BY <2>1, CountsChange, CountsKept DEF OwnerCalls, NoChange
  <2>2. CASE ~OwnerCalls
    BY <1>2, <2>2, CountsKept DEF Owner, OwnerReads, OwnerRefused, OwnerWrites, OwnerInterrupted
  <2>3. QED
    BY <2>1, <2>2
<1>3. CASE Platform
  BY <1>3, CountsChange, CountsKept
     DEF Platform, SendPaymentWarnings, ExpireTrial, Block, BlockFails, Unblock, UnblockFails,
         TellsToEnd, TellsToGoOn, NoChange
<1>4. CASE Tick \/ UNCHANGED vars
  BY <1>4, CountsKept DEF Tick, vars
<1>5. ASSUME NEW w \in Workers, Webhook(w) PROVE Counts
  <2>1. CASE Apply(w)
    BY <2>1, ApplyOutcome, CountsChange, CountsKept DEF Settle, TellsToEnd, NoChange
  <2>2. CASE ApplyRolledBack(w)
    BY <2>2, CountsChange DEF ApplyRolledBack, TellsToEnd
  <2>3. CASE ~Apply(w) /\ ~ApplyRolledBack(w)
    BY <1>5, <2>3, CountsKept
       DEF Webhook, Claim, Take, Retrieve, RetrieveFails, MarkProcessed, MarkFailed, Crash,
           Release
  <2>4. QED
    BY <2>1, <2>2, <2>3
<1>6. ASSUME NEW e \in Events, AnswerInProgress(e) PROVE Counts
  BY <1>6, CountsKept DEF AnswerInProgress
<1>7. QED
  BY <1>1, <1>2, <1>3, <1>4, <1>5, <1>6 DEF Next

(* What a request is for, and in which part of the time it is made.        *)
LEMMA OwnerDatesStep ==
  ASSUME IInv, OwnerDates, [Next]_vars, clock' = clock, Ends' = Ends
  PROVE  OwnerDates'
<1>1. CASE owner'.pc # "idle" => owner.pc # "idle" /\ owner'.op = owner.op
  BY <1>1 DEF OwnerDates
<1>2. CASE OwnerReads
  <2>1. PICK op \in Ops : Asks(op) /\ owner'.op = op
    BY <1>2 DEF OwnerReads, NoRequest
  <2>2. TrialActive(ws, clock) <=> clock < Ends
    BY RowKnown DEF TrialActive, IInv, RowInv, Ends, NoTime
  <2>3. op \in {"upgrade", "schedule"} => ~TrialActive(ws, clock)
    BY <2>1 DEF Asks
  <2>4. op \in {"retarget", "clear"} => TrialActive(ws, clock)
    BY <2>1 DEF Asks
  <2>5. QED
    BY <2>1, <2>2, <2>3, <2>4, RowKnown DEF OwnerDates
<1>3. CASE Owner
  <2>1. owner \in OwnerRecords
    BY DEF IInv, OwnerInv
  <2>2. CASE OwnerCalls
    BY <1>1, <2>1, <2>2 DEF OwnerCalls, OwnerRecords
  <2>3. CASE OwnerRefused \/ OwnerWrites \/ OwnerInterrupted
    BY <1>1, <2>3 DEF OwnerRefused, OwnerWrites, OwnerInterrupted, NoRequest
  <2>4. QED
    BY <1>2, <1>3, <2>2, <2>3 DEF Owner
<1>4. CASE UNCHANGED owner
  BY <1>1, <1>4
<1>5. Owner \/ UNCHANGED owner
  BY DEF Next, vars, Stripe, Subscribe, PeriodEnds, RetrySucceeds, GivesUp, StripeKeeps, Platform,
         SendPaymentWarnings, ExpireTrial, Block, BlockFails, Unblock, UnblockFails, Tick,
         AnswerInProgress, Webhook, Claim, Take, Retrieve, RetrieveFails, Apply, ApplyRolledBack,
         MarkProcessed, MarkFailed, Crash, Release
<1>6. QED
  BY <1>3, <1>4, <1>5

(* Only time itself passes between two requests.                           *)
LEMMA NobodyFlies ==
  ASSUME NoRequests
  PROVE  Flight = {}
BY DEF NoRequests, Flight, Carriers

LEMMA TickDates ==
  ASSUME IInv, DatesInv, Tick
  PROVE  DatesInv'
<1>1. /\ Flight = {} /\ clock' = clock + 1 /\ Settled /\ owner.pc = "idle"
      /\ UNCHANGED <<ws, stripe, worker, event, owner>>
  BY NobodyFlies DEF Tick, NoRequests
<1>2. Flight' = {}
  BY <1>1 DEF Flight, Carriers, Answer
<1>3. StripeDates'
  <2>1. ASSUME NEW s \in Subs
        PROVE  /\ IsLive(s)' => stripe'[s].end >= clock'
               /\ stripe'[s].status = "trialing" => stripe'[s].end = Ends'
               /\ stripe'[s].status \in Paying => clock' >= Ends'
    <3>1. stripe[s].end \in Nat /\ clock \in Nat /\ Ends \in Nat
      BY ClockFacts
    <3>2. /\ IsLive(s) => stripe[s].end > clock
          /\ stripe[s].status = "trialing" => stripe[s].end = Ends
          /\ stripe[s].status \in Paying => clock >= Ends
      BY <1>1 DEF Settled, DatesInv, StripeDates
    <3>3. QED
      BY <1>1, <3>1, <3>2 DEF IsLive, Ends
  <2>2. QED
    BY <2>1 DEF StripeDates
<1>4. QED
  BY <1>1, <1>2, <1>3 DEF DatesInv, FlightInv, FlightOrder, OwnerDates

LEMMA ClockStays ==
  ASSUME [Next]_vars, ~Tick
  PROVE  clock' = clock
<1>1. CASE Stripe \/ Owner \/ Platform
  BY <1>1
     DEF Stripe, Subscribe, PeriodEnds, RetrySucceeds, GivesUp, StripeKeeps, Owner, OwnerReads,
         OwnerCalls, OwnerRefused, OwnerWrites, OwnerInterrupted, Platform,
         SendPaymentWarnings, ExpireTrial, Block, BlockFails, Unblock, UnblockFails
<1>2. CASE (\E w \in Workers : Webhook(w)) \/ (\E e \in Events : AnswerInProgress(e))
  BY <1>2
     DEF Webhook, Claim, Take, Retrieve, RetrieveFails, Apply, ApplyRolledBack, MarkProcessed,
         MarkFailed, Crash, Release, AnswerInProgress
<1>3. QED
  BY <1>1, <1>2 DEF Next, vars

LEMMA StepDates ==
  ASSUME IInv, IInv', AnswerInv, DatesInv, [Next]_vars
  PROVE  DatesInv'
<1>1. CASE ~Tick
  BY <1>1, ClockStays, StepShapes, StepCounts, StepFlows, DatesStep, OwnerDatesStep
     DEF DatesInv, Flows
<1>2. QED
  BY <1>1, TickDates

LEMMA InitDates ==
  ASSUME Init
  PROVE  DatesInv
<1>1. Flight = {}
  BY NobodyFlies DEF Init, NoRequests, NoRequest, Idle
<1>2. QED
  BY <1>1 DEF Init, DatesInv, StripeDates, FlightInv, FlightOrder, OwnerDates, NoSubscription,
              NoRequest, IsLive, Live, Paying

(* Before the end of the free week nothing is paid and no change is        *)
(* awaited, and a paid row names the plan of the workspace.                *)
RowPlain ==
  /\ Plain(ws, clock)
  /\ ws.row.pendingPlan \in PaidPlans => clock >= Ends /\ ws.row.pendingAt # NoTime

Calls(op, s) == owner.pc = "called" /\ owner.op = op /\ owner.sub = s

(* An upgrade under way finds Stripe on Plus, or the row is not ahead.     *)
OwnerUpgrades ==
  /\ owner.pc = "read" /\ owner.op = "upgrade" /\ owner.sub \in Subs
  /\ OnBusiness(ws.row) /\ ws.row.sub = owner.sub
  => ~MidPeriod(owner.sub) \/ stripe[owner.sub].plan = "business"

(* A change that has been scheduled at Stripe and not been written yet.    *)
OwnerSchedules ==
  owner.pc = "called" /\ owner.op = "schedule" =>
    LET t == stripe[owner.sub] IN
    /\ t.status # "none"
    /\ \/ t.nextPlan = owner.plan /\ t.end = owner.snap.end /\ t.plan = owner.snap.plan
       \/ t.nextPlan = "none" /\ t.plan = owner.plan /\ t.end = clock + Period

(* No answer that could still be applied lowers a Business row too early.  *)
NoneOlder ==
  \A a \in Flight :
    /\ a.snap.status \in Paying /\ a.snap.plan = "plus" /\ a.ver >= applied
    /\ OnBusiness(ws.row) /\ ws.row.sub = a.snap.sub
    => ~MidPeriod(a.snap.sub) \/ stripe[a.snap.sub].plan = "plus"

(* The change of plan the row waits for is Stripe's: it is scheduled for   *)
(* the same date, or it has been made, and nothing in flight is older; or  *)
(* the owner is about to write what replaces it.                           *)
Awaits(s, p) ==
  LET t == stripe[s] IN
  \/ t.nextPlan = p /\ t.end = ws.row.pendingAt
  \/ /\ t.plan = p
     /\ t.nextPlan = "none" \/ (Calls("schedule", s) /\ owner.snap.plan # ws.row.plan)
     /\ MidPeriod(s) =>
          \A a \in Flight : a.snap.sub = s /\ a.snap.status \in Paying => a.snap.plan = p
  \/ Calls("release", s) /\ (t.end = ws.row.pendingAt \/ t.end = clock + Period)
  \/ Calls("schedule", s) /\ owner.snap.plan # ws.row.plan /\ t.end = clock + Period

Changes(r) ==
  r.status \in Live /\ r.pendingPlan \in PaidPlans /\ r.plan # r.pendingPlan /\ r.sub \in Subs

Pending ==
  Changes(ws.row) =>
    /\ ws.row.pendingPlan = "plus" => owner.op # "upgrade"
    /\ Awaits(ws.row.sub, ws.row.pendingPlan)

RowPeriod == RowPlain /\ OwnerUpgrades /\ NoneOlder /\ Pending

PeriodInv == OwnerSchedules /\ (flaws = {} => RowPeriod)
-----------------------------------------------------------------------------
LEMMA ReadsFacts ==
  ASSUME OwnerReads
  PROVE  /\ owner.pc = "idle" /\ owner'.pc = "read"
         /\ owner'.op = "upgrade" => ws.row.plan = "plus"
BY DEF OwnerReads, NoRequest, Asks

LEMMA CallsFacts ==
  ASSUME IInv, OwnerCalls
  PROVE  /\ owner.pc = "read" /\ owner'.pc = "called" /\ owner'.op = owner.op
         /\ owner'.sub = owner.sub /\ owner'.plan = owner.plan
         /\ owner.sub \in Subs /\ owner.op \in Ops
<1>1. owner \in OwnerRecords
  BY DEF IInv, OwnerInv
<1>2. QED
  BY <1>1 DEF OwnerCalls, OwnerRecords, IInv, OwnerInv

LEMMA OwnerMoves ==
  ASSUME [Next]_vars
  PROVE  \/ UNCHANGED owner \/ OwnerReads \/ OwnerCalls
         \/ owner' = NoRequest /\ (OwnerRefused \/ OwnerWrites \/ OwnerInterrupted)
<1>1. Owner \/ UNCHANGED owner
  BY DEF Next, vars, Stripe, Subscribe, PeriodEnds, RetrySucceeds, GivesUp, StripeKeeps, Platform,
         SendPaymentWarnings, ExpireTrial, Block, BlockFails, Unblock, UnblockFails, Tick,
         AnswerInProgress, Webhook, Claim, Take, Retrieve, RetrieveFails, Apply, ApplyRolledBack,
         MarkProcessed, MarkFailed, Crash, Release
<1>2. QED
  BY <1>1 DEF Owner, OwnerRefused, OwnerWrites, OwnerInterrupted

(* What has been scheduled at Stripe stays, or starts with the period.     *)
ScheduleStands(t, o, now) ==
  /\ t.status # "none"
  /\ \/ t.nextPlan = o.plan /\ t.end = o.snap.end /\ t.plan = o.snap.plan
     \/ t.nextPlan = "none" /\ t.plan = o.plan /\ t.end = now + Period

LEMMA StepSchedules ==
  ASSUME IInv, AnswerInv, DatesInv, OwnerSchedules, [Next]_vars
  PROVE  OwnerSchedules'
<1>0. SUFFICES ASSUME owner'.pc = "called", owner'.op = "schedule"
               PROVE  ScheduleStands(stripe'[owner'.sub], owner', clock')
  BY DEF OwnerSchedules, ScheduleStands
<1>1. Shapes
  BY StepShapes DEF DatesInv
<1>2. CASE UNCHANGED owner
  <2>1. clock' = clock
    BY <1>0, <1>2, ClockStays DEF Tick, NoRequests
  <2>2. PICK s \in Subs : s = owner.sub
    BY <1>0, <1>2 DEF AnswerInv, OwnerCarries, Carries
  <2>3. Shape(s) /\ owner.plan \in PaidPlans
    BY <1>0, <1>1, <1>2 DEF Shapes, IInv, OwnerInv, WithTarget
  <2>4. ScheduleStands(stripe[s], owner, clock)
    BY <1>0, <1>2, <2>2 DEF OwnerSchedules, ScheduleStands
  <2>5. stripe[s].end \in Nat /\ clock \in Nat /\ Period \in Nat \ {0}
    BY ClockFacts
  <2>6. ScheduleStands(stripe'[s], owner, clock)
    <3>1. CASE Unmoved(stripe[s], stripe'[s])
      BY <2>4, <3>1 DEF Unmoved, ScheduleStands
    <3>2. CASE Renews(stripe[s], stripe'[s])
      BY <2>3, <2>4, <2>5, <3>2 DEF Renews, ScheduleStands, PaidPlans, Paying
    <3>3. CASE Starts(stripe[s], stripe'[s])
      BY <2>4, <3>3 DEF Starts, ScheduleStands
    <3>4. CASE OwnerCalls
      BY <1>0, <1>2, <3>4, CallsFacts
    <3>5. QED
      BY <2>3, <3>1, <3>2, <3>3, <3>4 DEF Shape
  <2>7. QED
    BY <1>2, <2>1, <2>2, <2>6
<1>3. CASE OwnerCalls
  <2>1. PICK s \in Subs : s = owner.sub /\ owner'.sub = s /\ owner'.plan = owner.plan
    BY <1>3, CallsFacts
  <2>2. owner.op = "schedule" /\ owner \in OwnerRecords /\ clock' = clock
    BY <1>0, <1>3, CallsFacts DEF IInv, OwnerInv, OwnerCalls
  <2>3. /\ Accepted(s) /\ Change(s, Asked(s), {"subscription"})
        /\ owner'.snap = SnapshotOf(s, Asked(s))
    BY <1>3, <2>1, <2>2 DEF OwnerCalls, OwnerRecords
  <2>4. stripe'[s] = Asked(s)
    BY <2>3, ShapeChange
  <2>5. stripe[s] \in SubscriptionRecords /\ stripe[s].status \in Live
    BY <2>3, AtStripe DEF Accepted, IsLive
  <2>6. /\ Asked(s).nextPlan = owner.plan /\ Asked(s).plan = stripe[s].plan
        /\ Asked(s).end = stripe[s].end /\ Asked(s).status = stripe[s].status
    BY <2>2, <2>5 DEF Asked, SubscriptionRecords
  <2>7. QED
    BY <2>1, <2>3, <2>4, <2>5, <2>6 DEF ScheduleStands, SnapshotOf, Live
<1>4. CASE OwnerReads \/ owner' = NoRequest
  BY <1>0, <1>4, ReadsFacts DEF NoRequest
<1>5. QED
  BY <1>2, <1>3, <1>4, OwnerMoves
-----------------------------------------------------------------------------
(* A change the row waits for that is due is due at Stripe, too.           *)
LEMMA DueAtStripe ==
  ASSUME IInv, Pending, NEW p \in PaidPlans, Due(ws.row, p, clock), ws.row.sub \in Subs
  PROVE  \/ ~MidPeriod(ws.row.sub)
         \/ /\ stripe[ws.row.sub].plan = p
            /\ \A a \in Flight :
                 a.snap.sub = ws.row.sub /\ a.snap.status \in Paying => a.snap.plan = p
<1>1. /\ stripe[ws.row.sub].end \in Nat /\ clock \in Nat /\ Period \in Nat \ {0}
      /\ ws.row.pendingAt \in Nat
  BY ClockFacts, RowKnown, Known, Dates
<1>2. Awaits(ws.row.sub, p) /\ ws.row.pendingAt <= clock
  BY DEF Due, Pending, Changes
<1>3. QED
  BY <1>1, <1>2 DEF Awaits, MidPeriod

(* An answer that comes in now agrees with Stripe.                         *)
LEMMA FlightAgrees ==
  ASSUME FlightStep, NEW s, NEW p, stripe'[s].plan = p,
         MidPeriod(s)' =>
           \A a \in Flight : a.snap.sub = s /\ a.snap.status \in Paying => a.snap.plan = p
  PROVE  (MidPeriod(s) =>
            \A a \in Flight : a.snap.sub = s /\ a.snap.status \in Paying => a.snap.plan = p)'
<1>1. ASSUME NEW a \in Flight', NEW u \in Subs, a.snap = Snapshot(u)', a.snap.sub = s
      PROVE  a.snap.plan = p
  BY <1>1 DEF Snapshot, SnapshotOf
<1>2. QED
  BY <1>1 DEF FlightStep

(* The row rests, while Stripe, the workers and the owner go on.           *)
LEMMA RestsPeriod ==
  ASSUME IInv, AnswerInv, DatesInv, OwnerSchedules, RowPeriod, FlightStep, Shapes,
         clock' = clock, Ends' = Ends, applied' = applied, ws'.row = ws.row, Plain(ws', clock),
         \/ UNCHANGED owner \/ OwnerReads \/ OwnerCalls
         \/ owner.pc = "read" /\ owner' = NoRequest
  PROVE  RowPeriod'
<1>0. ASSUME NEW s \in Subs
      PROVE  /\ stripe[s].end \in Nat /\ clock \in Nat /\ Ends \in Nat /\ Period \in Nat \ {0}
             /\ Shape(s)
  BY ClockFacts DEF Shapes
<1>1. RowPlain'
  BY DEF RowPeriod, RowPlain
<1>2. OwnerUpgrades'
  <2>1. SUFFICES ASSUME NEW s \in Subs, owner'.pc = "read", owner'.op = "upgrade",
                        owner'.sub = s, OnBusiness(ws.row), ws.row.sub = s
                 PROVE  ~MidPeriod(s)' \/ stripe'[s].plan = "business"
    BY DEF OwnerUpgrades
  <2>2. UNCHANGED owner
    BY <2>1, ReadsFacts, CallsFacts DEF OnBusiness, NoRequest
  <2>3. ~MidPeriod(s) \/ stripe[s].plan = "business"
    BY <2>1, <2>2 DEF RowPeriod, OwnerUpgrades
  <2>4. ~OwnerCalls /\ Shape(s)
    BY <1>0, <2>1, <2>2, CallsFacts
  <2>5. QED
    BY <1>0, <2>1, <2>3, <2>4 DEF Shape, Unmoved, Renews, Starts, MidPeriod, OnBusiness
<1>3. NoneOlder'
  <2>1. SUFFICES ASSUME NEW a \in Flight', a.snap.status \in Paying, a.snap.plan = "plus",
                        a.ver >= applied, OnBusiness(ws.row), ws.row.sub = a.snap.sub
                 PROVE  ~MidPeriod(a.snap.sub)' \/ stripe'[a.snap.sub].plan = "plus"
    BY DEF NoneOlder
  <2>2. CASE a \in Flight
    <3>1. PICK s \in Subs : s = a.snap.sub
      BY <2>2, FlightFacts
    <3>2. /\ ~MidPeriod(s) \/ stripe[s].plan = "plus"
          /\ clock >= Ends
      BY <2>1, <2>2, <3>1 DEF RowPeriod, NoneOlder, DatesInv, FlightInv
    <3>3. CASE Unmoved(stripe[s], stripe'[s])
      BY <3>1, <3>2, <3>3 DEF Unmoved, MidPeriod
    <3>4. CASE Renews(stripe[s], stripe'[s])
      BY <1>0, <3>1, <3>4 DEF Renews, MidPeriod
    <3>5. CASE Starts(stripe[s], stripe'[s])
      BY <2>1, <3>5 DEF Starts, OnBusiness
    <3>6. CASE OwnerCalls /\ s = owner.sub /\ Granted(stripe[s], stripe'[s])
      <4>1. owner.pc = "read" /\ ~(clock < Ends) /\ stripe'[s].end = stripe[s].end
        BY <1>0, <3>2, <3>6, CallsFacts DEF Granted
      <4>2. owner.op # "upgrade" => stripe'[s].plan = stripe[s].plan
        BY <3>6, <4>1 DEF Granted
      <4>3. owner.op = "upgrade" => ~MidPeriod(s)
        BY <2>1, <3>1, <3>2, <3>6, <4>1 DEF RowPeriod, OwnerUpgrades
      <4>4. QED
        BY <3>1, <3>2, <4>1, <4>2, <4>3 DEF MidPeriod
    <3>7. QED
      BY <1>0, <3>3, <3>4, <3>5, <3>6 DEF Shape
  <2>3. ASSUME NEW s \in Subs, a.snap = Snapshot(s)' PROVE stripe'[a.snap.sub].plan = "plus"
    BY <2>1, <2>3 DEF Snapshot, SnapshotOf
  <2>4. QED
    BY <2>1, <2>2, <2>3 DEF FlightStep
<1>4. Pending'
  <2>1. SUFFICES ASSUME Changes(ws.row), NEW s \in Subs, s = ws.row.sub,
                        NEW p \in PaidPlans, p = ws.row.pendingPlan
                 PROVE  /\ p = "plus" => owner'.op # "upgrade"
                        /\ Awaits(s, p)'
    BY DEF Pending, Changes
  <2>2. /\ p = "plus" => owner.op # "upgrade"
        /\ Awaits(s, p) /\ clock >= Ends
        /\ ws.row.plan # p /\ ws.row.status \in Live
    BY <2>1 DEF RowPeriod, Pending, RowPlain, Changes
  <2>3. p = "plus" => owner'.op # "upgrade"
    BY <2>2, ReadsFacts, CallsFacts DEF NoRequest
  <2>4. ASSUME Calls("schedule", s) \/ Calls("release", s)
        PROVE  UNCHANGED owner
    BY <2>4, ReadsFacts, CallsFacts DEF Calls
  <2>5. Awaits(s, p)'
    <3>0. Shape(s) /\ ws'.row = ws.row /\ clock' = clock
      BY <1>0
    <3>1. CASE Unmoved(stripe[s], stripe'[s])
      <4>1. /\ stripe'[s].plan = stripe[s].plan /\ stripe'[s].end = stripe[s].end
            /\ stripe'[s].nextPlan = stripe[s].nextPlan
        BY <3>1 DEF Unmoved
      <4>2. MidPeriod(s)' => MidPeriod(s)
        BY <3>0, <4>1 DEF MidPeriod
      <4>3. stripe[s].plan = p /\ (MidPeriod(s) => \A a \in Flight :
               a.snap.sub = s /\ a.snap.status \in Paying => a.snap.plan = p)
            => (MidPeriod(s) => \A a \in Flight :
               a.snap.sub = s /\ a.snap.status \in Paying => a.snap.plan = p)'
        BY <4>1, <4>2, FlightAgrees
      <4>4. QED
        BY <2>2, <2>4, <3>0, <4>1, <4>3 DEF Awaits, Calls
    <3>2. CASE UNCHANGED owner /\ Renews(stripe[s], stripe'[s])
      <4>1. /\ stripe'[s].end = clock + Period /\ stripe[s].end = clock
            /\ stripe'[s].plan = IF stripe[s].nextPlan = "none" THEN stripe[s].plan
                                                                ELSE stripe[s].nextPlan
            /\ stripe'[s].nextPlan = "none" /\ clock # clock + Period /\ ~MidPeriod(s)'
        BY <1>0, <3>0, <3>2 DEF Renews, MidPeriod
      <4>2. QED
        BY <2>2, <3>0, <3>2, <4>1 DEF Awaits, Calls, PaidPlans
    <3>3. CASE OwnerCalls /\ s = owner.sub /\ Granted(stripe[s], stripe'[s])
      <4>1. /\ owner.pc = "read" /\ ~(clock < Ends) /\ stripe'[s].end = stripe[s].end
            /\ owner'.pc = "called" /\ owner'.op = owner.op /\ owner'.sub = s
        BY <1>0, <2>2, <3>3, CallsFacts DEF Granted
      <4>2. \/ stripe[s].nextPlan = p /\ stripe[s].end = ws.row.pendingAt
            \/ /\ stripe[s].plan = p /\ stripe[s].nextPlan = "none"
               /\ MidPeriod(s) => \A a \in Flight :
                    a.snap.sub = s /\ a.snap.status \in Paying => a.snap.plan = p
        BY <2>2, <4>1 DEF Awaits, Calls
      <4>3. /\ p # "none" /\ (p = "plus" => owner.op # "upgrade") /\ p \in {"plus", "business"}
            /\ p # ws.row.plan
        BY <2>2 DEF PaidPlans
      <4>4. \/ owner.op = "release" /\ stripe'[s].end = ws.row.pendingAt
            \/ /\ stripe[s].plan = p /\ stripe[s].nextPlan = "none" /\ stripe'[s].plan = p
               /\ \/ stripe'[s].nextPlan = "none"
                  \/ owner.op = "schedule" /\ owner'.snap.plan = p
        BY <3>3, <4>1, <4>2, <4>3 DEF Granted
      <4>5. CASE owner.op = "release" /\ stripe'[s].end = ws.row.pendingAt
        BY <3>0, <4>1, <4>5 DEF Awaits, Calls
      <4>6. CASE stripe'[s].plan = p /\ stripe[s].plan = p /\ stripe[s].nextPlan = "none"
        <5>1. MidPeriod(s)' => MidPeriod(s)
          BY <3>0, <4>1 DEF MidPeriod
        <5>2. (MidPeriod(s) => \A a \in Flight :
                 a.snap.sub = s /\ a.snap.status \in Paying => a.snap.plan = p)'
          BY <4>2, <4>3, <4>6, <5>1, FlightAgrees
        <5>3. QED
          BY <3>0, <4>1, <4>3, <4>4, <4>5, <4>6, <5>2 DEF Awaits, Calls
      <4>7. QED
        BY <4>4, <4>5, <4>6
    <3>4. CASE Starts(stripe[s], stripe'[s])
      BY <2>2, <3>4 DEF Starts
    <3>5. QED
      BY <3>0, <3>1, <3>2, <3>3, <3>4 DEF Shape
  <2>6. QED
    BY <2>3, <2>5
<1>5. QED
  BY <1>1, <1>2, <1>3, <1>4 DEF RowPeriod

(* What a step that moves the row may do to its plan: an answer in flight  *)
(* or a date decides.                                                      *)
Raises(a) ==
  /\ a.snap.sub = Newest /\ a.snap.status \in {"trialing", "active"}
  /\ a.snap.plan = "business" /\ a.ver <= applied'
LowersTo(a) ==
  /\ a.snap.sub = Newest /\ a.snap.status = "active"
  /\ a.snap.plan = "plus" /\ a.ver >= applied

PlansMove ==
  /\ OnBusiness(ws'.row) =>
       \/ OnBusiness(ws.row) \/ Due(ws.row, "business", clock)
       \/ \E a \in Flight : Raises(a)
  /\ ws'.plan = "plus" /\ ws.row.status \in Paying =>
       \/ ws.plan = "plus" \/ Due(ws.row, "plus", clock)
       \/ \E a \in Flight : LowersTo(a)
  /\ Plain(ws, clock) => Plain(ws', clock)

(* The step that DowngradeAwaitsPeriod asks for.                           *)
Lowered == flaws' = {} => KeepsPaidPlan

(* Stripe and time rest, as far as plans and periods go, and no flaw       *)
(* occurs.                                                                 *)
StripeRests ==
  /\ Stays /\ clock' = clock /\ Ends' = Ends /\ Newest' = Newest
  /\ flaws = {} /\ flaws' = {}
  /\ applied' \in Nat /\ applied <= applied'

LEMMA MovesPlans ==
  ASSUME IInv, AnswerInv, DatesInv, RowPeriod, RowIsNewest, RowIsNewest',
         FlightStep, StripeRests, PlansMove, UNCHANGED owner \/ owner' = NoRequest
  PROVE  Plain(ws, clock)' /\ OwnerUpgrades' /\ NoneOlder' /\ Lowered
<1>0. ASSUME NEW s \in Subs
      PROVE  /\ MidPeriod(s)' <=> MidPeriod(s)
             /\ stripe'[s].plan = stripe[s].plan
  BY DEF StripeRests, Stays, Unmoved, MidPeriod
<1>1. /\ ws'.row.status \in Live => ws'.row.sub = Newest
      /\ ws.row.status \in Live => ws.row.sub = Newest
      /\ clock \in Nat /\ Ends \in Nat /\ applied \in Nat /\ applied' \in Nat /\ applied <= applied'
  BY RowKnown DEF RowIsNewest, StripeRests
<1>2. ASSUME NEW p \in PaidPlans, Due(ws.row, p, clock), Newest \in Subs
      PROVE  \/ ~MidPeriod(Newest)
             \/ /\ stripe[Newest].plan = p
                /\ \A a \in Flight :
                     a.snap.sub = Newest /\ a.snap.status \in Paying => a.snap.plan = p
  BY <1>1, <1>2, DueAtStripe DEF RowPeriod, Due
<1>3. Plain(ws, clock)'
  BY DEF PlansMove, RowPeriod, RowPlain, StripeRests
<1>4. OwnerUpgrades'
  <2>1. SUFFICES ASSUME owner'.pc = "read", owner'.op = "upgrade", owner'.sub \in Subs,
                        OnBusiness(ws'.row), ws'.row.sub = owner'.sub, MidPeriod(Newest)
                 PROVE  stripe[Newest].plan = "business"
    BY <1>0, <1>1 DEF OwnerUpgrades, OnBusiness
  <2>2. /\ Newest \in Subs /\ owner'.sub = Newest /\ UNCHANGED owner /\ ~(clock < Ends)
    BY <1>1, <2>1 DEF OnBusiness, NoRequest, DatesInv, OwnerDates
  <2>3. CASE OnBusiness(ws.row)
    BY <1>1, <2>1, <2>2, <2>3 DEF RowPeriod, OwnerUpgrades, OnBusiness
  <2>4. CASE Due(ws.row, "business", clock)
    BY <1>2, <2>1, <2>2, <2>4 DEF PaidPlans
  <2>5. ASSUME NEW a \in Flight, Raises(a) PROVE stripe[Newest].plan = "business"
    BY <2>1, <2>2, <2>5 DEF Raises, DatesInv, FlightInv, Paying
  <2>6. QED
    BY <2>1, <2>3, <2>4, <2>5 DEF PlansMove
<1>5. NoneOlder'
  <2>1. SUFFICES ASSUME NEW a \in Flight', a.snap.status \in Paying, a.snap.plan = "plus",
                        a.ver >= applied', OnBusiness(ws'.row), ws'.row.sub = a.snap.sub
                 PROVE  ~MidPeriod(a.snap.sub)' \/ stripe'[a.snap.sub].plan = "plus"
    BY DEF NoneOlder
  <2>2. ASSUME NEW s \in Subs, a.snap = Snapshot(s)' PROVE stripe'[a.snap.sub].plan = "plus"
    BY <2>1, <2>2 DEF Snapshot, SnapshotOf
  <2>3. CASE a \in Flight
    <3>1. /\ a.snap.sub = Newest /\ Newest \in Subs /\ a.ver \in Nat /\ a.ver >= applied
          /\ ~(clock < Ends)
      BY <1>1, <2>1, <2>3, FlightFacts DEF OnBusiness, DatesInv, FlightInv
    <3>2. CASE OnBusiness(ws.row)
      BY <1>0, <1>1, <2>1, <2>3, <3>1, <3>2 DEF RowPeriod, NoneOlder, OnBusiness
    <3>3. CASE Due(ws.row, "business", clock)
      BY <1>0, <1>2, <2>1, <2>3, <3>1, <3>3 DEF PaidPlans
    <3>4. ASSUME NEW b \in Flight, Raises(b) PROVE ~MidPeriod(Newest)
      <4>1. b.ver \in Nat /\ b.ver <= a.ver /\ b.snap.sub = Newest /\ b.snap.plan = "business"
        BY <1>1, <2>1, <3>1, <3>4, FlightFacts DEF Raises
      <4>2. CASE b.snap.status = "trialing"
        BY <3>1, <4>1, <4>2 DEF DatesInv, FlightInv
      <4>3. CASE b.snap.status = "active"
        BY <2>1, <2>3, <3>1, <4>1, <4>3 DEF DatesInv, FlightOrder, Paying
      <4>4. QED
        BY <3>4, <4>2, <4>3 DEF Raises
    <3>5. QED
      BY <1>0, <2>1, <3>1, <3>2, <3>3, <3>4 DEF PlansMove
  <2>4. QED
    BY <2>2, <2>3 DEF FlightStep
<1>6. Lowered
  <2>1. SUFFICES ASSUME ws.row.status \in Paying, ws.row.sub # NoSub,
                        ws.plan = "business", ws'.plan = "plus", MidPeriod(Newest)
                 PROVE  stripe[Newest].plan = "plus"
    BY <1>1 DEF Lowered, KeepsPaidPlan, Live, Paying
  <2>2. Newest \in Subs /\ OnBusiness(ws.row) /\ ws.row.sub = Newest
    BY <1>1, <2>1, RowKnown, Known
       DEF Rows, RowPeriod, RowPlain, Plain, OnBusiness, Live, Paying
  <2>3. CASE Due(ws.row, "plus", clock)
    BY <1>2, <2>1, <2>2, <2>3 DEF PaidPlans
  <2>4. ASSUME NEW a \in Flight, LowersTo(a) PROVE stripe[Newest].plan = "plus"
    BY <2>1, <2>2, <2>4 DEF LowersTo, RowPeriod, NoneOlder, Paying
  <2>5. QED
    BY <2>1, <2>3, <2>4 DEF PlansMove
<1>7. QED
  BY <1>3, <1>4, <1>5, <1>6

(* The owner writes what was scheduled or released, or somebody else moves *)
(* the row.                                                                *)
LEMMA MovesPending ==
  ASSUME IInv, AnswerInv, DatesInv, RowPeriod, RowIsNewest, RowIsNewest',
         FlightStep, StripeRests, Waits(ws', ws),
         \/ UNCHANGED owner
         \/ /\ owner' = NoRequest /\ owner.pc = "called"
            /\ owner.op = "schedule" => owner.snap.plan = ws.row.plan
            /\ owner.op = "release" => ~Changes(ws'.row)
  PROVE  /\ Pending'
         /\ ws'.row.pendingPlan \in PaidPlans => clock' >= Ends' /\ ws'.row.pendingAt # NoTime
<1>1. ws'.row.pendingPlan \in PaidPlans => clock' >= Ends' /\ ws'.row.pendingAt # NoTime
  BY DEF Waits, RowPeriod, RowPlain, StripeRests
<1>2. Pending'
  <2>1. SUFFICES ASSUME Changes(ws'.row), NEW s \in Subs, s = ws'.row.sub,
                        NEW p \in PaidPlans, p = ws'.row.pendingPlan
                 PROVE  /\ p = "plus" => owner'.op # "upgrade"
                        /\ Awaits(s, p)'
    BY DEF Pending, Changes
  <2>2. /\ ws.row.pendingPlan = p /\ ws'.row.pendingAt = ws.row.pendingAt
        /\ ws'.row.plan = ws.row.plan /\ ws.row.status \in Live /\ ws.row.plan # p
        /\ ws.row.sub = s
    BY <2>1 DEF Changes, Waits, RowIsNewest, StripeRests
  <2>3. (p = "plus" => owner.op # "upgrade") /\ Awaits(s, p)
    BY <2>1, <2>2 DEF RowPeriod, Pending, Changes
  <2>4. p = "plus" => owner'.op # "upgrade"
    BY <2>3 DEF NoRequest
  <2>5. /\ stripe'[s].plan = stripe[s].plan /\ stripe'[s].end = stripe[s].end
        /\ stripe'[s].nextPlan = stripe[s].nextPlan /\ (MidPeriod(s)' <=> MidPeriod(s))
        /\ clock' = clock
    BY DEF StripeRests, Stays, Unmoved, MidPeriod
  <2>6. stripe[s].plan = p /\ (MidPeriod(s) => \A a \in Flight :
           a.snap.sub = s /\ a.snap.status \in Paying => a.snap.plan = p)
        => (MidPeriod(s) => \A a \in Flight :
           a.snap.sub = s /\ a.snap.status \in Paying => a.snap.plan = p)'
    BY <2>5, FlightAgrees
  <2>7. CASE UNCHANGED owner
    BY <2>2, <2>3, <2>4, <2>5, <2>6, <2>7 DEF Awaits, Calls
  <2>8. CASE ~Calls("release", s) /\ (Calls("schedule", s) => owner.snap.plan = ws.row.plan)
    BY <2>2, <2>3, <2>4, <2>5, <2>6, <2>8 DEF Awaits
  <2>9. QED
    BY <2>1, <2>7, <2>8 DEF Calls
<1>3. QED
  BY <1>1, <1>2

(* An answer without a plan stands for a step that reads none.             *)
NoAnswer == [status |-> "none", plan |-> "none"]

LEMMA BecomesMoves ==
  ASSUME NEW s, Becomes(ws', ws, s, clock), clock' = clock,
         \/ s = NoAnswer
         \/ \E a \in Flight : /\ a.snap = s /\ s.sub = Newest
                              /\ applied <= a.ver /\ a.ver <= applied'
                              /\ a.ver \in Nat /\ applied \in Nat
  PROVE  PlansMove /\ Waits(ws', ws)
<1>1. CASE s = NoAnswer
  BY <1>1 DEF NoAnswer, PlansMove, Becomes
<1>2. ASSUME NEW a \in Flight, a.snap = s, s.sub = Newest, applied <= a.ver, a.ver <= applied',
             a.ver \in Nat, applied \in Nat
      PROVE  PlansMove /\ Waits(ws', ws)
  <2>1. /\ s.status \in {"trialing", "active"} /\ s.plan = "business" => Raises(a)
        /\ s.status = "active" /\ s.plan = "plus" => LowersTo(a)
    BY <1>2 DEF Raises, LowersTo
  <2>2. QED
    BY <2>1 DEF PlansMove, Becomes
<1>3. QED
  BY <1>1, <1>2

(* The subscription is told to end: the plans stay, or the row is closed.  *)
LEMMA LocalAfter ==
  ASSUME IInv, NEW x, Kept(x, ws), TellsToEnd(x), NEW s, s = x.row.sub,
         NEW y \in CancelledLocally(x, s)
  PROVE  Alike(y, x) \/ Closes(y, x)
<1>1. Sound(x) /\ x.trial = ws.trial /\ Exists(s) /\ s \in Subs
  BY EndIsSteady DEF Kept
<1>2. CASE TrialActive(x, clock)
  <2> DEFINE ended == [Snapshot(s) EXCEPT !.status = "canceled"]
  <2>1. PICK z \in Reconcile(x, ended, clock) : y = FinalizeSubscriptionEnd(z, clock)
    BY <1>2 DEF CancelledLocally
  <2>2. ended \in Answers(x.trial.ends) /\ ended.status = "canceled"
    <3>1. Snapshot(s) \in Answers(x.trial.ends)
      BY <1>1, ExistsAnswers DEF Ends
    <3>2. QED
      BY <3>1 DEF Answers, Snapshots
  <2> HIDE DEF ended
  <2>3. Sound(z) /\ z.plan \in {x.plan, "basic"}
    BY <1>1, <2>1, <2>2, RowKnown, EndedPlan, ReconcileKept DEF AllKept, Kept
  <2>4. Closes(y, z)
    BY <2>1, <2>3, FinalCloses
  <2>5. QED
    BY <2>3, <2>4 DEF Closes
<1>3. CASE ~TrialActive(x, clock)
  <2>1. PICK when : y \in ScheduleCancellation(x, when)
    BY <1>3 DEF CancelledLocally
  <2>2. QED
    BY <1>1, <2>1, CancellationAlike
<1>4. QED
  BY <1>2, <1>3

(* What an event makes of the row.                                         *)
LEMMA DispatchedBecomes ==
  ASSUME IInv, NEW kind, NEW snap, NEW s,
         kind = "failed" => s = NoAnswer,
         kind # "failed" => /\ s = snap /\ snap \in Answers(Ends)
                            /\ snap.status \in Paying => clock >= Ends,
         NEW x \in Dispatched(kind, snap)
  PROVE  Becomes(x, ws, s, clock)
<1>1. Sound(ws) /\ clock \in Nat
  BY RowKnown
<1>2. CASE kind = "failed"
  <2>1. PICK y \in MarkPaymentFailure(ws, clock) : x = ApplyDueTransitions(y, clock)
    BY <1>2 DEF Dispatched
  <2>2. Sound(y) /\ Taken(y, ws, s, clock)
    BY <1>1, <2>1, FailureKept, FailureTaken DEF AllKept, Kept
  <2>3. QED
    BY <1>1, <2>1, <2>2, TakenBecomes
<1>3. CASE kind # "failed"
  <2>1. PICK y \in Reconcile(ws, snap, clock) : x = y \/ x = ApplyDueTransitions(y, clock)
    BY <1>3 DEF Dispatched
  <2>2. Sound(y) /\ Taken(y, ws, s, clock)
    BY <1>1, <1>3, <2>1, ReconcileKept, ReconcileTaken DEF AllKept, Kept, Ends
  <2>3. QED
    BY <1>1, <2>1, <2>2, TakenBecomes
<1>4. QED
  BY <1>2, <1>3

LEMMA ApplyPeriod ==
  ASSUME IInv, AnswerInv, DatesInv, NEW w \in Workers, Apply(w), flaws' = {}
  PROVE  \/ UNCHANGED <<ws, applied>>
         \/ PlansMove /\ Waits(ws', ws) /\ applied' \in Nat /\ applied <= applied'
<1>0. PICK e, snap, ver : e = worker[w].event /\ snap = worker[w].snap /\ ver = worker[w].ver
  OBVIOUS
<1>1. PICK s : s = IF event[e].kind = "failed" THEN NoAnswer ELSE snap
  OBVIOUS
<1>2. /\ worker[w].pc = "ready" /\ clock' = clock
      /\ event[e].kind # "failed" => snap \in Answers(Ends) /\ snap.sub = event[e].sub
      /\ ver \in Nat /\ applied \in Nat
  BY <1>0, Holds, RowKnown DEF Apply, IInv, WorkerInv, AnswerInv, WorkerCarries, Carries
<1>3. event[e].kind # "failed" => \E a \in Flight : a.snap = snap /\ a.ver = ver
  <2>1. event[e].kind # "failed" => Answer(worker[w]) \in Flight
    BY <1>0, <1>2 DEF Flight, Carriers
  <2>2. QED
    BY <1>0, <2>1 DEF Answer
<1>4. ASSUME NEW x \in Dispatched(event[e].kind, snap), Settle(x, FlawsOf(e, ver)), Kept(x, ws),
             applied' = NewestOf(applied, ver)
      PROVE  PlansMove /\ Waits(ws', ws) /\ applied' \in Nat /\ applied <= applied'
  <2>1. FlawsOf(e, ver) = {}
    BY <1>4 DEF Settle, Flawed
  <2>2. event[e].sub = Newest /\ (event[e].kind # "failed" => applied <= ver)
    BY <1>2, <2>1 DEF FlawsOf
  <2>3. applied' \in Nat /\ applied <= applied' /\ ver <= applied'
    BY <1>2, <1>4 DEF NewestOf
  <2>4. Becomes(x, ws, s, clock)
    BY <1>1, <1>2, <1>3, <1>4, DispatchedBecomes DEF DatesInv, FlightInv
  <2>5. ws' = x \/ Alike(ws', x) \/ Closes(ws', x)
    BY <1>4, LocalAfter DEF Settle
  <2>6. Becomes(ws', ws, s, clock)
    BY <2>4, <2>5, BecomesAfter
  <2>7. QED
    BY <1>1, <1>2, <1>3, <2>2, <2>3, <2>6, BecomesMoves
<1>5. QED
  BY <1>0, <1>4, ApplyOutcome

LEMMA PlatformPeriod ==
  ASSUME IInv, SendPaymentWarnings \/ Block \/ Unblock
  PROVE  /\ PlansMove /\ Waits(ws', ws) /\ UNCHANGED owner
         /\ applied' \in Nat /\ applied <= applied'
<1>1. /\ Sound(ws) /\ clock \in Nat /\ applied \in Nat /\ version \in Nat /\ applied <= version
      /\ Kept(ws, ws) /\ ws.row.sub \in Subs \cup {NoSub}
  BY RowKnown, KeptSame, Known DEF Rows
<1>2. SUFFICES ASSUME TRUE
               PROVE  /\ Becomes(ws', ws, NoAnswer, clock) /\ clock' = clock /\ UNCHANGED owner
                      /\ applied' \in Nat /\ applied <= applied'
  BY BecomesMoves
<1>3. UNCHANGED <<clock, owner>> /\ applied' \in Nat /\ applied <= applied'
  BY <1>1 DEF SendPaymentWarnings, Block, Unblock, TellsToEnd, TellsToGoOn, Change
<1>4. PICK due : due = ApplyDueTransitions(ws, clock)
  OBVIOUS
<1>5. Sound(due) /\ Becomes(due, ws, NoAnswer, clock)
  <2>1. Sound(due)
    BY <1>1, <1>4, DueKept DEF Kept
  <2>2. Taken(ws, ws, NoAnswer, clock)
    BY DEF Taken, Waits, OnBusiness, Plain, Paying
  <2>3. QED
    BY <1>1, <1>4, <2>1, <2>2, TakenBecomes
<1>6. CASE SendPaymentWarnings
  BY <1>3, <1>4, <1>5, <1>6 DEF SendPaymentWarnings
<1>7. CASE Unblock
  <2>1. \/ ws' \in ClearPendingCancellation(due)
        \/ ws' = due
        \/ due.row.status \notin Live /\ ws' = [due EXCEPT !.plan = "basic"]
    BY <1>4, <1>7 DEF Unblock
  <2>2. CASE due.row.status \notin Live /\ ws' = [due EXCEPT !.plan = "basic"]
    <3>1. ws'.row = due.row /\ ws'.plan = "basic" /\ due.row.pendingPlan \notin PaidPlans
      BY <1>5, <2>2, Known DEF Workspaces, RowDated, PaidPlans
    <3>2. Closes(ws', due)
      BY <2>2, <3>1 DEF Closes
    <3>3. QED
      BY <1>3, <1>5, <3>2, BecomesAfter
  <2>3. QED
    BY <1>3, <1>5, <2>1, <2>2, ResumedAlike, BecomesAfter
<1>8. CASE Block
  <2>1. CASE UNCHANGED ws
    BY <1>3, <2>1, AlikeBecomes DEF Alike
  <2>2. CASE TellsToEnd(ws) /\ ws' \in CancelledLocally(ws, ws.row.sub)
    <3>1. Alike(ws', ws) \/ Closes(ws', ws)
      BY <1>1, <2>2, LocalAfter
    <3>2. Becomes(ws, ws, NoAnswer, clock)
      BY AlikeBecomes DEF Alike
    <3>3. QED
      BY <1>3, <3>1, <3>2, BecomesAfter
  <2>3. QED
    BY <1>8, <2>1, <2>2 DEF Block
<1>9. QED
  BY <1>6, <1>7, <1>8

(* The change the owner has scheduled, written into the row.               *)
LEMMA WrittenPending ==
  ASSUME IInv, IInv', OwnerSchedules, RowPeriod, RowIsNewest, StripeRests, OwnerDates,
         owner.pc = "called", owner.op = "schedule", owner.sub = Newest, owner' = NoRequest,
         owner.snap.plan = ws.row.plan, owner.snap.end = ws.row.end,
         ws'.row.plan = ws.row.plan, ws'.row.sub = ws.row.sub, ws.row.status \in Live,
         ws'.row.pendingPlan = owner.plan, ws'.row.pendingAt = ws.row.end, ws.row.end # NoTime
  PROVE  /\ Pending'
         /\ ws'.row.pendingPlan \in PaidPlans => clock' >= Ends' /\ ws'.row.pendingAt # NoTime
<1>1. ws'.row.pendingPlan \in PaidPlans => clock' >= Ends' /\ ws'.row.pendingAt # NoTime
  BY DEF OwnerDates, StripeRests
<1>2. Pending'
  <2>1. SUFFICES ASSUME NEW s \in Subs, s = ws'.row.sub,
                        NEW p \in PaidPlans, p = owner.plan
                 PROVE  Awaits(s, p)'
    BY DEF Pending, Changes, NoRequest
  <2>2. s = owner.sub
    BY <2>1 DEF RowIsNewest, StripeRests
  <2>3. /\ stripe'[s].plan = stripe[s].plan /\ stripe'[s].end = stripe[s].end
        /\ stripe'[s].nextPlan = stripe[s].nextPlan /\ clock' = clock
    BY DEF StripeRests, Stays, Unmoved
  <2>4. \/ stripe[s].nextPlan = p /\ stripe[s].end = owner.snap.end
        \/ stripe[s].nextPlan = "none" /\ stripe[s].plan = p /\ stripe[s].end = clock + Period
    BY <2>1, <2>2 DEF OwnerSchedules
  <2>5. stripe[s].end = clock + Period => ~MidPeriod(s)'
    BY <2>3, ClockFacts DEF MidPeriod
  <2>6. QED
    BY <2>1, <2>3, <2>4, <2>5 DEF Awaits
<1>3. QED
  BY <1>1, <1>2

LEMMA WritesPeriod ==
  ASSUME IInv, IInv', AnswerInv, DatesInv, OwnerSchedules, RowPeriod, RowIsNewest, RowIsNewest',
         FlightStep, OwnerWrites, flaws = {}, flaws' = {}, Ends' = Ends
  PROVE  RowPeriod' /\ Lowered
<1>0. PICK snap : snap = owner.snap
  OBVIOUS
<1>1. /\ owner.pc = "called" /\ owner' = NoRequest /\ UNCHANGED <<clock, stripe>>
      /\ applied' = NewestOf(applied, owner.ver) /\ ws' \in Written
      /\ Overtaken = {} /\ Older = {} /\ Behind = {}
  BY DEF OwnerWrites, Flawed
<1>2. /\ Sound(ws) /\ clock \in Nat /\ applied \in Nat /\ snap \in Answers(ws.trial.ends)
      /\ owner.ver \in Nat /\ applied <= owner.ver /\ owner.sub = Newest /\ snap.sub = Newest
      /\ owner.op = "schedule" => snap.plan = ws.row.plan /\ snap.end = ws.row.end
  <2>1. owner.op = "schedule" =>
          ~(<<ws.row.plan, ws.row.interval, ws.row.end>>
              # <<owner.snap.plan, owner.snap.interval, owner.snap.end>>)
    BY <1>1 DEF Behind
  <2>2. ~(owner.ver < applied) /\ owner.sub = Newest
    BY <1>1 DEF Overtaken, Older
  <2>3. QED
    BY <1>0, <1>1, <2>1, <2>2, RowKnown
       DEF IInv, OwnerInv, OwnerRecords, AnswerInv, OwnerCarries, Carries, Ends
<1>3. StripeRests /\ owner.ver <= applied'
  <2>1. Newest' = Newest /\ Stays
    BY <1>1, NoChangeShapes DEF Newest, Used
  <2>2. QED
    BY <1>1, <1>2, <2>1 DEF StripeRests, NewestOf
<1>4. Answer(owner) \in Flight /\ Answer(owner).snap = snap /\ Answer(owner).ver = owner.ver
  BY <1>0, <1>1 DEF Flight, Answer
<1>5. snap.status \in Paying => clock >= Ends
  BY <1>4 DEF DatesInv, FlightInv
<1>6. ASSUME Becomes(ws', ws, snap, clock) \/ Becomes(ws', ws, NoAnswer, clock),
             owner.op = "release" => ~Changes(ws'.row)
      PROVE  RowPeriod' /\ Lowered
  <2>1. PlansMove /\ Waits(ws', ws)
    BY <1>1, <1>2, <1>3, <1>4, <1>6, BecomesMoves
  <2>2. Plain(ws, clock)' /\ OwnerUpgrades' /\ NoneOlder' /\ Lowered
    BY <1>1, <1>3, <2>1, MovesPlans
  <2>3. /\ Pending'
        /\ ws'.row.pendingPlan \in PaidPlans => clock' >= Ends' /\ ws'.row.pendingAt # NoTime
    BY <1>0, <1>1, <1>2, <1>3, <1>6, <2>1, MovesPending
  <2>4. QED
    BY <2>2, <2>3 DEF RowPeriod, RowPlain
<1>7. CASE owner.op \in {"confirm", "retarget", "upgrade", "clear"}
  <2>1. PICK y \in Reconcile(ws, snap, clock) : ws' = y \/ ws' = FinalizeSubscriptionEnd(y, clock)
    BY <1>0, <1>1, <1>7 DEF Written
  <2>2. Sound(y) /\ Taken(y, ws, snap, clock)
    BY <1>2, <1>5, <2>1, ReconcileKept, ReconcileTaken DEF AllKept, Kept, Ends
  <2>3. Becomes(y, ws, snap, clock)
    BY <1>2, <2>2, TakenBecomes
  <2>4. Becomes(ws', ws, snap, clock)
    BY <2>1, <2>2, <2>3, FinalCloses, BecomesAfter
  <2>5. QED
    BY <1>6, <1>7, <2>4
<1>8. CASE owner.op \in {"cancel", "resume", "release"}
  <2>1. Alike(ws', ws)
    BY <1>1, <1>2, <1>8, CancellationAlike, ResumedAlike, ReleasedAlike DEF Written
  <2>2. owner.op = "release" => ~Changes(ws'.row)
    <3>1. CASE owner.op = "release"
      <4>1. ws' \in ClearPendingScheduledChange(ws)
        BY <1>1, <3>1 DEF Written
      <4>2. ws'.row.pendingPlan \in PaidPlans => ws.row.pendingAt # NoTime
        BY <2>1 DEF Alike, RowPeriod, RowPlain
      <4>3. QED
        BY <1>2, <4>1, <4>2, ReleasedAlike DEF Changes
    <3>2. QED
      BY <3>1
  <2>3. QED
    BY <1>6, <2>1, <2>2, AlikeBecomes
<1>9. CASE owner.op = "schedule"
  <2>1. ws' \in ScheduleBillingChange(ws, owner.plan, owner.interval)
    BY <1>1, <1>9 DEF Written
  <2>2. CASE ws' = ws
    BY <1>6, <1>9, <2>2, AlikeBecomes DEF Alike
  <2>3. CASE /\ ws'.plan = ws.plan /\ ws'.trial = ws.trial /\ ws'.row.plan = ws.row.plan
             /\ ws'.row.status = ws.row.status /\ ws'.row.sub = ws.row.sub
             /\ ws.row.status \in Live
             /\ ws'.row.pendingPlan = owner.plan /\ ws'.row.pendingAt = ws.row.end
             /\ ws.row.end # NoTime
    <3>1. PlansMove
      BY <2>3 DEF PlansMove, OnBusiness, Plain
    <3>2. Plain(ws, clock)' /\ OwnerUpgrades' /\ NoneOlder' /\ Lowered
      BY <1>1, <1>3, <3>1, MovesPlans
    <3>3. /\ Pending'
          /\ ws'.row.pendingPlan \in PaidPlans => clock' >= Ends' /\ ws'.row.pendingAt # NoTime
      BY <1>0, <1>1, <1>2, <1>3, <1>9, <2>3, WrittenPending DEF DatesInv
    <3>4. QED
      BY <3>2, <3>3 DEF RowPeriod, RowPlain
  <2>4. QED
    BY <1>2, <2>1, <2>2, <2>3, ScheduledChange
<1>10. owner.op \in Ops
  BY <1>1 DEF IInv, OwnerInv
<1>11. QED
  BY <1>7, <1>8, <1>9, <1>10 DEF Ops, WithTarget

(* What a request that dies leaves behind lowers nothing unless it is half *)
(* a downgrade.                                                            *)
LEMMA InterruptedPeriod ==
  ASSUME IInv, IInv', AnswerInv, DatesInv, RowPeriod, RowIsNewest, RowIsNewest',
         FlightStep, OwnerInterrupted, flaws = {}, flaws' = {}, Ends' = Ends
  PROVE  RowPeriod' /\ Lowered
<1>1. /\ owner.pc = "called" /\ owner' = NoRequest /\ UNCHANGED <<clock, stripe, applied>>
      /\ Torn = {} /\ {f \in {"half"} : ws'.plan # ws.plan} = {}
      /\ ws' = ws \/ ws' \in ReconciledInPart(ws, owner.snap)
  BY DEF OwnerInterrupted, Flawed
<1>2. /\ Sound(ws) /\ applied \in Nat /\ owner.snap \in Answers(ws.trial.ends)
      /\ owner.op \notin {"schedule", "release"} /\ ws'.plan = ws.plan
  BY <1>1, RowKnown DEF IInv, OwnerInv, Ends, Torn
<1>3. Alike(ws', ws)
  BY <1>1, <1>2, InPartAlike DEF Alike
<1>4. StripeRests
  BY <1>1, <1>2, NoChangeShapes DEF StripeRests, Newest, Used
<1>5. PlansMove /\ Waits(ws', ws)
  BY <1>1, <1>3, AlikeBecomes, BecomesMoves
<1>6. Plain(ws, clock)' /\ OwnerUpgrades' /\ NoneOlder' /\ Lowered
  BY <1>1, <1>4, <1>5, MovesPlans
<1>7. /\ Pending'
      /\ ws'.row.pendingPlan \in PaidPlans => clock' >= Ends' /\ ws'.row.pendingAt # NoTime
  BY <1>1, <1>2, <1>4, <1>5, MovesPending
<1>8. QED
  BY <1>6, <1>7 DEF RowPeriod, RowPlain

LEMMA TickPeriod ==
  ASSUME IInv, RowPeriod, Tick
  PROVE  RowPeriod' /\ Lowered
<1>1. /\ Flight = {} /\ clock' = clock + 1 /\ owner.pc = "idle" /\ clock \in Nat /\ Ends \in Nat
      /\ UNCHANGED <<ws, stripe, worker, event, owner>>
  BY NobodyFlies, RowKnown DEF Tick, NoRequests
<1>2. Flight' = {}
  BY <1>1 DEF Flight, Carriers, Answer
<1>3. RowPlain'
  BY <1>1 DEF RowPeriod, RowPlain, Plain, Ends
<1>4. Pending'
  BY <1>1, <1>2 DEF RowPeriod, Pending, Awaits, Calls
<1>5. QED
  BY <1>1, <1>2, <1>3, <1>4 DEF RowPeriod, OwnerUpgrades, NoneOlder, Lowered, KeepsPaidPlan

LEMMA StepPeriod ==
  ASSUME IInv, IInv', AnswerInv, DatesInv, GraceInv, GraceInv', PeriodInv, [Next]_vars
  PROVE  PeriodInv' /\ Lowered
<1>1. OwnerSchedules'
  BY StepSchedules DEF PeriodInv
<1>2. flaws' = {} => flaws = {}
  BY DEF Next, vars, Stripe, Subscribe, PeriodEnds, RetrySucceeds, GivesUp, StripeKeeps, Owner,
         OwnerReads, OwnerCalls, OwnerRefused, OwnerWrites, OwnerInterrupted, Tick, Platform,
         SendPaymentWarnings, ExpireTrial, Block, BlockFails, Unblock, UnblockFails, Webhook,
         Claim, Take, Retrieve, RetrieveFails, Apply, ApplyRolledBack, MarkProcessed, MarkFailed,
         Crash, Release, AnswerInProgress, Settle, Flawed
<1>3. SUFFICES ASSUME flaws = {}, flaws' = {}, RowPeriod, ~Tick
               PROVE  RowPeriod' /\ Lowered
  BY <1>1, <1>2, TickPeriod DEF PeriodInv, Lowered, KeepsPaidPlan
<1>4. /\ Flows /\ FlightStep /\ Shapes /\ Ends' = Ends /\ clock' = clock
      /\ RowIsNewest /\ RowIsNewest' /\ OwnerSchedules
  BY <1>3, StepFlows, StepShapes, ClockStays DEF Flows, DatesInv, GraceInv, PeriodInv
<1>5. ASSUME UNCHANGED <<ws, applied>>,
             \/ UNCHANGED owner \/ OwnerReads \/ OwnerCalls
             \/ owner.pc = "read" /\ owner' = NoRequest
      PROVE  RowPeriod' /\ Lowered
  <2>1. Plain(ws', clock)
    BY <1>3, <1>5 DEF RowPeriod, RowPlain
  <2>2. RowPeriod'
    BY <1>3, <1>4, <1>5, <2>1, RestsPeriod
  <2>3. QED
    BY <1>5, <2>2 DEF Lowered, KeepsPaidPlan
<1>6. CASE Stripe
  BY <1>5, <1>6 DEF Stripe, Subscribe, PeriodEnds, RetrySucceeds, GivesUp, StripeKeeps
<1>7. CASE Owner
  BY <1>3, <1>4, <1>5, <1>7, WritesPeriod, InterruptedPeriod
     DEF Owner, OwnerReads, OwnerCalls, OwnerRefused
<1>8. CASE ExpireTrial
  <2>1. ws'.row = ws.row /\ UNCHANGED <<owner, applied>>
        /\ (ws.row.status \in Paying => ws'.plan = ws.row.plan)
        /\ ws'.trial.ends = ws.trial.ends
    BY <1>8, RowKnown, ExpiryPlans DEF ExpireTrial
  <2>2. Plain(ws', clock) /\ (ws.row.status \in Paying => ws'.plan = ws.plan)
    BY <1>3, <2>1 DEF RowPeriod, RowPlain, Plain
  <2>3. RowPeriod'
    BY <1>3, <1>4, <2>1, <2>2, RestsPeriod
  <2>4. QED
    BY <2>2, <2>3 DEF Lowered, KeepsPaidPlan
<1>9. ASSUME PlansMove, Waits(ws', ws), UNCHANGED owner, applied' \in Nat, applied <= applied',
             Stays, ~Subscribe
      PROVE  RowPeriod' /\ Lowered
  <2>1. StripeRests
    BY <1>3, <1>4, <1>9 DEF StripeRests, Flows
  <2>2. Plain(ws, clock)' /\ OwnerUpgrades' /\ NoneOlder' /\ Lowered
    BY <1>3, <1>4, <1>9, <2>1, MovesPlans
  <2>3. /\ Pending'
        /\ ws'.row.pendingPlan \in PaidPlans => clock' >= Ends' /\ ws'.row.pendingAt # NoTime
    BY <1>3, <1>4, <1>9, <2>1, MovesPending
  <2>4. QED
    BY <2>2, <2>3 DEF RowPeriod, RowPlain
<1>10. CASE SendPaymentWarnings \/ Block \/ Unblock
  <2>1. Stays
    BY <1>10, PlatformShapes DEF Platform
  <2>2. QED
    BY <1>6, <1>9, <1>10, <2>1, PlatformPeriod DEF Stripe
<1>11. ASSUME NEW w \in Workers, Webhook(w) PROVE RowPeriod' /\ Lowered
  <2>1. CASE ~Apply(w) /\ ~ApplyRolledBack(w)
    BY <1>5, <1>11, <2>1
       DEF Webhook, Claim, Take, Retrieve, RetrieveFails, MarkProcessed, MarkFailed, Crash, Release
  <2>2. CASE Apply(w)
    <3>1. Stays /\ UNCHANGED owner
      BY <2>2, ApplyShapes DEF Apply
    <3>2. QED
      BY <1>3, <1>5, <1>6, <1>9, <2>2, <3>1, ApplyPeriod DEF Stripe
  <2>3. CASE ApplyRolledBack(w)
    BY <1>5, <2>3, RolledBackShapes
  <2>4. QED
    BY <2>1, <2>2, <2>3
<1>12. ASSUME NEW e \in Events, AnswerInProgress(e) PROVE RowPeriod' /\ Lowered
  BY <1>5, <1>12 DEF AnswerInProgress
<1>13. CASE UNCHANGED vars
  BY <1>5, <1>13 DEF vars
<1>14. CASE BlockFails \/ UnblockFails
  BY <1>5, <1>14 DEF BlockFails, UnblockFails
<1>15. QED
  BY <1>3, <1>6, <1>7, <1>8, <1>10, <1>11, <1>12, <1>13, <1>14 DEF Next, Platform

LEMMA InitPeriod ==
  ASSUME Init
  PROVE  PeriodInv
<1>1. ws.row = NoRow /\ owner = NoRequest /\ \A w \in Workers : worker[w].pc = "idle"
  BY DEF Init, Idle
<1>2. Flight = {}
  BY <1>1 DEF Flight, Carriers, NoRequest
<1>3. QED
  BY <1>1, <1>2 DEF PeriodInv, OwnerSchedules, RowPeriod, RowPlain, Plain, OwnerUpgrades,
                    NoneOlder, Pending, Changes, NoRow, NoRequest, Live, Paying, PaidPlans

(* While no flaw has occurred, no step takes a paid workspace from         *)
(* Business to Plus in the middle of the period it has paid for, unless    *)
(* the subscription is on Plus at Stripe already: neither a date that      *)
(* comes (apply_due_transitions), nor an answer taken in by a webhook or a *)
(* request (reconcile_subscription_snapshot), nor an administrator.        *)
THEOREM DowngradesAwaitPeriod == Spec => DowngradeAwaitsPeriod
<1> DEFINE Inv == FlowInv /\ GraceInv /\ DatesInv /\ PeriodInv
<1>1. IInv /\ IInv' /\ Inv /\ [Next]_vars => Inv'
  BY StepFlow, StepGrace, StepDates, StepPeriod DEF FlowInv
<1>2. IInv /\ IInv' /\ Inv /\ [Next]_vars =>
        [flaws' = {} => KeepsPaidPlan]_vars
  BY StepPeriod, StepGrace DEF FlowInv, Lowered
<1>3. QED
  BY <1>1, <1>2, InitFlow, InitGrace, InitDates, InitPeriod, Invariance, PTL
     DEF Spec, DowngradeAwaitsPeriod
=============================================================================
