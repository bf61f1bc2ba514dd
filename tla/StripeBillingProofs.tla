------------------------ MODULE StripeBillingProofs -------------------------
(***************************************************************************)
(* Theorems about StripeBilling, for every number of subscriptions,        *)
(* events, workers, intervals and every length of the free week, the       *)
(* period and the grace: types, one dispatcher for each event, and the     *)
(* plan that follows the row.                                              *)
(*                                                                         *)
(* The argument: every snapshot in flight was an answer of Stripe about a  *)
(* subscription that ends no sooner than the free week does (Answers), so  *)
(* that each handler, whenever it runs and whatever it read before, only   *)
(* composes the transitions BillingRulesProofs shows to keep a workspace   *)
(* sound.                                                                  *)
(***************************************************************************)
EXTENDS StripeBilling, BillingRulesProofs, WellFoundedInduction

Ends == ws.trial.ends

SubscriptionRecords ==
  [status : Live \cup {"none", "canceled"}, plan : PaidPlans,
   interval : Intervals \cup {"none"}, cancel : BOOLEAN,
   end : Times, trialEnd : Times,
   nextPlan : PaidPlans \cup {"none"}, nextInterval : Intervals \cup {"none"}]

(* What a subscription at Stripe may be for a free week that ends at e.    *)
Subscriptions(e) ==
  {r \in SubscriptionRecords :
     /\ r.status # "none" =>
          /\ r.interval \in Intervals /\ r.end >= e
          /\ r.status = "trialing" => r.trialEnd = e /\ e # NoTime
     /\ r.nextPlan # "none" => r.nextInterval \in Intervals}

Slots ==
  [kind : {"none", "checkout", "paid", "failed", "subscription"},
   sub : Subs \cup {NoSub}, status : {"free", "received", "processing"},
   due : BOOLEAN]

WorkerRecords ==
  [pc : {"idle", "claimed", "ready", "raised", "applied"},
   event : Events \cup {NoEvent}, snap : Snapshots \cup {NoSnapshot}, ver : Nat]

OwnerRecords ==
  [pc : {"idle", "read", "called"}, op : Ops \cup {"none"},
   sub : Subs \cup {NoSub}, deferred : BOOLEAN,
   plan : PaidPlans \cup {"none"}, interval : Intervals \cup {"none"},
   snap : Snapshots \cup {NoSnapshot}, ver : Nat]

Exists(s) == s \in Subs /\ stripe[s].status # "none"

CountInv ==
  /\ clock \in 1 .. MaxClock /\ blocked \in BOOLEAN
  /\ version \in 0 .. MaxChanges /\ applied \in 0 .. version

RowInv ==
  /\ Sound(ws)
  /\ ws.trial.expired => clock >= Ends
  /\ "half" \notin flaws => Follows(ws)

StripeInv == stripe \in [Subs -> Subscriptions(Ends)]

EventInv ==
  /\ event \in [Events -> Slots]
  /\ \A e \in Events : event[e].status # "free" => Exists(event[e].sub)

(* A worker that is not idle holds an event nobody else holds, and what it *)
(* is about to apply is an answer of Stripe.                               *)
WorkerInv ==
  /\ worker \in [Workers -> WorkerRecords]
  /\ \A w \in Workers :
       /\ worker[w].pc = "idle" => worker[w].event = NoEvent
       /\ worker[w].pc # "idle" =>
            worker[w].event \in Events /\ event[worker[w].event].status = "processing"
       /\ worker[w].pc = "ready" /\ event[worker[w].event].kind # "failed" =>
            worker[w].snap \in Answers(Ends)
       /\ worker[w].ver <= version
  /\ \A v, w \in Workers :
       v # w /\ worker[v].pc # "idle" => worker[v].event # worker[w].event

OwnerInv ==
  /\ owner \in OwnerRecords
  /\ owner.pc # "idle" => owner.op \in Ops
  /\ owner.op \in WithTarget => owner.plan \in PaidPlans /\ owner.interval \in Intervals
  /\ owner.op = "confirm" => Exists(owner.sub)
  /\ owner.pc = "called" => owner.snap \in Answers(Ends)
  /\ owner.ver <= version

IInv ==
  CountInv /\ RowInv /\ StripeInv /\ EventInv /\ WorkerInv /\ OwnerInv
-----------------------------------------------------------------------------
LEMMA Constants ==
  /\ NoSub \notin Subs /\ NoTime \in Times /\ Times \subseteq Nat
  /\ TrialEnds \in Times /\ TrialEnds \in Nat \ {0} /\ "none" \notin Intervals
  /\ Period \in Nat /\ MaxClock \in Nat /\ MaxChanges \in Nat
  /\ \A c \in 0 .. MaxClock : c + Period \in Times
BY BillingAssumption, StripeAssumption DEF NoSub, NoTime

(* A subscription that exists is answered for.                             *)
LEMMA SnapshotAnswers ==
  ASSUME NEW e \in Nat, NEW s \in Subs, NEW r \in Subscriptions(e), r.status # "none"
  PROVE  SnapshotOf(s, r) \in Answers(e)
<1> DEFINE t == SnapshotOf(s, r)
<1>1. /\ t \in Snapshots /\ t.status = r.status /\ t.end = r.end
      /\ t.trialEnd = r.trialEnd
  BY DEF SnapshotOf, Snapshots, Subscriptions, SubscriptionRecords
<1>2. /\ r.end >= e
      /\ r.status = "trialing" => r.trialEnd = e /\ e # NoTime
  BY DEF Subscriptions
<1> HIDE DEF t
<1>3. t \in Answers(e)
  BY <1>1, <1>2 DEF Answers
<1>4. QED
  BY <1>3 DEF t

LEMMA ExistsAnswers ==
  ASSUME IInv, NEW s, Exists(s)
  PROVE  Snapshot(s) \in Answers(Ends)
BY SnapshotAnswers, Known DEF IInv, RowInv, StripeInv, Exists, Snapshot, Ends

LEMMA LiveExists ==
  ASSUME IInv, NEW s \in Subs \cup {NoSub}, s # NoSub, IsLive(s)
  PROVE  Exists(s)
BY DEF IsLive, Exists, Live

(* There is a newest subscription when there is one at all.                *)
LEMMA NewestIsLast ==
  ASSUME Used # {}
  PROVE  Newest \in Used /\ Newest # NoSub /\ \A t \in Used : t <= Newest
<1>1. PICK n \in Nat : Subs = 1 .. n
  BY BillingAssumption
<1>2. Used # {} /\ Used \subseteq 1 .. n
  BY <1>1 DEF Used
<1> DEFINE T == {n - t : t \in Used}
<1>3. T \subseteq Nat /\ T # {}
  <2>1. ASSUME NEW t \in Used PROVE n - t \in Nat
    <3>1. t \in 1 .. n
      BY <1>2
    <3>2. QED
      BY <3>1
  <2>2. QED
    BY <1>2, <2>1, Zenon
<1>4. PICK m \in T : \A y \in T : ~ (<<y, m>> \in OpToRel(<, Nat))
  BY <1>3, NatLessThanWellFounded, WFMin, Zenon
<1>5. PICK s \in Used : m = n - s
  BY <1>4
<1>6. ASSUME NEW t \in Used PROVE t <= s
  <2>1. n - t \in T /\ n - t \in Nat /\ m \in Nat
    BY <1>3, <1>4
  <2>2. ~ (n - t < m)
    BY <1>4, <2>1 DEF OpToRel
  <2>3. t \in Int /\ s \in Int
    BY <1>2
  <2>4. QED
    BY <1>5, <2>2, <2>3
<1>7. Newest \in Used /\ \A t \in Used : t <= Newest
  BY <1>2, <1>6 DEF Newest
<1>8. QED
  BY <1>2, <1>7 DEF NoSub

LEMMA NewestUsed ==
  ASSUME Newest # NoSub
  PROVE  Newest \in Used
BY NewestIsLast DEF Newest
-----------------------------------------------------------------------------
(* What a step that leaves workers alone may do beside them.               *)
StatusesStay ==
  \A s \in Subs : stripe[s].status # "none" => stripe'[s].status # "none"

HeldStay ==
  \A e \in Events :
    event[e].status = "processing" =>
      event'[e].status = "processing" /\ event'[e].kind = event[e].kind

(* What a change at Stripe, or none, keeps.                                *)
Steady ==
  /\ StripeInv' /\ EventInv' /\ StatusesStay
  /\ version' \in version .. MaxChanges
  /\ HeldStay

LEMMA NoChangeSteady ==
  ASSUME IInv, NoChange, Ends' = Ends
  PROVE  Steady
BY DEF IInv, CountInv, NoChange, Steady, StripeInv, EventInv, StatusesStay, HeldStay, Exists

LEMMA ChangeSteady ==
  ASSUME IInv, NEW s \in Subs, NEW sub \in Subscriptions(Ends), sub.status # "none",
         NEW kinds \in SUBSET {"checkout", "paid", "failed", "subscription"},
         Change(s, sub, kinds), Ends' = Ends
  PROVE  Steady
<1>1. version' \in version .. MaxChanges
  BY StripeAssumption DEF IInv, CountInv, Change
<1>2. stripe' = [stripe EXCEPT ![s] = sub] /\ stripe \in [Subs -> Subscriptions(Ends)]
  BY DEF Change, IInv, StripeInv
<1>3. StripeInv'
  <2>1. stripe' \in [Subs -> Subscriptions(Ends)]
    BY <1>2
  <2>2. QED
    BY <2>1 DEF StripeInv
<1>4. StatusesStay /\ Exists(s)'
  BY <1>2 DEF StatusesStay, Exists
<1>5. PICK slot \in [kinds -> Events] :
        /\ \A k \in kinds : event[slot[k]].status = "free"
        /\ \A j, k \in kinds : slot[j] = slot[k] => j = k
        /\ event' = [e \in Events |->
             IF \E k \in kinds : slot[k] = e
             THEN [kind |-> CHOOSE k \in kinds : slot[k] = e, sub |-> s,
                   status |-> "received", due |-> TRUE]
             ELSE event[e]]
  BY DEF Change
<1>6. ASSUME NEW e \in Events
      PROVE  /\ event'[e] \in Slots
             /\ event'[e].status # "free" => Exists(event[e].sub)'
             /\ event[e].status = "processing" => event'[e] = event[e]
  <2>1. CASE \E k \in kinds : slot[k] = e
    <3>1. PICK k \in kinds : event'[e] = [kind |-> k, sub |-> s,
                                          status |-> "received", due |-> TRUE]
                             /\ slot[k] = e
      BY <1>5, <2>1
    <3>2. event[e].status = "free"
      BY <1>5, <3>1
    <3>3. event'[e] \in Slots /\ event'[e].sub = s
      <4>1. k \in {"none", "checkout", "paid", "failed", "subscription"}
        OBVIOUS
      <4>2. s \in Subs \cup {NoSub}
        OBVIOUS
      <4>3. QED
        BY <3>1, <4>1, <4>2 DEF Slots
    <3>4. QED
      BY <1>4, <3>2, <3>3 DEF Exists
  <2>2. CASE ~ \E k \in kinds : slot[k] = e
    <3>1. event'[e] = event[e]
      BY <1>5, <2>2
    <3>2. event[e] \in Slots /\ (event[e].status # "free" => Exists(event[e].sub))
      BY DEF IInv, EventInv
    <3>3. QED
      BY <1>4, <3>1, <3>2 DEF StatusesStay, Exists
  <2>3. QED
    BY <2>1, <2>2
<1>7. event' \in [Events -> Slots]
  BY <1>5, <1>6
<1>8. EventInv' /\ HeldStay
  BY <1>6, <1>7 DEF EventInv, HeldStay, Exists
<1>9. QED
  BY <1>1, <1>3, <1>4, <1>8 DEF Steady

LEMMA OwnerStays ==
  ASSUME IInv, Steady, Ends' = Ends, UNCHANGED owner
  PROVE  OwnerInv'
<1>1. version \in Nat /\ version' \in Nat /\ version <= version' /\ owner.ver \in Nat
  BY DEF IInv, CountInv, Steady, OwnerInv, OwnerRecords
<1>2. QED
  BY <1>1 DEF IInv, Steady, OwnerInv, StatusesStay, Exists

LEMMA WorkersStay ==
  ASSUME IInv, Steady, Ends' = Ends, UNCHANGED worker
  PROVE  WorkerInv'
<1>1. version \in Nat /\ version' \in Nat /\ version <= version'
      /\ \A w \in Workers : worker[w].ver \in Nat
  BY DEF IInv, CountInv, Steady, WorkerInv, WorkerRecords
<1>2. QED
  BY <1>1 DEF IInv, Steady, WorkerInv, HeldStay

(* A step that neither a worker nor the owner takes.                       *)
LEMMA OthersStep ==
  ASSUME IInv, Steady, RowInv', Ends' = Ends, UNCHANGED <<worker, owner>>,
         clock' \in 1 .. MaxClock, blocked' \in BOOLEAN, applied' \in 0 .. version'
  PROVE  IInv'
<1>1. CountInv'
  BY DEF CountInv, IInv, Steady
<1>2. QED
  BY <1>1, OwnerStays, WorkersStay DEF IInv, Steady

(* A transition of the workspace.                                          *)
LEMMA RowStep ==
  ASSUME IInv, Kept(ws', ws), clock' = clock,
         "half" \in flaws => "half" \in flaws'
  PROVE  RowInv' /\ Ends' = Ends
BY DEF IInv, RowInv, Kept, Ends

LEMMA RowStays ==
  ASSUME IInv, UNCHANGED ws, clock' \in clock .. MaxClock,
         "half" \in flaws => "half" \in flaws'
  PROVE  RowInv' /\ Ends' = Ends
<1>1. Ends \in Nat /\ clock \in Nat
  BY Known DEF IInv, RowInv, CountInv, Ends
<1>2. QED
  BY <1>1 DEF IInv, RowInv, Ends
-----------------------------------------------------------------------------
(* Stripe by itself.                                                       *)
LEMMA StripeStep ==
  ASSUME IInv, StripeKeeps, Steady
  PROVE  IInv'
<1>1. clock' = clock /\ clock \in 1 .. MaxClock /\ version \in Nat
      /\ version' \in Nat /\ version <= version' /\ applied \in 0 .. version
  BY DEF IInv, CountInv, StripeKeeps, Steady
<1>2. clock' \in clock .. MaxClock
  BY <1>1
<1>3. RowInv' /\ Ends' = Ends
  BY <1>2, RowStays DEF StripeKeeps
<1>4. clock' \in 1 .. MaxClock /\ blocked' \in BOOLEAN /\ applied' \in 0 .. version'
  BY <1>1 DEF IInv, CountInv, StripeKeeps
<1>5. QED
  BY <1>3, <1>4, OthersStep DEF StripeKeeps

LEMMA StripeChange ==
  ASSUME IInv, NEW s \in Subs, NEW sub \in Subscriptions(Ends), sub.status # "none",
         NEW kinds \in SUBSET {"checkout", "paid", "failed", "subscription"},
         Change(s, sub, kinds), StripeKeeps
  PROVE  IInv'
BY ChangeSteady, StripeStep DEF StripeKeeps, Ends

(* A subscription bought after the free week ends after it, one bought     *)
(* during it when it does.                                                 *)
LEMMA SubscribeStep ==
  ASSUME IInv, Subscribe
  PROVE  IInv'
<1>1. PICK s \in Subs, p \in PaidPlans, i \in Intervals :
        LET waits == TrialActive(ws, clock)
            end == IF waits THEN Ends ELSE clock + Period IN
        Change(s, [NoSubscription EXCEPT
                     !.status = IF waits THEN "trialing" ELSE "active",
                     !.plan = p, !.interval = i, !.end = end,
                     !.trialEnd = IF waits THEN end ELSE NoTime],
               {"checkout"})
  BY DEF Subscribe, Ends
<1> DEFINE waits == TrialActive(ws, clock)
           end == IF waits THEN Ends ELSE clock + Period
           sub == [NoSubscription EXCEPT
                     !.status = IF waits THEN "trialing" ELSE "active",
                     !.plan = p, !.interval = i, !.end = end,
                     !.trialEnd = IF waits THEN end ELSE NoTime]
<1>2. Ends \in Nat /\ Ends \in Times /\ clock \in 0 .. MaxClock /\ clock \in Nat
  BY Known DEF IInv, RowInv, CountInv, Ends
<1>3. clock + Period \in Times /\ NoTime \in Times /\ Period \in Nat
  BY <1>2, Constants
<1>4. ~waits => clock >= Ends
  BY <1>2 DEF TrialActive, IInv, RowInv, Ends, NoTime
<1>5. waits => Ends # NoTime
  BY DEF TrialActive, Ends
<1>6. end \in Times /\ end >= Ends
  BY <1>2, <1>3, <1>4
<1>7. Change(s, sub, {"checkout"})
  BY <1>1
<1> HIDE DEF waits
<1>8. sub \in Subscriptions(Ends) /\ sub.status # "none"
  <2>1. waits => end = Ends
    OBVIOUS
  <2> HIDE DEF end
  <2>2. QED
    BY <1>3, <1>5, <1>6, <2>1
       DEF Subscriptions, SubscriptionRecords, NoSubscription, PaidPlans, Live
<1> HIDE DEF sub
<1>9. QED
  BY <1>7, <1>8, StripeChange DEF Subscribe

(* What is known of a subscription at Stripe.                              *)
LEMMA AtStripe ==
  ASSUME IInv, NEW s \in Subs
  PROVE  /\ stripe[s] \in Subscriptions(Ends) /\ stripe[s] \in SubscriptionRecords
         /\ stripe[s].end \in Nat /\ Ends \in Nat
BY Known, BillingAssumption
   DEF IInv, RowInv, StripeInv, Subscriptions, SubscriptionRecords, Ends

LEMMA Restated ==
  ASSUME IInv, NEW s \in Subs, NEW status \in Live \cup {"canceled"},
         stripe[s].status \notin {"none", "canceled"},
         status = "trialing" => stripe[s].status = "trialing"
  PROVE  /\ [stripe[s] EXCEPT !.status = status] \in Subscriptions(Ends)
         /\ [stripe[s] EXCEPT !.status = status].status # "none"
<1>1. stripe[s] \in Subscriptions(Ends)
  BY AtStripe
<1>2. QED
  BY <1>1 DEF Subscriptions, SubscriptionRecords, Live

LEMMA RenewedFits ==
  ASSUME IInv, NEW s \in Subs, PeriodOver(s), NEW status \in {"active", "past_due"}
  PROVE  /\ Renewed(stripe[s], status) \in Subscriptions(Ends)
         /\ Renewed(stripe[s], status).status # "none"
<1> DEFINE r == stripe[s]
<1>1. r \in Subscriptions(Ends) /\ r \in SubscriptionRecords /\ r.end \in Nat
      /\ Ends \in Nat
  BY AtStripe
<1>2. r.status # "none" /\ r.end <= clock /\ clock \in 1 .. MaxClock
  BY DEF PeriodOver, IInv, CountInv
<1>3. r.end + Period \in Times /\ r.end + Period >= Ends
  <2>1. r.end >= Ends
    BY <1>1, <1>2 DEF Subscriptions
  <2> HIDE DEF r
  <2>3. r.end \in 0 .. MaxClock
    BY <1>1, <1>2, StripeAssumption
  <2>2. QED
    BY <1>1, <2>1, <2>3, Constants
<1> HIDE DEF r
<1>4. Renewed(r, status) \in Subscriptions(Ends) /\ Renewed(r, status).status # "none"
  BY ZenonT(60), <1>1, <1>2, <1>3 DEF Renewed, Subscriptions, SubscriptionRecords, Live
<1>5. QED
  BY <1>4 DEF r

LEMMA PeriodEndsStep ==
  ASSUME IInv, PeriodEnds
  PROVE  IInv'
<1>1. PICK s \in Subs :
        /\ PeriodOver(s)
        /\ \/ Change(s, [stripe[s] EXCEPT !.status = "canceled"], {"subscription"})
           \/ Change(s, Renewed(stripe[s], "active"), {"paid", "subscription"})
           \/ Change(s, Renewed(stripe[s], "past_due"), {"failed", "subscription"})
  BY DEF PeriodEnds
<1>2. StripeKeeps
  BY DEF PeriodEnds
<1>3. CASE Change(s, [stripe[s] EXCEPT !.status = "canceled"], {"subscription"})
  BY <1>1, <1>2, <1>3, Restated, StripeChange DEF PeriodOver
<1>4. CASE Change(s, Renewed(stripe[s], "active"), {"paid", "subscription"})
  BY <1>1, <1>2, <1>4, RenewedFits, StripeChange
<1>5. CASE Change(s, Renewed(stripe[s], "past_due"), {"failed", "subscription"})
  BY <1>1, <1>2, <1>5, RenewedFits, StripeChange
<1>6. QED
  BY <1>1, <1>3, <1>4, <1>5

LEMMA PastDueStep ==
  ASSUME IInv, RetrySucceeds \/ GivesUp
  PROVE  IInv'
<1>1. CASE RetrySucceeds
  <2>1. PICK s \in Subs :
          /\ stripe[s].status = "past_due"
          /\ Change(s, [stripe[s] EXCEPT !.status = "active"], {"paid", "subscription"})
    BY <1>1 DEF RetrySucceeds
  <2>2. QED
    BY <1>1, <2>1, Restated, StripeChange DEF RetrySucceeds, Live
<1>2. CASE GivesUp
  <2>1. PICK s \in Subs :
          /\ stripe[s].status = "past_due"
          /\ Change(s, [stripe[s] EXCEPT !.status = "canceled"], {"subscription"})
    BY <1>2 DEF GivesUp
  <2>2. QED
    BY <1>2, <2>1, Restated, StripeChange DEF GivesUp, Live
<1>3. QED
  BY <1>1, <1>2

LEMMA TickStep ==
  ASSUME IInv, Tick
  PROVE  IInv'
<1>1. clock \in 1 .. MaxClock /\ clock' \in clock .. MaxClock
      /\ clock' \in 1 .. MaxClock
  BY StripeAssumption DEF IInv, CountInv, Tick
<1>2. RowInv' /\ Ends' = Ends
  BY <1>1, RowStays DEF Tick
<1>3. Steady
  BY <1>2, NoChangeSteady DEF Tick, NoChange
<1>4. QED
  BY <1>1, <1>2, <1>3, OthersStep DEF Tick, IInv, CountInv
-----------------------------------------------------------------------------
(* Webhooks.  One worker moves on; the events of the others are left alone.*)
LEMMA WorkerTurn ==
  ASSUME IInv, Ends' = Ends, version \in Nat, version' \in Nat, version <= version',
         NEW w \in Workers, NEW r \in WorkerRecords,
         worker' = [worker EXCEPT ![w] = r],
         r.pc = "idle" => r.event = NoEvent,
         r.pc # "idle" =>
           /\ r.event \in Events /\ event'[r.event].status = "processing"
           /\ \A v \in Workers \ {w} : worker[v].event # r.event,
         r.pc = "ready" /\ event'[r.event].kind # "failed" => r.snap \in Answers(Ends),
         r.ver <= version',
         \A v \in Workers \ {w} : worker[v].pc # "idle" =>
           /\ event'[worker[v].event].status = "processing"
           /\ event'[worker[v].event].kind = event[worker[v].event].kind
  PROVE  WorkerInv'
<1>1. worker \in [Workers -> WorkerRecords] /\ NoEvent \notin Events
  BY StripeAssumption DEF IInv, WorkerInv
<1>2. /\ worker' \in [Workers -> WorkerRecords] /\ worker'[w] = r
      /\ \A v \in Workers \ {w} : worker'[v] = worker[v]
  BY <1>1
<1>3. ASSUME NEW v \in Workers
      PROVE  /\ worker'[v].pc = "idle" => worker'[v].event = NoEvent
             /\ worker'[v].pc # "idle" =>
                  /\ worker'[v].event \in Events
                  /\ event'[worker'[v].event].status = "processing"
             /\ worker'[v].pc = "ready" /\ event'[worker'[v].event].kind # "failed" =>
                  worker'[v].snap \in Answers(Ends)
             /\ worker'[v].ver <= version'
  <2>1. CASE v = w
    BY <1>2, <2>1
  <2>2. CASE v # w
    <3>1. worker'[v] = worker[v] /\ worker[v].ver \in Nat
      BY <1>1, <1>2, <2>2 DEF WorkerRecords
    <3>2. QED
      BY <2>2, <3>1 DEF IInv, WorkerInv
  <2>3. QED
    BY <2>1, <2>2
<1>4. ASSUME NEW u \in Workers, NEW v \in Workers, u # v, worker'[u].pc # "idle"
      PROVE  worker'[u].event # worker'[v].event
  <2>1. CASE u = w
    BY <1>2, <1>4, <2>1
  <2>2. CASE v = w
    <3>1. worker'[u] = worker[u] /\ worker[u].pc # "idle" /\ worker[u].event \in Events
      BY <1>2, <1>4, <2>2 DEF IInv, WorkerInv
    <3>2. QED
      BY <1>1, <1>2, <1>4, <2>2, <3>1
  <2>3. CASE u # w /\ v # w
    BY <1>2, <1>4, <2>3 DEF IInv, WorkerInv
  <2>4. QED
    BY <2>1, <2>2, <2>3
<1>5. Answers(Ends)' = Answers(Ends)
  BY DEF Answers
<1>6. QED
  BY <1>2, <1>3, <1>4, <1>5 DEF WorkerInv

(* What is known of the worker that moves.                                 *)
LEMMA Holds ==
  ASSUME IInv, NEW w \in Workers, worker[w].pc # "idle"
  PROVE  /\ worker[w] \in WorkerRecords /\ worker[w].event \in Events
         /\ event[worker[w].event].status = "processing"
         /\ event[worker[w].event] \in Slots
         /\ Exists(event[worker[w].event].sub)
         /\ worker[w].ver \in Nat /\ worker[w].ver <= version
         /\ version \in Nat /\ version \in 0 .. MaxChanges
         /\ \A v \in Workers \ {w} : worker[v].event # worker[w].event
<1>1. worker[w] \in WorkerRecords /\ worker[w].event \in Events
      /\ event[worker[w].event].status = "processing"
      /\ worker[w].ver <= version /\ version \in Nat /\ version \in 0 .. MaxChanges
  BY DEF IInv, WorkerInv, CountInv
<1>2. event[worker[w].event] \in Slots /\ Exists(event[worker[w].event].sub)
  BY <1>1 DEF IInv, EventInv
<1>3. worker[w].ver \in Nat
  BY <1>1 DEF WorkerRecords
<1>4. QED
  BY <1>1, <1>2, <1>3 DEF IInv, WorkerInv

LEMMA WorkerStep ==
  ASSUME IInv, Steady, RowInv', Ends' = Ends, WorkerInv', UNCHANGED owner,
         clock' \in 1 .. MaxClock, blocked' \in BOOLEAN, applied' \in 0 .. version'
  PROVE  IInv'
<1>1. CountInv'
  BY DEF CountInv, IInv, Steady
<1>2. QED
  BY <1>1, OwnerStays DEF IInv, Steady

(* An event handled alone: nothing but its slot changes.                   *)
LEMMA SlotStep ==
  ASSUME IInv, UNCHANGED <<clock, ws, blocked, stripe, version, owner, applied>>,
         "half" \in flaws => "half" \in flaws',
         NEW e \in Events, NEW slot \in Slots,
         event' = [event EXCEPT ![e] = slot],
         slot.status # "free" => slot.sub = event[e].sub /\ event[e].status # "free"
  PROVE  /\ RowInv' /\ Ends' = Ends /\ StripeInv' /\ EventInv' /\ CountInv'
         /\ OwnerInv'
<1>1. clock' \in clock .. MaxClock
  BY DEF IInv, CountInv
<1>2. RowInv' /\ Ends' = Ends
  BY <1>1, RowStays
<1>3. event' \in [Events -> Slots]
  BY DEF IInv, EventInv
<1>4. ASSUME NEW x \in Events, event'[x].status # "free"
      PROVE  Exists(event'[x].sub)
  BY <1>4 DEF IInv, EventInv
<1>5. EventInv'
  BY <1>3, <1>4 DEF EventInv, Exists
<1>6. QED
  BY <1>2, <1>5 DEF IInv, StripeInv, CountInv, OwnerInv, Exists

LEMMA ClaimStep ==
  ASSUME IInv, NEW w \in Workers, Claim(w)
  PROVE  IInv'
<1>1. PICK e \in Events :
        worker[w].pc = "idle" /\ event[e].due /\ Claimable(e) /\ Take(w, e)
  BY DEF Claim
<1> DEFINE to  == IF event[e].kind = "failed" THEN "ready" ELSE "claimed"
           ver == IF event[e].kind = "failed" THEN version ELSE 0
           r == [Idle EXCEPT !.pc = to, !.event = e, !.ver = ver]
           slot == [event[e] EXCEPT !.status = "processing"]
<1>2. /\ event' = [event EXCEPT ![e] = slot]
      /\ worker' = [worker EXCEPT ![w] = r]
      /\ UNCHANGED <<clock, ws, blocked, stripe, version, owner, applied, flaws>>
  BY <1>1 DEF Take
<1>3. event \in [Events -> Slots] /\ event[e] \in Slots /\ event[e].status # "free"
      /\ version \in Nat
  BY <1>1 DEF IInv, EventInv, CountInv, Claimable
<1>4. /\ slot \in Slots /\ slot.status = "processing" /\ slot.sub = event[e].sub
      /\ slot.kind = event[e].kind
  BY <1>3 DEF Slots
<1>5. /\ r \in WorkerRecords /\ r.event = e /\ r.ver <= version
      /\ r.pc \in {"ready", "claimed"}
      /\ r.pc = "ready" => event[e].kind = "failed"
  <2>1. to \in {"ready", "claimed"} /\ ver \in Nat /\ ver <= version
        /\ (to = "ready" => event[e].kind = "failed")
    BY <1>3
  <2> HIDE DEF to, ver
  <2>2. Idle \in WorkerRecords
    BY DEF Idle, WorkerRecords
  <2>3. QED
    BY <2>1, <2>2 DEF WorkerRecords
<1> HIDE DEF to, ver, r, slot
<1>6. RowInv' /\ Ends' = Ends /\ StripeInv' /\ EventInv' /\ CountInv' /\ OwnerInv'
  BY <1>2, <1>3, <1>4, SlotStep
<1>7. event'[e] = slot /\ \A x \in Events \ {e} : event'[x] = event[x]
  BY <1>2, <1>3
<1>8. \A v \in Workers : worker[v].event # e
  BY <1>1, StripeAssumption DEF Claimable, Abandoned, IInv, WorkerInv
<1>9. \A v \in Workers \ {w} : worker[v].pc # "idle" =>
        event'[worker[v].event] = event[worker[v].event]
        /\ event[worker[v].event].status = "processing"
  BY <1>7, <1>8 DEF IInv, WorkerInv
<1>10. version' = version
  BY <1>2
<1>11. WorkerInv'
  <2>1. r.pc # "idle" => /\ r.event \in Events /\ event'[r.event].status = "processing"
                         /\ \A v \in Workers \ {w} : worker[v].event # r.event
    BY <1>4, <1>5, <1>7, <1>8
  <2>2. r.pc = "ready" /\ event'[r.event].kind # "failed" => r.snap \in Answers(Ends)
    BY <1>4, <1>5, <1>7
  <2>3. /\ r.pc = "idle" => r.event = NoEvent
        /\ version' \in Nat /\ version <= version' /\ r.ver <= version'
    BY <1>3, <1>5, <1>10
  <2>4. \A v \in Workers \ {w} : worker[v].pc # "idle" =>
          /\ event'[worker[v].event].status = "processing"
          /\ event'[worker[v].event].kind = event[worker[v].event].kind
    BY <1>9
  <2>5. worker' = [worker EXCEPT ![w] = r] /\ r \in WorkerRecords /\ Ends' = Ends
        /\ version \in Nat
    BY <1>2, <1>3, <1>5, <1>6
  <2>6. QED
    BY <2>1, <2>2, <2>3, <2>4, <2>5, WorkerTurn
<1>12. QED
  BY <1>6, <1>11 DEF IInv

LEMMA AnswerStep ==
  ASSUME IInv, NEW e \in Events, AnswerInProgress(e)
  PROVE  IInv'
<1> DEFINE slot == IF Abandoned(e) THEN FreeSlot ELSE [event[e] EXCEPT !.due = FALSE]
<1>1. event[e] \in Slots /\ event \in [Events -> Slots] /\ event[e].status = "processing"
  BY DEF IInv, EventInv, AnswerInProgress
<1>2. /\ slot \in Slots
      /\ ~Abandoned(e) => slot.status = "processing" /\ slot.kind = event[e].kind
                          /\ slot.sub = event[e].sub
      /\ Abandoned(e) => slot.status = "free"
  BY <1>1 DEF Slots, FreeSlot
<1>3. event' = [event EXCEPT ![e] = slot]
  BY <1>1 DEF AnswerInProgress, Slots
<1> HIDE DEF slot
<1>4. /\ UNCHANGED <<clock, ws, blocked, stripe, version, worker, owner, applied>>
      /\ "half" \in flaws => "half" \in flaws'
  BY DEF AnswerInProgress, Flawed
<1>5. RowInv' /\ Ends' = Ends /\ StripeInv' /\ EventInv' /\ CountInv' /\ OwnerInv'
  BY <1>1, <1>2, <1>3, <1>4, SlotStep
<1>6. ASSUME NEW v \in Workers, worker[v].pc # "idle"
      PROVE  /\ event'[worker[v].event].status = "processing"
             /\ event'[worker[v].event].kind = event[worker[v].event].kind
  <2>1. worker[v].event \in Events /\ event[worker[v].event].status = "processing"
    BY <1>6, Holds
  <2>2. worker[v].event = e => ~Abandoned(e)
    BY DEF Abandoned
  <2>3. QED
    BY <1>1, <1>2, <1>3, <2>1, <2>2
<1>7. WorkerInv'
  BY <1>4, <1>5, <1>6 DEF IInv, WorkerInv
<1>8. QED
  BY <1>5, <1>7 DEF IInv
(* The worker goes on with its event; the events stay as they are.         *)
LEMMA WorkerGoesOn ==
  ASSUME IInv, Ends' = Ends, Steady,
         NEW w \in Workers, worker[w].pc # "idle",
         NEW r \in WorkerRecords, r.event = worker[w].event, r.pc # "idle",
         worker' = [worker EXCEPT ![w] = r],
         r.pc = "ready" => r.snap \in Answers(Ends),
         r.ver <= version'
  PROVE  WorkerInv'
<1>1. /\ r.event \in Events /\ event[r.event].status = "processing"
      /\ \A v \in Workers \ {w} : worker[v].event # r.event
  BY Holds
<1>2. version \in Nat /\ version' \in Nat /\ version <= version'
  BY DEF IInv, CountInv, Steady
<1>3. \A v \in Workers : worker[v].pc # "idle" =>
           /\ event'[worker[v].event].status = "processing"
           /\ event'[worker[v].event].kind = event[worker[v].event].kind
  BY Holds DEF Steady, HeldStay
<1>4. event'[r.event].status = "processing"
  BY <1>3
<1>5. QED
  BY <1>1, <1>2, <1>3, <1>4, WorkerTurn

LEMMA RetrieveStep ==
  ASSUME IInv, NEW w \in Workers, Retrieve(w) \/ RetrieveFails(w)
  PROVE  IInv'
<1> DEFINE e == event[worker[w].event]
           ready == [worker[w] EXCEPT !.pc = "ready", !.snap = Snapshot(e.sub),
                                      !.ver = version]
           raised == [worker[w] EXCEPT !.pc = "raised"]
<1>1. /\ worker[w].pc # "idle" /\ worker \in [Workers -> WorkerRecords]
      /\ worker[w] \in WorkerRecords /\ Exists(e.sub)
      /\ version \in Nat /\ worker[w].ver <= version
  <2>1. worker[w].pc # "idle" /\ worker \in [Workers -> WorkerRecords]
    BY DEF Retrieve, RetrieveFails, IInv, WorkerInv
  <2>2. QED
    BY <2>1, Holds
<1>2. Snapshot(e.sub) \in Answers(Ends) /\ Snapshot(e.sub) \in Snapshots
  BY <1>1, ExistsAnswers DEF Answers
<1>3. UNCHANGED <<clock, ws, blocked, stripe, version, event, owner, applied, flaws>>
  BY DEF Retrieve, RetrieveFails
<1>4. clock' \in clock .. MaxClock /\ clock' \in 1 .. MaxClock /\ blocked' \in BOOLEAN
      /\ applied' \in 0 .. version'
  BY <1>3 DEF IInv, CountInv
<1>5. RowInv' /\ Ends' = Ends
  BY <1>3, <1>4, RowStays
<1>6. Steady
  BY <1>3, <1>5, NoChangeSteady DEF NoChange
<1>7. ready \in WorkerRecords /\ ready.event = worker[w].event /\ ready.pc = "ready"
      /\ ready.snap = Snapshot(e.sub) /\ ready.ver = version
  BY <1>1, <1>2 DEF WorkerRecords
<1>8. raised \in WorkerRecords /\ raised.event = worker[w].event /\ raised.pc = "raised"
      /\ raised.ver = worker[w].ver
  BY <1>1 DEF WorkerRecords
<1>9. \/ worker' = [worker EXCEPT ![w] = ready]
      \/ worker' = [worker EXCEPT ![w] = raised]
  BY <1>1 DEF Retrieve, RetrieveFails, WorkerRecords
<1> HIDE DEF e, ready, raised
<1>10. version' = version /\ version <= version
  BY <1>1, <1>3
<1>11. WorkerInv'
  <2>1. CASE worker' = [worker EXCEPT ![w] = ready]
    BY <1>1, <1>2, <1>5, <1>6, <1>7, <1>10, <2>1, WorkerGoesOn
  <2>2. CASE worker' = [worker EXCEPT ![w] = raised]
    BY <1>1, <1>5, <1>6, <1>8, <1>10, <2>2, WorkerGoesOn
  <2>3. QED
    BY <1>9, <2>1, <2>2
<1>12. QED
  BY <1>3, <1>4, <1>5, <1>6, <1>11, WorkerStep

LEMMA ReleaseStep ==
  ASSUME IInv, NEW w \in Workers, worker[w].pc # "idle",
         NEW status \in {"free", "received", "processing"}, NEW lost,
         Release(w, status, lost)
  PROVE  IInv'
<1> DEFINE e == worker[w].event
           slot == IF status = "free" \/ ~event[e].due THEN FreeSlot
                   ELSE [event[e] EXCEPT !.status = status]
<1>1. /\ e \in Events /\ event[e] \in Slots /\ event[e].status = "processing"
      /\ \A v \in Workers \ {w} : worker[v].event # e
      /\ version \in Nat
  BY Holds
<1>2. event \in [Events -> Slots]
  BY DEF IInv, EventInv
<1>3. slot \in Slots /\ (slot.status # "free" => slot.sub = event[e].sub)
  BY <1>1 DEF Slots, FreeSlot
<1>4. /\ event' = [event EXCEPT ![e] = slot]
      /\ worker' = [worker EXCEPT ![w] = Idle]
      /\ UNCHANGED <<clock, ws, blocked, stripe, version, owner, applied>>
      /\ "half" \in flaws => "half" \in flaws'
  BY <1>1, <1>2 DEF Release, Flawed
<1> HIDE DEF slot
<1>5. RowInv' /\ Ends' = Ends /\ StripeInv' /\ EventInv' /\ CountInv' /\ OwnerInv'
  BY <1>1, <1>3, <1>4, SlotStep
<1>6. Idle \in WorkerRecords /\ Idle.pc = "idle" /\ Idle.event = NoEvent /\ Idle.ver = 0
  BY DEF Idle, WorkerRecords
<1>7. \A v \in Workers \ {w} : worker[v].pc # "idle" =>
        /\ event'[worker[v].event].status = "processing"
        /\ event'[worker[v].event].kind = event[worker[v].event].kind
  <2>1. ASSUME NEW v \in Workers \ {w}, worker[v].pc # "idle"
        PROVE  event'[worker[v].event] = event[worker[v].event]
               /\ event[worker[v].event].status = "processing"
    <3>1. worker[v].event \in Events /\ event[worker[v].event].status = "processing"
          /\ worker[v].event # e
      BY <1>1, <2>1, Holds
    <3>2. QED
      BY <1>2, <1>4, <3>1
  <2>2. QED
    BY <2>1
<1>8. version' \in Nat /\ version <= version' /\ Idle.ver <= version'
  BY <1>1, <1>4, <1>6
<1>9. WorkerInv'
  BY <1>1, <1>4, <1>5, <1>6, <1>7, <1>8, WorkerTurn
<1>10. QED
  BY <1>5, <1>9 DEF IInv

LEMMA WorkerEnds ==
  ASSUME IInv, NEW w \in Workers, MarkProcessed(w) \/ MarkFailed(w) \/ Crash(w)
  PROVE  IInv'
BY ReleaseStep DEF MarkProcessed, MarkFailed, Crash
-----------------------------------------------------------------------------
(* The handler itself.                                                     *)
LEMMA RowKnown ==
  ASSUME IInv
  PROVE  /\ Sound(ws) /\ Ends \in Nat /\ clock \in Nat
         /\ version \in Nat /\ applied \in Nat /\ applied <= version
BY Known DEF IInv, RowInv, CountInv, Ends

LEMMA DispatchedKept ==
  ASSUME IInv, NEW kind, NEW snap, kind # "failed" => snap \in Answers(Ends)
  PROVE  AllKept(Dispatched(kind, snap), ws)
<1> DEFINE AlsoDue(outcomes) == {ApplyDueTransitions(x, clock) : x \in outcomes}
<1>1. Sound(ws) /\ clock \in Nat
  BY RowKnown
<1>2. ASSUME NEW outcomes, AllKept(outcomes, ws)
      PROVE  AllKept(AlsoDue(outcomes), ws)
  <2>1. ASSUME NEW x \in outcomes PROVE Kept(ApplyDueTransitions(x, clock), ws)
    <3>1. Kept(x, ws)
      BY <1>2 DEF AllKept
    <3>2. QED
      BY <1>1, <3>1, SameTrial, DueKept, KeptAgain
  <2>2. QED
    BY <2>1 DEF AllKept
<1>3. AllKept(MarkPaymentFailure(ws, clock), ws)
  BY <1>1, FailureKept
<1>4. ASSUME kind # "failed" PROVE AllKept(Reconcile(ws, snap, clock), ws)
  BY <1>1, <1>4, ReconcileKept DEF Ends
<1>5. Dispatched(kind, snap) =
        CASE kind = "failed"       -> AlsoDue(MarkPaymentFailure(ws, clock))
          [] kind = "subscription" -> AlsoDue(Reconcile(ws, snap, clock))
          [] OTHER                 -> Reconcile(ws, snap, clock)
  BY DEF Dispatched
<1>6. AllKept(AlsoDue(MarkPaymentFailure(ws, clock)), ws)
  BY <1>2, <1>3
<1>7. kind # "failed" => AllKept(AlsoDue(Reconcile(ws, snap, clock)), ws)
  BY <1>2, <1>4
<1> HIDE DEF AlsoDue
<1>8. QED
  BY <1>4, <1>5, <1>6, <1>7

(* Stripe is told to end a subscription.                                   *)
LEMMA CancelledFits ==
  ASSUME IInv, NEW s \in Subs \cup {NoSub}, CancelAccepted(s)
  PROVE  /\ s \in Subs /\ Exists(s)
         /\ CancelledAtStripe(s) \in Subscriptions(Ends)
         /\ CancelledAtStripe(s).status # "none"
<1>1. s \in Subs /\ stripe[s].status \in Live
  BY DEF CancelAccepted, IsLive
<1>2. stripe[s] \in Subscriptions(Ends)
  BY <1>1, AtStripe
<1>3. /\ [stripe[s] EXCEPT !.cancel = TRUE] \in Subscriptions(Ends)
      /\ [stripe[s] EXCEPT !.cancel = TRUE].status # "none"
  BY <1>1, <1>2 DEF Subscriptions, SubscriptionRecords, Live
<1>4. /\ [stripe[s] EXCEPT !.status = "canceled"] \in Subscriptions(Ends)
      /\ [stripe[s] EXCEPT !.status = "canceled"].status # "none"
  BY <1>1, <1>2 DEF Subscriptions, SubscriptionRecords, Live
<1>5. QED
  BY <1>1, <1>3, <1>4 DEF CancelledAtStripe, Exists, Live

LEMMA CancelledKept ==
  ASSUME IInv, NEW w, Kept(w, ws), NEW s, Exists(s)
  PROVE  AllKept(CancelledLocally(w, s), ws)
<1> DEFINE ended == [Snapshot(s) EXCEPT !.status = "canceled"]
<1>1. Sound(w) /\ w.trial.ends = Ends /\ clock \in Nat
  BY RowKnown DEF Kept, Ends
<1>2. ended \in Answers(w.trial.ends)
  <2>1. Snapshot(s) \in Answers(Ends)
    BY ExistsAnswers
  <2>2. QED
    BY <1>1, <2>1 DEF Answers, Snapshots
<1>3. ASSUME NEW x \in Reconcile(w, ended, clock)
      PROVE  Kept(FinalizeSubscriptionEnd(x, clock), w)
  <2>1. Kept(x, w)
    BY <1>1, <1>2, ReconcileKept DEF AllKept
  <2>2. QED
    BY <2>1, SameTrial, FinalizeKept, KeptAgain
<1>4. AllKept({FinalizeSubscriptionEnd(x, clock) : x \in Reconcile(w, ended, clock)}, w)
  BY <1>3 DEF AllKept
<1>5. ASSUME NEW when \in Times PROVE AllKept(ScheduleCancellation(w, when), w)
  BY <1>1, CancellationKept
<1>6. stripe[s].end \in Times /\ stripe[s].trialEnd \in Times
  BY AtStripe DEF Exists, SubscriptionRecords
<1> HIDE DEF ended
<1>7. AllKept(CancelledLocally(w, s), w)
  BY <1>4, <1>5, <1>6 DEF CancelledLocally, ended
<1>8. QED
  BY <1>7, ThenKept

(* Stripe is told to end the subscription of a workspace, or to go on with *)
(* it, and the row rests or moves.                                         *)
LEMMA EndIsSteady ==
  ASSUME IInv, NEW x, Kept(x, ws), TellsToEnd(x)
  PROVE  /\ x.row.sub \in Subs /\ Exists(x.row.sub)
         /\ Ends' = Ends => Steady
<1>1. x.row.sub \in Subs \cup {NoSub}
  BY Known DEF Kept, Rows
<1>2. /\ x.row.sub \in Subs /\ Exists(x.row.sub)
      /\ CancelledAtStripe(x.row.sub) \in Subscriptions(Ends)
      /\ CancelledAtStripe(x.row.sub).status # "none"
  BY <1>1, CancelledFits DEF TellsToEnd
<1>3. QED
  BY <1>2, ChangeSteady DEF TellsToEnd

LEMMA GoingOnIsSteady ==
  ASSUME IInv, NEW x, Sound(x), TellsToGoOn(x)
  PROVE  Ends' = Ends => Steady
<1> DEFINE s == x.row.sub
           sub == [stripe[s] EXCEPT !.cancel = FALSE]
<1>1. s # NoSub /\ IsLive(s) /\ Change(s, sub, {"subscription"})
  BY DEF TellsToGoOn
<1>2. s \in Subs
  BY <1>1, Known DEF Rows
<1>3. sub \in Subscriptions(Ends) /\ sub.status # "none"
  <2> DEFINE q == stripe[s]
  <2> HIDE DEF s
  <2>1. q \in Subscriptions(Ends) /\ q.status # "none"
    BY <1>1, <1>2, AtStripe DEF IsLive, Live
  <2> HIDE DEF q
  <2>2. [q EXCEPT !.cancel = FALSE] \in Subscriptions(Ends)
        /\ [q EXCEPT !.cancel = FALSE].status # "none"
    BY <2>1 DEF Subscriptions, SubscriptionRecords
  <2>3. QED
    BY <2>2 DEF q
<1> HIDE DEF s, sub
<1>4. QED
  BY <1>1, <1>2, <1>3, ChangeSteady

LEMMA SettleKept ==
  ASSUME IInv, NEW x, Kept(x, ws), NEW f, Settle(x, f), clock' = clock
  PROVE  RowInv' /\ Ends' = Ends /\ Steady
<1>1. "half" \in flaws => "half" \in flaws'
  BY DEF Settle, Flawed
<1>2. CASE (NoChange \/ TellsToEnd(x)) /\ ws' = x
  <2>1. RowInv' /\ Ends' = Ends
    BY <1>1, <1>2, RowStep
  <2>2. QED
    BY <1>2, <2>1, NoChangeSteady, EndIsSteady
<1>3. CASE TellsToEnd(x) /\ ws' \in CancelledLocally(x, x.row.sub)
  <2>1. x.row.sub \in Subs /\ Exists(x.row.sub)
    BY <1>3, EndIsSteady
  <2>2. Kept(ws', ws)
    BY <1>3, <2>1, CancelledKept DEF AllKept
  <2>3. RowInv' /\ Ends' = Ends
    BY <1>1, <2>2, RowStep
  <2>4. QED
    BY <1>3, <2>3, EndIsSteady
<1>4. QED
  BY <1>2, <1>3 DEF Settle

(* The transaction of an event is rolled back after Stripe was told.       *)
LEMMA RolledBackStep ==
  ASSUME IInv, NEW w \in Workers, ApplyRolledBack(w)
  PROVE  IInv'
<1> DEFINE snap == worker[w].snap
           kind == event[worker[w].event].kind
           raised == [worker[w] EXCEPT !.pc = "raised"]
<1>1. /\ worker[w].pc = "ready" /\ worker' = [worker EXCEPT ![w].pc = "raised"]
      /\ UNCHANGED <<clock, ws, blocked, owner, applied, flaws>>
      /\ \E x \in Dispatched(kind, snap) : TellsToEnd(x)
  BY DEF ApplyRolledBack
<1>2. /\ worker[w].pc # "idle" /\ worker[w] \in WorkerRecords
      /\ worker[w].ver \in Nat /\ worker[w].ver <= version
      /\ worker \in [Workers -> WorkerRecords]
  BY <1>1, Holds DEF IInv, WorkerInv
<1>3. kind # "failed" => snap \in Answers(Ends)
  BY <1>1 DEF IInv, WorkerInv
<1>4. AllKept(Dispatched(kind, snap), ws)
  BY <1>3, DispatchedKept
<1>5. raised \in WorkerRecords /\ raised.event = worker[w].event /\ raised.pc = "raised"
      /\ raised.ver = worker[w].ver
  BY <1>2 DEF WorkerRecords
<1>6. clock' \in clock .. MaxClock /\ clock' \in 1 .. MaxClock /\ blocked' \in BOOLEAN
      /\ version \in Nat /\ applied \in Nat /\ applied <= version
  BY <1>1, RowKnown DEF IInv, CountInv
<1>7. worker' = [worker EXCEPT ![w] = raised]
  BY <1>1, <1>2 DEF WorkerRecords
<1> HIDE DEF raised
<1>8. RowInv' /\ Ends' = Ends
  BY <1>1, <1>6, RowStays
<1>9. Steady
  BY <1>1, <1>4, <1>8, EndIsSteady DEF AllKept
<1>10. version' \in Nat /\ version <= version'
  BY <1>6, <1>9 DEF Steady
<1>11. applied' \in 0 .. version' /\ worker[w].ver <= version'
  BY <1>1, <1>2, <1>6, <1>10
<1>12. WorkerInv'
  BY <1>2, <1>5, <1>7, <1>8, <1>9, <1>11, WorkerGoesOn
<1>13. QED
  BY <1>1, <1>6, <1>8, <1>9, <1>11, <1>12, WorkerStep

LEMMA ApplyStep ==
  ASSUME IInv, NEW w \in Workers, Apply(w)
  PROVE  IInv'
<1> DEFINE kind == event[worker[w].event].kind
           snap == worker[w].snap
           raised == [worker[w] EXCEPT !.pc = "raised"]
           done == [worker[w] EXCEPT !.pc = "applied", !.snap = NoSnapshot, !.ver = 0]
<1>1. worker[w].pc = "ready" /\ clock' = clock /\ blocked' = blocked /\ owner' = owner
  BY DEF Apply
<1>2. /\ worker[w].pc # "idle" /\ worker[w] \in WorkerRecords
      /\ worker[w].ver \in Nat /\ worker[w].ver <= version
      /\ worker \in [Workers -> WorkerRecords]
  BY <1>1, Holds DEF IInv, WorkerInv
<1>3. kind # "failed" => snap \in Answers(Ends)
  BY <1>1 DEF IInv, WorkerInv
<1>4. AllKept(Dispatched(kind, snap), ws)
  BY <1>3, DispatchedKept
<1>5. raised \in WorkerRecords /\ raised.event = worker[w].event /\ raised.pc = "raised"
      /\ raised.ver = worker[w].ver
  BY <1>2 DEF WorkerRecords
<1>6. done \in WorkerRecords /\ done.event = worker[w].event /\ done.pc = "applied"
      /\ done.ver = 0
  BY <1>2 DEF WorkerRecords
<1>7. clock' \in clock .. MaxClock /\ clock' \in 1 .. MaxClock /\ blocked' \in BOOLEAN
      /\ version \in Nat /\ applied \in Nat /\ applied <= version
  BY <1>1, RowKnown DEF IInv, CountInv
<1>8. CASE /\ worker' = [worker EXCEPT ![w].pc = "raised"]
           /\ UNCHANGED <<ws, applied, flaws>> /\ NoChange
  <2>1. worker' = [worker EXCEPT ![w] = raised]
    BY <1>2, <1>8 DEF WorkerRecords
  <2> HIDE DEF raised
  <2>2. RowInv' /\ Ends' = Ends
    BY <1>7, <1>8, RowStays
  <2>3. Steady
    BY <1>8, <2>2, NoChangeSteady
  <2>4. version' = version /\ applied' \in 0 .. version' /\ worker[w].ver <= version'
    BY <1>2, <1>7, <1>8 DEF NoChange
  <2>5. WorkerInv'
    BY <1>2, <1>5, <2>1, <2>2, <2>3, <2>4, WorkerGoesOn
  <2>6. QED
    BY <1>1, <1>7, <2>2, <2>3, <2>4, <2>5, WorkerStep
<1>9. CASE /\ \E x \in Dispatched(kind, snap) :
                Settle(x, FlawsOf(worker[w].event, worker[w].ver))
           /\ applied' = NewestOf(applied, worker[w].ver)
           /\ worker' = [worker EXCEPT ![w].pc = "applied",
                                       ![w].snap = NoSnapshot, ![w].ver = 0]
  <2>1. worker' = [worker EXCEPT ![w] = done]
    BY <1>2, <1>9 DEF WorkerRecords
  <2> HIDE DEF done
  <2>2. RowInv' /\ Ends' = Ends /\ Steady
    BY <1>1, <1>4, <1>9, SettleKept DEF AllKept
  <2>3. version' \in Nat /\ version <= version'
    BY <1>7, <2>2 DEF Steady
  <2>4. applied' \in 0 .. version' /\ done.ver <= version'
    BY <1>2, <1>6, <1>7, <1>9, <2>3 DEF NewestOf
  <2>5. WorkerInv'
    BY <1>2, <1>6, <2>1, <2>2, <2>4, WorkerGoesOn
  <2>6. QED
    BY <1>1, <1>7, <2>2, <2>4, <2>5, WorkerStep
<1>10. QED
  BY <1>8, <1>9 DEF Apply
-----------------------------------------------------------------------------
(* The owner's requests.                                                   *)
LEMMA OwnerStep ==
  ASSUME IInv, Steady, RowInv', Ends' = Ends, OwnerInv', UNCHANGED worker,
         clock' \in 1 .. MaxClock, blocked' \in BOOLEAN, applied' \in 0 .. version'
  PROVE  IInv'
<1>1. CountInv'
  BY DEF CountInv, IInv, Steady
<1>2. QED
  BY <1>1, WorkersStay DEF IInv, Steady

LEMMA NobodyAsks ==
  /\ NoRequest \in OwnerRecords /\ NoRequest.op = "none" /\ NoRequest.pc = "idle"
  /\ NoRequest.ver = 0
BY DEF NoRequest, OwnerRecords, Ops, WithTarget

LEMMA OwnerGivesUp ==
  ASSUME owner' = NoRequest, version' \in Nat
  PROVE  OwnerInv'
BY NobodyAsks DEF OwnerInv, WithTarget

LEMMA OwnerReadsStep ==
  ASSUME IInv, OwnerReads
  PROVE  IInv'
<1>0. PICK op \in Ops :
        /\ Asks(op)
        /\ \E target \in Targets(op) :
             owner' = [NoRequest EXCEPT
               !.pc = "read", !.op = op,
               !.sub = IF op = "confirm" THEN Newest ELSE ws.row.sub,
               !.deferred = op = "cancel" /\ ws.row.status = "trialing",
               !.plan = target[1], !.interval = target[2]]
  BY DEF OwnerReads
<1>1. PICK target \in Targets(op) :
        owner' = [NoRequest EXCEPT
              !.pc = "read", !.op = op,
              !.sub = IF op = "confirm" THEN Newest ELSE ws.row.sub,
              !.deferred = op = "cancel" /\ ws.row.status = "trialing",
              !.plan = target[1], !.interval = target[2]]
  BY <1>0
<1> DEFINE sub == IF op = "confirm" THEN Newest ELSE ws.row.sub
           deferred == op = "cancel" /\ ws.row.status = "trialing"
<1>2. UNCHANGED <<clock, ws, blocked, stripe, version, event, worker, applied, flaws>>
  BY DEF OwnerReads
<1>3. ws.row.sub \in Subs \cup {NoSub} /\ version \in Nat
  BY Known, RowKnown DEF Rows
<1>4. op = "confirm" => Newest \in Subs /\ stripe[Newest].status # "none"
  BY <1>0, NewestUsed DEF Asks, Used
<1>5. sub \in Subs \cup {NoSub} /\ (op = "confirm" => Exists(sub))
  BY <1>3, <1>4 DEF Exists
<1>6. /\ target[1] \in PaidPlans \cup {"none"} /\ target[2] \in Intervals \cup {"none"}
      /\ op \in WithTarget => target[1] \in PaidPlans /\ target[2] \in Intervals
  <2>1. ws.row.interval \in Intervals \cup {"none"}
    BY Known, RowKnown DEF Rows
  <2>2. CASE op \in WithTarget
    <3>1. target \in PaidPlans \X Intervals
      BY <2>2 DEF Targets, WithTarget
    <3>2. QED
      BY <2>2, <3>1
  <2>3. CASE op = "upgrade"
    <3>1. target = <<"business", ws.row.interval>>
      BY <2>3 DEF Targets, WithTarget
    <3>2. target[1] = "business" /\ target[2] = ws.row.interval
      BY <3>1
    <3>3. QED
      BY <2>1, <2>3, <3>2 DEF PaidPlans, WithTarget
  <2>4. CASE op \notin WithTarget \cup {"upgrade"}
    <3>1. target = <<"none", "none">>
      BY <2>4 DEF Targets
    <3>2. target[1] = "none" /\ target[2] = "none"
      BY <3>1
    <3>3. QED
      BY <2>4, <3>2
  <2>5. QED
    BY <2>2, <2>3, <2>4
<1> HIDE DEF sub
<1>7. /\ owner' \in OwnerRecords /\ owner'.op = op /\ owner'.sub = sub
      /\ owner'.pc = "read" /\ owner'.plan = target[1] /\ owner'.interval = target[2]
      /\ owner'.ver = 0
  <2>1. owner' = [NoRequest EXCEPT !.pc = "read", !.op = op, !.sub = sub,
                    !.deferred = deferred, !.plan = target[1], !.interval = target[2]]
    BY <1>1 DEF sub
  <2>2. deferred \in BOOLEAN
    OBVIOUS
  <2> HIDE DEF deferred
  <2>3. QED
    BY ZenonT(60), <1>5, <1>6, <2>1, <2>2, NobodyAsks DEF OwnerRecords
<1>8. OwnerInv'
  BY <1>2, <1>3, <1>5, <1>6, <1>7 DEF OwnerInv, Exists
<1>9. clock' \in clock .. MaxClock /\ clock' \in 1 .. MaxClock /\ blocked' \in BOOLEAN
      /\ applied' \in 0 .. version'
  BY <1>2 DEF IInv, CountInv
<1>10. RowInv' /\ Ends' = Ends
  BY <1>2, <1>9, RowStays
<1>11. Steady
  BY <1>2, <1>10, NoChangeSteady DEF NoChange
<1>12. QED
  BY <1>2, <1>8, <1>9, <1>10, <1>11, OwnerStep
(* What the owner asks for leaves a subscription Stripe could answer with. *)
LEMMA AskedFits ==
  ASSUME IInv, NEW s \in Subs, owner.op \in Ops, Exists(s),
         owner.op = "upgrade" => owner.interval \in Intervals
  PROVE  Asked(s) \in Subscriptions(Ends) /\ Asked(s).status # "none"
<1>1. stripe[s] \in Subscriptions(Ends) /\ stripe[s].status # "none"
  BY AtStripe DEF Exists
<1>2. owner.op \in WithTarget => owner.plan \in PaidPlans /\ owner.interval \in Intervals
  BY DEF IInv, OwnerInv
<1>3. CASE owner.op = "retarget"
  BY <1>1, <1>2, <1>3
     DEF Asked, Ops, WithTarget, Subscriptions, SubscriptionRecords, Live
<1>4. CASE owner.op = "schedule"
  BY <1>1, <1>2, <1>4
     DEF Asked, Ops, WithTarget, Subscriptions, SubscriptionRecords, Live
<1>5. CASE owner.op = "clear"
  BY <1>1, <1>5 DEF Asked, Subscriptions, SubscriptionRecords, Live
<1>6. CASE owner.op = "upgrade"
  BY <1>1, <1>6 DEF Asked, Subscriptions, SubscriptionRecords, Live, PaidPlans
<1>7. CASE owner.op \in {"cancel", "resume"}
  BY <1>1, <1>7 DEF Asked, Subscriptions, SubscriptionRecords, Live
<1>8. CASE owner.op = "release"
  BY <1>1, <1>8 DEF Asked, Subscriptions, SubscriptionRecords, Live
<1>9. CASE owner.op = "confirm"
  BY <1>1, <1>9 DEF Asked
<1>10. QED
  BY <1>3, <1>4, <1>5, <1>6, <1>7, <1>8, <1>9 DEF Ops, WithTarget

LEMMA OwnerCallsStep ==
  ASSUME IInv, OwnerCalls
  PROVE  IInv'
<1> DEFINE s == owner.sub
<1>1. /\ s # NoSub /\ owner \in OwnerRecords /\ s \in Subs \cup {NoSub}
      /\ UNCHANGED <<clock, ws, blocked, worker, applied>>
      /\ owner.op \in Ops /\ ("half" \in flaws' => "half" \in flaws)
      /\ ("half" \in flaws => "half" \in flaws')
  BY DEF OwnerCalls, IInv, OwnerInv, OwnerRecords, Flawed
<1>2. clock' \in clock .. MaxClock /\ clock' \in 1 .. MaxClock /\ blocked' \in BOOLEAN
      /\ version \in Nat /\ applied \in Nat /\ applied <= version
  BY <1>1, RowKnown DEF IInv, CountInv
<1>3. RowInv' /\ Ends' = Ends
  BY <1>1, <1>2, RowStays
<1>4. ASSUME NEW snap \in Answers(Ends), NEW ver \in Nat, Steady, ver <= version',
             owner' = [owner EXCEPT !.pc = "called", !.ver = ver, !.snap = snap]
      PROVE  OwnerInv'
  <2>1. snap \in Snapshots
    BY DEF Answers
  <2>2. /\ owner' \in OwnerRecords /\ owner'.op = owner.op /\ owner'.plan = owner.plan
        /\ owner'.interval = owner.interval /\ owner'.sub = owner.sub
        /\ owner'.snap = snap /\ owner'.ver = ver /\ owner'.pc = "called"
    BY <1>1, <1>4, <2>1 DEF OwnerRecords
  <2>3. owner.op = "confirm" =>
          owner.sub \in Subs /\ stripe'[owner.sub].status # "none"
    BY <1>4 DEF IInv, OwnerInv, Exists, Steady, StatusesStay
  <2>4. owner'.op = "confirm" => Exists(owner.sub)'
    BY <2>2, <2>3 DEF Exists
  <2>5. Answers(Ends)' = Answers(Ends)
    BY <1>3 DEF Answers
  <2>6. owner.op \in WithTarget => owner.plan \in PaidPlans /\ owner.interval \in Intervals
    BY DEF IInv, OwnerInv
  <2>7. QED
    BY <1>1, <1>4, <2>2, <2>4, <2>5, <2>6 DEF OwnerInv
<1>5. CASE /\ owner.op = "confirm" /\ NoChange
           /\ owner' = [owner EXCEPT !.pc = "called", !.ver = version, !.snap = Snapshot(s)]
  <2>1. Snapshot(s) \in Answers(Ends)
    BY <1>5, ExistsAnswers DEF IInv, OwnerInv
  <2>2. Steady
    BY <1>3, <1>5, NoChangeSteady
  <2>3. version' = version /\ version <= version'
    BY <1>2, <1>5 DEF NoChange
  <2>4. OwnerInv'
    BY <1>2, <1>4, <1>5, <2>1, <2>2, <2>3
  <2>5. applied' \in 0 .. version'
    BY <1>1, <1>2, <2>3
  <2>6. QED
    BY <1>1, <1>2, <1>3, <2>2, <2>4, <2>5, OwnerStep
<1>6. CASE /\ Accepted(s)
           /\ Change(s, Asked(s), IF owner.op = "upgrade" THEN {"subscription", "paid"}
                                  ELSE {"subscription"})
           /\ owner' = [owner EXCEPT !.pc = "called", !.ver = version + 1,
                                     !.snap = SnapshotOf(s, Asked(s))]
  <2>1. s \in Subs /\ Exists(s)
    BY <1>1, <1>6, LiveExists DEF Accepted, Exists
  <2>2. Asked(s) \in Subscriptions(Ends) /\ Asked(s).status # "none"
    BY <1>1, <1>6, <2>1, AskedFits DEF Accepted
  <2> DEFINE kinds == IF owner.op = "upgrade" THEN {"subscription", "paid"}
                      ELSE {"subscription"}
  <2>3. kinds \in SUBSET {"checkout", "paid", "failed", "subscription"}
    OBVIOUS
  <2>4. Change(s, Asked(s), kinds)
    BY <1>6
  <2> HIDE DEF kinds
  <2>5. Steady
    BY <1>3, <2>1, <2>2, <2>3, <2>4, ChangeSteady
  <2>6. version' = version + 1
    BY <2>4 DEF Change
  <2>7. SnapshotOf(s, Asked(s)) \in Answers(Ends)
    BY <2>1, <2>2, SnapshotAnswers, RowKnown
  <2>8. version + 1 \in Nat /\ version + 1 <= version' /\ applied' \in 0 .. version'
    BY <1>1, <1>2, <2>6
  <2>9. OwnerInv'
    BY <1>4, <1>6, <2>5, <2>7, <2>8
  <2>10. QED
    BY <1>1, <1>2, <1>3, <2>5, <2>8, <2>9, OwnerStep
<1>7. QED
  BY <1>5, <1>6 DEF OwnerCalls

LEMMA WrittenKept ==
  ASSUME IInv, owner.pc = "called"
  PROVE  AllKept(Written, ws)
<1>1. owner.snap \in Answers(Ends) /\ Sound(ws) /\ Ends \in Nat /\ clock \in Nat
      /\ owner.snap.end \in Times /\ owner.snap.trialEnd \in Times
  BY RowKnown, Answered DEF IInv, OwnerInv
<1>2. AllKept(Reconcile(ws, owner.snap, clock), ws)
  BY <1>1, ReconcileKept DEF Ends
<1>3. CASE owner.op \in {"confirm", "retarget", "upgrade"}
  BY <1>2, <1>3 DEF Written
<1>4. CASE owner.op = "clear"
  <2>1. ASSUME NEW x \in Reconcile(ws, owner.snap, clock)
        PROVE  Kept(FinalizeSubscriptionEnd(x, clock), ws)
    <3>1. Kept(x, ws)
      BY <1>2 DEF AllKept
    <3>2. QED
      BY <3>1, SameTrial, FinalizeKept, KeptAgain
  <2>2. Written = {FinalizeSubscriptionEnd(x, clock) : x \in Reconcile(ws, owner.snap, clock)}
    BY <1>4 DEF Written
  <2>3. QED
    BY <2>1, <2>2 DEF AllKept
<1>5. CASE owner.op = "schedule"
  <2>1. owner.plan \in PaidPlans /\ owner.interval \in Intervals
    BY <1>5 DEF IInv, OwnerInv, WithTarget
  <2>2. QED
    BY <1>1, <1>5, <2>1, ChangeKept DEF Written
<1>6. CASE owner.op = "cancel"
  BY <1>1, <1>6, CancellationKept DEF Written
<1>7. CASE owner.op = "resume"
  BY <1>1, <1>7, ResumedKept DEF Written
<1>8. CASE owner.op = "release"
  BY <1>1, <1>8, ReleasedKept DEF Written
<1>9. QED
  BY <1>3, <1>4, <1>5, <1>6, <1>7, <1>8 DEF IInv, OwnerInv, Ops, WithTarget

LEMMA OwnerEnds ==
  ASSUME IInv, RowInv', Ends' = Ends, owner' = NoRequest, applied' \in 0 .. version',
         UNCHANGED <<clock, blocked, stripe, version, event, worker>>
  PROVE  IInv'
<1>1. Steady /\ version' \in Nat
  BY NoChangeSteady, RowKnown DEF NoChange
<1>2. OwnerInv'
  BY <1>1, OwnerGivesUp
<1>3. QED
  BY <1>1, <1>2, OwnerStep DEF IInv, CountInv

LEMMA OwnerRefusedStep ==
  ASSUME IInv, OwnerRefused
  PROVE  IInv'
<1>1. clock' \in clock .. MaxClock /\ UNCHANGED <<ws, flaws>>
  BY DEF OwnerRefused, IInv, CountInv
<1>2. RowInv' /\ Ends' = Ends
  BY <1>1, RowStays
<1>3. QED
  BY <1>2, OwnerEnds DEF OwnerRefused, IInv, CountInv

LEMMA OwnerWritesStep ==
  ASSUME IInv, OwnerWrites
  PROVE  IInv'
<1>1. Kept(ws', ws)
  BY WrittenKept DEF OwnerWrites, AllKept
<1>2. clock' = clock /\ ("half" \in flaws => "half" \in flaws')
  BY DEF OwnerWrites, Flawed
<1>3. RowInv' /\ Ends' = Ends
  BY <1>1, <1>2, RowStep
<1>4. owner.ver \in Nat /\ owner.ver <= version
  BY DEF IInv, OwnerInv, OwnerRecords
<1>5. applied' \in 0 .. version'
  BY <1>4, RowKnown DEF OwnerWrites, NewestOf
<1>6. QED
  BY <1>3, <1>5, OwnerEnds DEF OwnerWrites

(* A request that dies half way may leave the plan behind the row, which   *)
(* is what "half" says.                                                    *)
LEMMA OwnerInterruptedStep ==
  ASSUME IInv, OwnerInterrupted
  PROVE  IInv'
<1>1. Sound(ws') /\ ws'.trial = ws.trial /\ (ws'.plan = ws.plan => Kept(ws', ws))
  <2>1. Sound(ws) /\ owner.snap \in Answers(ws.trial.ends)
    BY RowKnown DEF OwnerInterrupted, IInv, OwnerInv, Ends
  <2>2. ws' \in ReconciledInPart(ws, owner.snap) \/ ws' = ws
    BY DEF OwnerInterrupted
  <2>3. QED
    BY <2>1, <2>2, InPartKept, KeptSame
<1>2. /\ "half" \in flaws => "half" \in flaws'
      /\ ws'.plan # ws.plan => "half" \in flaws'
  BY DEF OwnerInterrupted, Flawed
<1>3. clock' = clock /\ applied' = applied /\ version' = version
  BY DEF OwnerInterrupted
<1>4. RowInv' /\ Ends' = Ends
  BY <1>1, <1>2, <1>3 DEF IInv, RowInv, Kept, Ends
<1>5. QED
  BY <1>3, <1>4, OwnerEnds DEF OwnerInterrupted, IInv, CountInv
-----------------------------------------------------------------------------
(* The daily commands and the platform administrator.                      *)
LEMMA DailyStep ==
  ASSUME IInv, SendPaymentWarnings \/ ExpireTrial
  PROVE  IInv'
<1>1. /\ UNCHANGED <<clock, blocked, stripe, version, event, worker, owner, applied, flaws>>
      /\ ws' = ApplyDueTransitions(ws, clock) \/ ws' = ExpireDueTrial(ws, clock)
  BY DEF SendPaymentWarnings, ExpireTrial
<1>2. Sound(ws) /\ clock \in Nat /\ Ends \in Nat
  BY RowKnown
<1>3. RowInv' /\ Ends' = Ends
  <2>1. CASE ws' = ApplyDueTransitions(ws, clock)
    BY <1>1, <1>2, <2>1, DueKept, RowStep
  <2>2. CASE ws' = ExpireDueTrial(ws, clock)
    <3>1. /\ Sound(ws') /\ (Follows(ws) => Follows(ws')) /\ ws'.trial.ends = Ends
          /\ ws'.trial.expired => ws.trial.expired \/ ~(clock < Ends)
      BY <1>2, <2>2, ExpiryKept DEF Ends
    <3>2. QED
      BY <1>1, <1>2, <3>1 DEF IInv, RowInv, Ends
  <2>3. QED
    BY <1>1, <2>1, <2>2
<1>4. Steady
  BY <1>1, <1>3, NoChangeSteady DEF NoChange
<1>5. QED
  BY <1>1, <1>3, <1>4, OthersStep DEF IInv, CountInv

LEMMA BlockStep ==
  ASSUME IInv, Block
  PROVE  IInv'
<1>1. blocked' = TRUE /\ UNCHANGED <<clock, worker, owner, flaws>>
  BY DEF Block
<1>2. Sound(ws) /\ Kept(ws, ws) /\ version \in Nat /\ applied \in 0 .. version
      /\ clock' \in 1 .. MaxClock
  BY <1>1, RowKnown, KeptSame DEF IInv, CountInv
<1>3. CASE NoChange /\ UNCHANGED <<ws, applied>>
  <2>1. RowInv' /\ Ends' = Ends
    BY <1>1, <1>2, <1>3, RowStep
  <2>2. Steady
    BY <1>3, <2>1, NoChangeSteady
  <2>3. applied' \in 0 .. version'
    BY <1>2, <1>3 DEF NoChange
  <2>4. QED
    BY <1>1, <1>2, <2>1, <2>2, <2>3, OthersStep
<1>4. CASE /\ TellsToEnd(ws)
           /\ ws' \in CancelledLocally(ws, ws.row.sub)
           /\ applied' = version'
  <2>1. ws.row.sub \in Subs /\ Exists(ws.row.sub)
    BY <1>2, <1>4, EndIsSteady
  <2>2. Kept(ws', ws)
    BY <1>2, <1>4, <2>1, CancelledKept DEF AllKept
  <2>3. RowInv' /\ Ends' = Ends
    BY <1>1, <2>2, RowStep
  <2>4. Steady
    BY <1>2, <1>4, <2>3, EndIsSteady
  <2>5. applied' \in 0 .. version'
    BY <1>2, <1>4, <2>4 DEF Steady
  <2>6. QED
    BY <1>1, <1>2, <2>3, <2>4, <2>5, OthersStep
<1>5. QED
  BY <1>3, <1>4 DEF Block

LEMMA BlockFailsStep ==
  ASSUME IInv, BlockFails
  PROVE  IInv'
<1>1. TellsToEnd(ws) /\ StripeKeeps
  BY DEF BlockFails, StripeKeeps
<1>2. Kept(ws, ws)
  BY RowKnown, KeptSame
<1>3. Steady
  BY <1>1, <1>2, EndIsSteady DEF StripeKeeps, Ends
<1>4. QED
  BY <1>1, <1>3, StripeStep

(* A workspace that is activated again without a subscription is Basic.    *)
LEMMA BasicKept ==
  ASSUME NEW w, Sound(w), w.row.status \notin Live
  PROVE  Kept([w EXCEPT !.plan = "basic"], w)
<1>1. w \in Workspaces /\ w.row \in Rows /\ RowDated(w.row, w.trial.ends)
  BY Known
<1>2. [w EXCEPT !.plan = "basic"] = [w EXCEPT !.plan = "basic", !.row = w.row]
  BY <1>1 DEF Workspaces
<1>3. Agree("basic", w.row)
  BY DEF Agree, Paying, Live
<1>4. Kept([w EXCEPT !.plan = "basic", !.row = w.row], w)
  BY <1>1, <1>3, NewPlanAndRow
<1>5. QED
  BY <1>2, <1>4

LEMMA UnblockStep ==
  ASSUME IInv, Unblock
  PROVE  IInv'
<1> DEFINE due == ApplyDueTransitions(ws, clock)
<1>1. blocked' = FALSE /\ UNCHANGED <<clock, worker, owner, flaws>>
  BY DEF Unblock
<1>2. version \in Nat /\ applied \in 0 .. version /\ clock' \in 1 .. MaxClock
      /\ Kept(due, ws) /\ Sound(due)
  BY <1>1, RowKnown, DueKept, SameTrial DEF IInv, CountInv
<1>3. CASE /\ TellsToGoOn(due)
           /\ ws' \in ClearPendingCancellation(due)
           /\ applied' = version'
  <2>1. Kept(ws', ws)
    BY <1>2, <1>3, ResumedKept, KeptAgain DEF AllKept
  <2>2. RowInv' /\ Ends' = Ends
    BY <1>1, <2>1, RowStep
  <2> HIDE DEF due
  <2>3. Steady
    BY <1>2, <1>3, <2>2, GoingOnIsSteady
  <2>4. applied' \in 0 .. version'
    BY <1>2, <1>3, <2>3 DEF Steady
  <2>5. QED
    BY <1>1, <1>2, <2>2, <2>3, <2>4, OthersStep
<1>4. CASE /\ ws' = IF due.row.status \in Live THEN due ELSE [due EXCEPT !.plan = "basic"]
           /\ NoChange /\ UNCHANGED applied
  <2>1. Kept(ws', ws)
    BY <1>2, <1>4, BasicKept, KeptAgain
  <2>2. RowInv' /\ Ends' = Ends
    BY <1>1, <2>1, RowStep
  <2>3. Steady
    BY <1>4, <2>2, NoChangeSteady
  <2>4. applied' \in 0 .. version'
    BY <1>2, <1>4 DEF NoChange
  <2>5. QED
    BY <1>1, <1>2, <2>2, <2>3, <2>4, OthersStep
<1>5. QED
  BY <1>3, <1>4 DEF Unblock

LEMMA UnblockFailsStep ==
  ASSUME IInv, UnblockFails
  PROVE  IInv'
<1> DEFINE due == ApplyDueTransitions(ws, clock)
<1>1. /\ UNCHANGED <<clock, ws, blocked, worker, owner, applied>>
      /\ TellsToGoOn(due) /\ flaws \subseteq flaws'
  BY DEF UnblockFails, Flawed
<1>2. version \in Nat /\ applied \in 0 .. version /\ clock' \in 1 .. MaxClock
      /\ clock' \in clock .. MaxClock /\ blocked' \in BOOLEAN /\ Sound(due)
  BY <1>1, RowKnown, DueKept, SameTrial DEF IInv, CountInv
<1>3. RowInv' /\ Ends' = Ends
  BY <1>1, <1>2, RowStays
<1> HIDE DEF due
<1>4. Steady
  BY <1>1, <1>2, <1>3, GoingOnIsSteady
<1>5. applied' \in 0 .. version'
  BY <1>1, <1>2, <1>4 DEF Steady
<1>6. QED
  BY <1>1, <1>2, <1>3, <1>4, <1>5, OthersStep
-----------------------------------------------------------------------------
LEMMA InitInv ==
  ASSUME Init
  PROVE  IInv
<1>1. /\ clock = 1 /\ blocked = FALSE /\ version = 0 /\ applied = 0 /\ flaws = {}
      /\ stripe = [s \in Subs |-> NoSubscription] /\ owner = NoRequest
      /\ event = [e \in Events |-> FreeSlot] /\ worker = [w \in Workers |-> Idle]
  BY DEF Init
<1>2. CountInv
  <2>1. 1 \in 1 .. MaxClock /\ 0 \in 0 .. MaxChanges /\ 0 \in 0 .. 0
    BY StripeAssumption
  <2>2. QED
    BY <1>1, <2>1 DEF CountInv
<1>3. NoRow \in Rows /\ NoRow.status = "none" /\ ~NoRow.cancel
      /\ NoRow.pendingPlan = "none" /\ NoRow.pendingAt = NoTime /\ NoRow.end = NoTime
  BY Constants DEF NoRow, Rows, NoTime
<1>4. /\ ws \in Workspaces /\ ws.row = NoRow /\ ~ws.trial.expired
      /\ ws.trial.ends = NoTime => ws.plan = "basic"
  <2>1. CASE ws = [plan |-> "business", row |-> NoRow,
                   trial |-> [ends |-> TrialEnds, expired |-> FALSE]]
    BY <1>3, <2>1, Constants DEF Workspaces, PaidPlans, NoTime
  <2>2. CASE ws = [plan |-> "basic", row |-> NoRow,
                   trial |-> [ends |-> NoTime, expired |-> FALSE]]
    BY <1>3, <2>2, Constants DEF Workspaces, PaidPlans, NoTime
  <2>3. QED
    BY <2>1, <2>2 DEF Init
<1>5. RowInv
  <2>1. Follows(ws)
    BY <1>3, <1>4 DEF Follows, Over, Agree, Paying
  <2>2. RowDated(ws.row, Ends)
    BY <1>3, <1>4 DEF RowDated, Live
  <2>3. QED
    BY <1>4, <2>1, <2>2 DEF RowInv, Sound, Ends
<1>6. NoSubscription \in Subscriptions(Ends)
  BY Constants DEF NoSubscription, Subscriptions, SubscriptionRecords, PaidPlans, NoTime
<1>7. StripeInv
  BY <1>1, <1>6 DEF StripeInv
<1>8. FreeSlot \in Slots /\ FreeSlot.status = "free"
  BY DEF FreeSlot, Slots
<1>9. EventInv
  BY <1>1, <1>8 DEF EventInv
<1>10. Idle \in WorkerRecords /\ Idle.pc = "idle" /\ Idle.event = NoEvent /\ Idle.ver = 0
  BY DEF Idle, WorkerRecords
<1>11. WorkerInv
  BY <1>1, <1>10 DEF WorkerInv
<1>12. OwnerInv
  BY <1>1, NobodyAsks DEF OwnerInv, WithTarget
<1>13. QED
  BY <1>2, <1>5, <1>7, <1>9, <1>11, <1>12 DEF IInv

LEMMA StepInv ==
  ASSUME IInv, [Next]_vars
  PROVE  IInv'
<1>1. CASE Stripe
  BY <1>1, SubscribeStep, PeriodEndsStep, PastDueStep DEF Stripe
<1>2. CASE Owner
  BY <1>2, OwnerReadsStep, OwnerCallsStep, OwnerRefusedStep, OwnerWritesStep,
     OwnerInterruptedStep DEF Owner
<1>3. CASE Platform
  BY <1>3, DailyStep, BlockStep, BlockFailsStep, UnblockStep, UnblockFailsStep
     DEF Platform
<1>4. CASE Tick
  BY <1>4, TickStep
<1>5. CASE \E w \in Workers : Webhook(w)
  BY <1>5, ClaimStep, RetrieveStep, ApplyStep, RolledBackStep, WorkerEnds DEF Webhook
<1>6. CASE \E e \in Events : AnswerInProgress(e)
  BY <1>6, AnswerStep
<1>7. CASE UNCHANGED vars
  BY <1>7 DEF vars, IInv, CountInv, RowInv, StripeInv, EventInv, WorkerInv, OwnerInv,
              Ends, Exists
<1>8. QED
  BY <1>1, <1>2, <1>3, <1>4, <1>5, <1>6, <1>7 DEF Next

(* Nothing the handlers, the owner's requests or the commands do leaves    *)
(* this invariant, in whatever order they interleave.                      *)
THEOREM Invariance == Spec => []IInv
BY InitInv, StepInv, PTL DEF Spec

(* Types: every row, plan and trial a transition leaves is one of the      *)
(* catalog's, whatever Stripe answers and whenever it is applied.          *)
THEOREM TypeCorrect == Spec => []TypeOK
<1>1. IInv => TypeOK
  <2>1. SUFFICES ASSUME IInv PROVE TypeOK
    OBVIOUS
  <2>2. ws \in Workspaces
    BY <2>1, RowKnown, Known
  <2>3. ASSUME NEW s \in Subs, stripe[s].status # "none"
        PROVE  Snapshot(s) \in Snapshots
    BY <2>1, <2>3, ExistsAnswers DEF Exists, Answers
  <2>4. QED
    BY <2>1, <2>2, <2>3 DEF TypeOK, IInv, CountInv
<1>2. QED
  BY <1>1, Invariance, PTL

(* Two webhook requests never dispatch the same event at the same time,    *)
(* however many workers and deliveries there are, crashes included         *)
(* (claim_provider_event).                                                 *)
THEOREM DispatchedOnce == Spec => []OneDispatcher
<1>1. IInv => OneDispatcher
  BY DEF IInv, WorkerInv, OneDispatcher
<1>2. QED
  BY <1>1, Invariance, PTL

(* Once the free week is over the plan of the workspace is the plan of its *)
(* subscription, or Basic without one, unless a reconciliation was cut in  *)
(* half.                                                                   *)
THEOREM PlanFollows == Spec => []PlanFollowsRow
<1>1. IInv => PlanFollowsRow
  BY DEF IInv, RowInv, Follows, Over, Agree, PlanFollowsRow
<1>2. QED
  BY <1>1, Invariance, PTL
-----------------------------------------------------------------------------
(* What the webhooks and the requests of the owner bring about together.   *)
(* The first argument follows the answers (FlowInv): as long as no flaw    *)
(* has occurred, a change that has not been applied is reported by an      *)
(* event that nobody has taken with an older answer. The second follows    *)
(* the row (GraceInv): it is of the newest subscription, and no answer in  *)
(* flight says of a subscription that it is over when it is not.           *)

(* An event that reports the newest change at Stripe, or will when its     *)
(* answer is asked for: nobody has applied it, and no worker carries an    *)
(* older answer to it.                                                     *)
Fresh(e) ==
  /\ event[e].status # "free" /\ event[e].kind # "failed"
  /\ \A w \in Workers : worker[w].event = e =>
       /\ worker[w].pc # "applied"
       /\ worker[w].pc = "ready" => worker[w].ver = version

Waiting == \E e \in Events : Fresh(e)

(* Answers in flight are about the subscription that was asked for, and    *)
(* those of the present version are the subscription as it is.             *)
Carries(r, s) ==
  /\ r.snap.sub = s /\ s \in Subs
  /\ r.ver = version => r.snap = Snapshot(s)

WorkerCarries(w) ==
  worker[w].pc = "ready" /\ event[worker[w].event].kind # "failed" =>
    Carries(worker[w], event[worker[w].event].sub)

OwnerCarries ==
  owner.pc = "called" =>
    /\ Carries(owner, owner.sub)
    /\ owner.op \notin {"clear", "confirm"} => owner.snap.status \in Live

AnswerInv == OwnerCarries /\ \A w \in Workers : WorkerCarries(w)

(* When no such event is left, the newest answer has been applied, and it  *)
(* has ended the row if it was the last.                                   *)
Delivered ==
  /\ applied = version
  /\ Newest # NoSub /\ stripe[Newest].status = "canceled" =>
       EndedRow(ws.row, stripe[Newest].end)

FlowInv == AnswerInv /\ (flaws = {} /\ ~Waiting => Delivered)
-----------------------------------------------------------------------------
(* What every step does to Stripe and to the events that are held.         *)
Moved ==
  /\ version' \in Nat /\ version <= version'
  /\ version' = version => stripe' = stripe
  /\ \A e \in Events : event[e].status = "processing" =>
       event'[e].kind = event[e].kind /\ event'[e].sub = event[e].sub

LEMMA NoChangeMoved ==
  ASSUME IInv, NoChange
  PROVE  Moved
BY RowKnown DEF NoChange, Moved

LEMMA ChangeMoved ==
  ASSUME IInv, NEW s \in Subs, NEW sub, NEW kinds, Change(s, sub, kinds)
  PROVE  Moved /\ version' = version + 1
<1>1. version \in Nat /\ version' = version + 1
  BY RowKnown DEF Change
<1>2. PICK slot \in [kinds -> Events] :
        /\ \A k \in kinds : event[slot[k]].status = "free"
        /\ event' = [e \in Events |->
             IF \E k \in kinds : slot[k] = e
             THEN [kind |-> CHOOSE k \in kinds : slot[k] = e, sub |-> s,
                   status |-> "received", due |-> TRUE]
             ELSE event[e]]
  BY DEF Change
<1>3. ASSUME NEW e \in Events, event[e].status = "processing"
      PROVE  event'[e] = event[e]
  BY <1>2, <1>3
<1>4. QED
  BY <1>1, <1>3 DEF Moved

(* A change at Stripe is reported by an event nobody holds yet.            *)
LEMMA ChangeWaits ==
  ASSUME IInv, NEW s, NEW sub, NEW kinds, NEW k \in kinds, k # "failed",
         Change(s, sub, kinds),
         \A w \in Workers : worker'[w].event = worker[w].event
  PROVE  Waiting'
<1>1. PICK slot \in [kinds -> Events] :
        /\ \A j \in kinds : event[slot[j]].status = "free"
        /\ \A i, j \in kinds : slot[i] = slot[j] => i = j
        /\ event' = [e \in Events |->
             IF \E j \in kinds : slot[j] = e
             THEN [kind |-> CHOOSE j \in kinds : slot[j] = e, sub |-> s,
                   status |-> "received", due |-> TRUE]
             ELSE event[e]]
  BY DEF Change
<1> DEFINE e == slot[k]
<1>2. e \in Events /\ event[e].status = "free"
  BY <1>1
<1>3. event'[e].kind = k /\ event'[e].status = "received"
  BY <1>1, <1>2
<1>4. \A w \in Workers : worker[w].event # e
  BY <1>2, StripeAssumption DEF IInv, WorkerInv
<1>5. Fresh(e)'
  BY <1>3, <1>4 DEF Fresh
<1>6. QED
  BY <1>2, <1>5 DEF Waiting

LEMMA WorkerCarriesOn ==
  ASSUME IInv, AnswerInv, Moved, NEW w \in Workers, worker'[w] = worker[w]
  PROVE  WorkerCarries(w)'
<1>1. SUFFICES ASSUME worker[w].pc = "ready", event'[worker[w].event].kind # "failed"
               PROVE  Carries(worker[w], event[worker[w].event].sub)'
  BY DEF WorkerCarries
<1>2. /\ worker[w].event \in Events /\ event[worker[w].event].status = "processing"
      /\ worker[w].ver \in Nat /\ worker[w].ver <= version /\ version \in Nat
  BY <1>1, Holds
<1>3. /\ event'[worker[w].event].kind = event[worker[w].event].kind
      /\ event'[worker[w].event].sub = event[worker[w].event].sub
  BY <1>2 DEF Moved
<1>4. Carries(worker[w], event[worker[w].event].sub)
  BY <1>1, <1>3 DEF AnswerInv, WorkerCarries
<1>5. worker[w].ver = version' => version' = version /\ stripe' = stripe
  BY <1>2 DEF Moved
<1>6. QED
  BY <1>3, <1>4, <1>5 DEF Carries, Snapshot

LEMMA OwnerCarriesOn ==
  ASSUME IInv, AnswerInv, Moved, owner' = owner
  PROVE  OwnerCarries'
<1>1. owner.ver \in Nat /\ owner.ver <= version /\ version \in Nat
  BY RowKnown DEF IInv, OwnerInv, OwnerRecords
<1>2. owner.ver = version' => version' = version /\ stripe' = stripe
  BY <1>1 DEF Moved
<1>3. QED
  BY <1>2 DEF AnswerInv, OwnerCarries, Carries, Snapshot

LEMMA AnswersStay ==
  ASSUME IInv, AnswerInv, Moved, UNCHANGED <<worker, owner>>
  PROVE  AnswerInv'
BY WorkerCarriesOn, OwnerCarriesOn DEF AnswerInv

(* A step that changes no event and applies nothing.                       *)
LEMMA NothingApplied ==
  ASSUME FlowInv, UNCHANGED <<stripe, version, event, worker, applied>>,
         flaws' = {} => flaws = {},
         \A end : EndedRow(ws.row, end) => EndedRow(ws'.row, end)
  PROVE  flaws' = {} /\ ~Waiting' => Delivered'
<1>1. Waiting' <=> Waiting
  BY DEF Waiting, Fresh
<1>2. Newest' = Newest
  BY DEF Newest, Used
<1>3. QED
  BY <1>1, <1>2 DEF FlowInv, Delivered
-----------------------------------------------------------------------------
LEMMA StripeFlow ==
  ASSUME IInv, FlowInv, Stripe
  PROVE  FlowInv'
<1>1. PICK s, sub, kinds :
        /\ s \in Subs /\ Change(s, sub, kinds) /\ StripeKeeps
        /\ "checkout" \in kinds \/ "subscription" \in kinds
  BY DEF Stripe, Subscribe, PeriodEnds, RetrySucceeds, GivesUp
<1>2. AnswerInv'
  BY <1>1, ChangeMoved, AnswersStay DEF FlowInv, StripeKeeps
<1>3. Waiting'
  BY <1>1, ChangeWaits DEF StripeKeeps
<1>4. QED
  BY <1>2, <1>3 DEF FlowInv

LEMMA TickFlow ==
  ASSUME IInv, FlowInv, Tick
  PROVE  FlowInv'
<1>1. AnswerInv'
  BY NoChangeMoved, AnswersStay DEF Tick, NoChange, FlowInv
<1>2. QED
  BY <1>1, NothingApplied DEF Tick, FlowInv

LEMMA DailyFlow ==
  ASSUME IInv, FlowInv, SendPaymentWarnings \/ ExpireTrial
  PROVE  FlowInv'
<1>1. UNCHANGED <<clock, blocked, stripe, version, event, worker, owner, applied, flaws>>
  BY DEF SendPaymentWarnings, ExpireTrial
<1>2. AnswerInv'
  BY <1>1, NoChangeMoved, AnswersStay DEF NoChange, FlowInv
<1>3. ws'.row = ws.row \/ ws'.row = ApplyDueTransitions(ws, clock).row
  <2>1. ws \in Workspaces
    BY RowKnown, Known
  <2>2. QED
    BY <2>1 DEF SendPaymentWarnings, ExpireTrial, ExpireDueTrial, Workspaces
<1>4. ASSUME NEW end, EndedRow(ws.row, end) PROVE EndedRow(ws'.row, end)
  BY <1>3, <1>4, RowKnown, DueStaysEnded
<1>5. QED
  BY <1>1, <1>2, <1>4, NothingApplied DEF FlowInv

(* What Stripe is told about a blocked workspace is reported.              *)
LEMMA ToldWaits ==
  ASSUME IInv, NEW x, Sound(x), TellsToEnd(x) \/ TellsToGoOn(x),
         \A w \in Workers : worker'[w].event = worker[w].event
  PROVE  Moved /\ Waiting'
<1>1. x.row.sub \in Subs \cup {NoSub}
  BY Known DEF Rows
<1>2. PICK sub : x.row.sub \in Subs /\ Change(x.row.sub, sub, {"subscription"})
  BY <1>1, CancelledFits DEF TellsToEnd, TellsToGoOn
<1>3. QED
  BY <1>2, ChangeMoved, ChangeWaits

LEMMA BlockFlow ==
  ASSUME IInv, FlowInv, Block
  PROVE  FlowInv'
<1>1. UNCHANGED <<clock, worker, owner, flaws>>
  BY DEF Block
<1>2. CASE NoChange /\ UNCHANGED <<ws, applied>>
  <2>1. AnswerInv'
    BY <1>1, <1>2, NoChangeMoved, AnswersStay DEF FlowInv
  <2>2. QED
    BY <1>1, <1>2, <2>1, NothingApplied DEF FlowInv, NoChange
<1>3. CASE TellsToEnd(ws)
  <2>1. AnswerInv' /\ Waiting'
    BY <1>1, <1>3, RowKnown, ToldWaits, AnswersStay DEF FlowInv
  <2>2. QED
    BY <2>1 DEF FlowInv
<1>4. QED
  BY <1>2, <1>3 DEF Block

(* Stripe is told and the transaction rolled back.                         *)
LEMMA RolledBackFlow ==
  ASSUME IInv, FlowInv, BlockFails \/ UnblockFails
  PROVE  FlowInv'
<1>1. PICK x : Sound(x) /\ (TellsToEnd(x) \/ TellsToGoOn(x))
  BY RowKnown, DueKept DEF BlockFails, UnblockFails, Kept
<1>2. UNCHANGED <<worker, owner>>
  BY DEF BlockFails, UnblockFails
<1>3. AnswerInv' /\ Waiting'
  BY <1>1, <1>2, ToldWaits, AnswersStay DEF FlowInv
<1>4. QED
  BY <1>3 DEF FlowInv

LEMMA UnblockFlow ==
  ASSUME IInv, FlowInv, Unblock
  PROVE  FlowInv'
<1> DEFINE due == ApplyDueTransitions(ws, clock)
<1>1. UNCHANGED <<clock, worker, owner, flaws>>
  BY DEF Unblock
<1>2. Sound(ws) /\ Sound(due)
  BY RowKnown, DueKept DEF Kept
<1>3. CASE TellsToGoOn(due)
  <2> HIDE DEF due
  <2>1. AnswerInv' /\ Waiting'
    BY <1>1, <1>2, <1>3, ToldWaits, AnswersStay DEF FlowInv
  <2>2. QED
    BY <2>1 DEF FlowInv
<1>4. CASE /\ ws' = IF due.row.status \in Live THEN due ELSE [due EXCEPT !.plan = "basic"]
           /\ NoChange /\ UNCHANGED applied
  <2>1. ws'.row = due.row
    BY <1>2, <1>4, Known DEF Workspaces
  <2>2. ASSUME NEW end, EndedRow(ws.row, end) PROVE EndedRow(ws'.row, end)
    BY <1>2, <2>1, <2>2, DueStaysEnded
  <2>3. AnswerInv'
    BY <1>1, <1>4, NoChangeMoved, AnswersStay DEF FlowInv
  <2>4. QED
    BY <1>1, <1>4, <2>2, <2>3, NothingApplied DEF FlowInv, NoChange
<1>5. QED
  BY <1>3, <1>4 DEF Unblock
-----------------------------------------------------------------------------
(* A step that moves one worker, and its event at most.                    *)
LEMMA StillDelivered ==
  ASSUME FlowInv, UNCHANGED <<stripe, version, ws, applied>>,
         flaws' = {} => flaws = {}, flaws' = {} /\ Waiting => Waiting'
  PROVE  flaws' = {} /\ ~Waiting' => Delivered'
<1>1. Newest' = Newest
  BY DEF Newest, Used
<1>2. QED
  BY <1>1 DEF FlowInv, Delivered

LEMMA TurnFlow ==
  ASSUME IInv, AnswerInv, Moved, UNCHANGED owner, NEW w \in Workers,
         \A v \in Workers \ {w} : worker'[v] = worker[v],
         WorkerCarries(w)'
  PROVE  AnswerInv'
<1>1. \A v \in Workers : WorkerCarries(v)'
  BY WorkerCarriesOn
<1>2. QED
  BY <1>1, OwnerCarriesOn DEF AnswerInv

LEMMA ClaimFlow ==
  ASSUME IInv, FlowInv, NEW w \in Workers, Claim(w)
  PROVE  FlowInv'
<1>1. PICK e \in Events :
        worker[w].pc = "idle" /\ event[e].due /\ Claimable(e) /\ Take(w, e)
  BY DEF Claim
<1>2. /\ event' = [event EXCEPT ![e].status = "processing"]
      /\ UNCHANGED <<stripe, version, owner, ws, applied, flaws>>
      /\ event \in [Events -> Slots] /\ worker \in [Workers -> WorkerRecords]
  BY <1>1 DEF Take, IInv, EventInv, WorkerInv
<1>3. /\ worker'[w].event = e
      /\ worker'[w].pc = IF event[e].kind = "failed" THEN "ready" ELSE "claimed"
      /\ \A v \in Workers \ {w} : worker'[v] = worker[v]
  BY <1>1, <1>2 DEF Take, Idle
<1>4. /\ event'[e].status = "processing" /\ event'[e].kind = event[e].kind
      /\ event'[e].sub = event[e].sub
      /\ \A x \in Events \ {e} : event'[x] = event[x]
  BY <1>2 DEF Slots
<1>5. \A v \in Workers : worker[v].event # e
  BY <1>1, StripeAssumption DEF Claimable, Abandoned, IInv, WorkerInv
<1>6. AnswerInv'
  <2>1. Moved
    BY <1>2, <1>4, RowKnown DEF Moved
  <2>2. WorkerCarries(w)'
    BY <1>3, <1>4 DEF WorkerCarries
  <2>3. QED
    BY <1>2, <1>3, <2>1, <2>2, TurnFlow DEF FlowInv
<1>7. ASSUME NEW x \in Events, Fresh(x) PROVE Fresh(x)'
  <2>1. event'[x].status # "free" /\ event'[x].kind # "failed"
    BY <1>4, <1>7 DEF Fresh
  <2>2. ASSUME NEW v \in Workers, worker'[v].event = x
        PROVE  worker'[v].pc # "applied" /\ (worker'[v].pc = "ready" => worker'[v].ver = version')
    BY <1>2, <1>3, <1>7, <2>2 DEF Fresh
  <2>3. QED
    BY <2>1, <2>2 DEF Fresh
<1>8. QED
  BY <1>2, <1>6, <1>7, StillDelivered DEF FlowInv, Waiting

LEMMA AnswerFlow ==
  ASSUME IInv, FlowInv, NEW e \in Events, AnswerInProgress(e)
  PROVE  FlowInv'
<1>1. /\ UNCHANGED <<stripe, version, worker, owner, ws, applied>>
      /\ event \in [Events -> Slots] /\ event[e].status = "processing"
  BY DEF AnswerInProgress, IInv, EventInv
<1>2. /\ \A x \in Events \ {e} : event'[x] = event[x]
      /\ ~Abandoned(e) => /\ event'[e].status = event[e].status
                          /\ event'[e].kind = event[e].kind
                          /\ event'[e].sub = event[e].sub
                          /\ flaws' = flaws
      /\ Abandoned(e) => flaws' # {}
  BY <1>1 DEF AnswerInProgress, Slots, Flawed
<1>3. AnswerInv'
  <2>1. ASSUME NEW v \in Workers PROVE WorkerCarries(v)'
    <3>1. CASE worker[v].pc = "ready"
      <4>1. /\ worker[v].event \in Events
            /\ worker[v].event = e => ~Abandoned(e)
        BY <3>1, Holds DEF Abandoned
      <4>2. /\ event'[worker[v].event].kind = event[worker[v].event].kind
            /\ event'[worker[v].event].sub = event[worker[v].event].sub
        BY <1>2, <4>1
      <4>3. QED
        BY <1>1, <4>2 DEF FlowInv, AnswerInv, WorkerCarries, Carries, Snapshot
    <3>2. QED
      BY <1>1, <3>1 DEF WorkerCarries
  <2>2. OwnerCarries'
    BY <1>1 DEF FlowInv, AnswerInv, OwnerCarries, Carries, Snapshot
  <2>3. QED
    BY <2>1, <2>2 DEF AnswerInv
<1>4. ASSUME flaws' = {}, NEW x \in Events, Fresh(x) PROVE Fresh(x)'
  BY <1>1, <1>2, <1>4 DEF Fresh
<1>5. flaws' = {} => flaws = {}
  BY <1>2
<1>6. QED
  BY <1>1, <1>3, <1>4, <1>5, StillDelivered DEF FlowInv, Waiting

LEMMA RetrieveFlow ==
  ASSUME IInv, FlowInv, NEW w \in Workers, Retrieve(w) \/ RetrieveFails(w)
  PROVE  FlowInv'
<1>0. PICK s : s = event[worker[w].event].sub
  OBVIOUS
<1>1. /\ UNCHANGED <<stripe, version, event, owner, ws, applied, flaws>>
      /\ worker \in [Workers -> WorkerRecords] /\ worker[w].pc = "claimed"
  BY DEF Retrieve, RetrieveFails, IInv, WorkerInv
<1>2. worker[w].event \in Events /\ Exists(s)
  BY <1>0, <1>1, Holds
<1>3. /\ worker'[w].event = worker[w].event
      /\ \/ /\ worker'[w].pc = "ready" /\ worker'[w].ver = version
            /\ worker'[w].snap = Snapshot(s)
         \/ worker'[w].pc = "raised"
      /\ \A v \in Workers \ {w} : worker'[v] = worker[v]
  BY <1>0, <1>1 DEF Retrieve, RetrieveFails, WorkerRecords
<1>4. Snapshot(s)' = Snapshot(s) /\ Snapshot(s).sub = s /\ s \in Subs
  BY <1>1, <1>2 DEF Snapshot, SnapshotOf, Exists
<1>5. AnswerInv'
  <2>1. Moved
    BY <1>1, NoChangeMoved DEF NoChange
  <2>2. WorkerCarries(w)'
    <3>1. event'[worker'[w].event].sub = s
      BY <1>0, <1>1, <1>3
    <3>2. worker'[w].pc = "ready" => Carries(worker[w], s)'
      BY <1>1, <1>3, <1>4 DEF Carries
    <3>3. QED
      BY <3>1, <3>2 DEF WorkerCarries
  <2>3. QED
    BY <1>1, <1>3, <2>1, <2>2, TurnFlow DEF FlowInv
<1>6. ASSUME NEW x \in Events, Fresh(x) PROVE Fresh(x)'
  BY <1>1, <1>3, <1>6 DEF Fresh
<1>7. QED
  BY <1>1, <1>5, <1>6, StillDelivered DEF FlowInv, Waiting

(* An event is freed when it has been applied, or it is a flaw.            *)
LEMMA ReleaseFlow ==
  ASSUME IInv, FlowInv, NEW w \in Workers, worker[w].pc # "idle",
         NEW status \in {"free", "received", "processing"}, NEW lost \in BOOLEAN,
         Release(w, status, lost),
         worker[w].pc # "applied" => status # "free" /\ lost = TRUE
  PROVE  FlowInv'
<1> DEFINE e == worker[w].event
<1>1. /\ e \in Events /\ event[e] \in Slots /\ event[e].status = "processing"
      /\ \A v \in Workers \ {w} : worker[v].event # e
      /\ event \in [Events -> Slots] /\ worker \in [Workers -> WorkerRecords]
  BY Holds DEF IInv, EventInv, WorkerInv
<1>2. /\ UNCHANGED <<stripe, version, owner, ws, applied>>
      /\ \A x \in Events \ {e} : event'[x] = event[x]
      /\ \A v \in Workers \ {w} : worker'[v] = worker[v]
      /\ worker'[w] = Idle
  BY <1>1 DEF Release
<1>3. (flaws' = {} => flaws = {}) /\ (flaws' = {} /\ lost => event[e].due)
  BY DEF Release, Flawed
<1>4. status # "free" /\ event[e].due =>
        event'[e].status = status /\ event'[e].kind = event[e].kind
  BY <1>1 DEF Release, Slots
<1>5. Idle.pc = "idle" /\ Idle.event = NoEvent /\ NoEvent \notin Events
  BY StripeAssumption DEF Idle
<1> HIDE DEF e
<1>6. AnswerInv'
  <2>1. ASSUME NEW v \in Workers PROVE WorkerCarries(v)'
    <3>1. CASE v = w
      BY <1>2, <1>5, <3>1 DEF WorkerCarries
    <3>2. CASE v # w /\ worker[v].pc = "ready"
      <4>1. worker[v].event \in Events /\ worker[v].event # e
        BY <1>1, <3>2, Holds
      <4>2. worker'[v] = worker[v] /\ event'[worker[v].event] = event[worker[v].event]
        BY <1>2, <3>2, <4>1
      <4>3. QED
        BY <1>2, <4>2 DEF FlowInv, AnswerInv, WorkerCarries, Carries, Snapshot
    <3>3. QED
      BY <1>2, <3>1, <3>2 DEF WorkerCarries
  <2>2. OwnerCarries'
    BY <1>2 DEF FlowInv, AnswerInv, OwnerCarries, Carries, Snapshot
  <2>3. QED
    BY <2>1, <2>2 DEF AnswerInv
<1>7. ASSUME flaws' = {}, NEW x \in Events, Fresh(x) PROVE Fresh(x)'
  <2>1. x = e => worker[w].pc # "applied"
    BY <1>7 DEF Fresh, e
  <2>2. event'[x].status # "free" /\ event'[x].kind # "failed"
    BY <1>2, <1>3, <1>4, <1>7, <2>1 DEF Fresh
  <2>3. ASSUME NEW v \in Workers, worker'[v].event = x
        PROVE  worker'[v].pc # "applied" /\ (worker'[v].pc = "ready" => worker'[v].ver = version')
    BY <1>2, <1>5, <1>7, <2>3 DEF Fresh
  <2>4. QED
    BY <2>2, <2>3 DEF Fresh
<1>8. QED
  BY <1>2, <1>3, <1>6, <1>7, StillDelivered DEF FlowInv, Waiting

LEMMA WorkerEndsFlow ==
  ASSUME IInv, FlowInv, NEW w \in Workers, MarkProcessed(w) \/ MarkFailed(w) \/ Crash(w)
  PROVE  FlowInv'
<1>1. CASE MarkProcessed(w)
  <2>1. /\ worker[w].pc # "idle" /\ worker[w].pc = "applied"
        /\ Release(w, "free", FALSE)
    BY <1>1 DEF MarkProcessed
  <2>2. QED
    BY <2>1, ReleaseFlow
<1>2. CASE MarkFailed(w)
  BY <1>2, ReleaseFlow DEF MarkFailed
<1>3. CASE Crash(w)
  <2>1. PICK lost \in BOOLEAN : lost = (worker[w].pc # "applied")
    OBVIOUS
  <2>2. /\ worker[w].pc # "idle" /\ (worker[w].pc # "applied" => lost = TRUE)
        /\ Release(w, "processing", lost)
    BY <1>3, <2>1 DEF Crash
  <2>3. QED
    BY <2>2, ReleaseFlow
<1>4. QED
  BY <1>1, <1>2, <1>3
-----------------------------------------------------------------------------
(* The answer a subscription is over with ends the row, however it comes.  *)
LEMMA DispatchEnds ==
  ASSUME IInv, NEW kind, kind # "failed", NEW snap \in Answers(Ends),
         snap.status = "canceled", NEW x \in Dispatched(kind, snap)
  PROVE  EndedRow(x.row, snap.end)
<1>1. Sound(ws) /\ clock \in Nat /\ snap \in Answers(ws.trial.ends)
  BY RowKnown DEF Ends
<1>2. ASSUME NEW y \in Reconcile(ws, snap, clock)
      PROVE  Sound(y) /\ EndedRow(y.row, snap.end)
  BY <1>1, <1>2, ReconcileEnds, ReconcileKept DEF AllKept, Kept
<1>3. CASE kind = "subscription"
  <2>1. PICK y \in Reconcile(ws, snap, clock) : x = ApplyDueTransitions(y, clock)
    BY <1>3 DEF Dispatched
  <2>2. QED
    BY <1>2, <2>1, DueStaysEnded
<1>4. CASE kind # "subscription"
  <2>1. x \in Reconcile(ws, snap, clock)
    BY <1>4 DEF Dispatched
  <2>2. QED
    BY <1>2, <2>1
<1>5. QED
  BY <1>3, <1>4

(* A worker that goes on with its event, without a change at Stripe,       *)
(* leaves the events of the others fresh.                                  *)
LEMMA OthersFresh ==
  ASSUME UNCHANGED <<version, event>>, NEW w \in Workers,
         \A v \in Workers \ {w} : worker'[v] = worker[v],
         worker'[w].event = worker[w].event,
         NEW x \in Events, Fresh(x), x # worker[w].event
  PROVE  Fresh(x)'
BY DEF Fresh

LEMMA ApplyFlow ==
  ASSUME IInv, FlowInv, NEW w \in Workers, Apply(w)
  PROVE  FlowInv'
<1> DEFINE e == worker[w].event
           ver == worker[w].ver
<1>1. /\ worker[w].pc = "ready" /\ UNCHANGED owner
      /\ worker \in [Workers -> WorkerRecords]
      /\ e \in Events /\ ver \in Nat /\ ver <= version /\ version \in Nat
      /\ applied \in Nat /\ applied <= version
  BY Holds, RowKnown DEF Apply, IInv, WorkerInv
<1>2. CASE /\ worker' = [worker EXCEPT ![w].pc = "raised"]
           /\ UNCHANGED <<ws, applied, flaws>> /\ NoChange
  <2>1. /\ worker'[w].pc = "raised" /\ worker'[w].event = e
        /\ \A v \in Workers \ {w} : worker'[v] = worker[v]
    BY <1>1, <1>2 DEF WorkerRecords
  <2>2. UNCHANGED <<stripe, version, event>>
    BY <1>2 DEF NoChange
  <2>3. AnswerInv'
    <3>1. WorkerCarries(w)'
      BY <2>1 DEF WorkerCarries
    <3>2. QED
      BY <1>1, <1>2, <2>1, <3>1, NoChangeMoved, TurnFlow DEF FlowInv
  <2>4. ASSUME NEW x \in Events, Fresh(x) PROVE Fresh(x)'
    BY <2>1, <2>2, <2>4 DEF Fresh
  <2>5. QED
    BY <1>2, <2>2, <2>3, <2>4, StillDelivered DEF FlowInv, Waiting
<1>3. CASE /\ \E x \in Dispatched(event[e].kind, worker[w].snap) :
                Settle(x, FlawsOf(e, ver))
           /\ applied' = NewestOf(applied, ver)
           /\ worker' = [worker EXCEPT ![w].pc = "applied",
                                       ![w].snap = NoSnapshot, ![w].ver = 0]
  <2>1. PICK x \in Dispatched(event[e].kind, worker[w].snap) : Settle(x, FlawsOf(e, ver))
    BY <1>3
  <2>2. /\ worker'[w].pc = "applied" /\ worker'[w].event = e
        /\ \A v \in Workers \ {w} : worker'[v] = worker[v]
        /\ \A v \in Workers : worker'[v].event = worker[v].event
    BY <1>1, <1>3 DEF WorkerRecords
  <2>3. /\ event[e].kind # "failed" => worker[w].snap \in Answers(Ends)
        /\ Sound(x)
    <3>1. event[e].kind # "failed" => worker[w].snap \in Answers(Ends)
      BY <1>1 DEF IInv, WorkerInv
    <3>2. QED
      BY <3>1, DispatchedKept DEF AllKept, Kept
  <2>4. CASE TellsToEnd(x)
    <3>1. Moved /\ Waiting'
      BY <2>2, <2>3, <2>4, ToldWaits
    <3>2. WorkerCarries(w)'
      BY <2>2 DEF WorkerCarries
    <3>3. AnswerInv'
      BY <1>1, <2>2, <3>1, <3>2, TurnFlow DEF FlowInv
    <3>4. QED
      BY <3>1, <3>3 DEF FlowInv
  <2>5. ASSUME NEW f, NoChange, ws' = x, Flawed(FlawsOf(e, ver) \cup f)
        PROVE  FlowInv'
    <3>1. UNCHANGED <<stripe, version, event>>
      BY <2>5 DEF NoChange
    <3>2. AnswerInv'
      <4>1. WorkerCarries(w)'
        BY <2>2 DEF WorkerCarries
      <4>2. QED
        BY <1>1, <2>2, <2>5, <4>1, NoChangeMoved, TurnFlow DEF FlowInv
    <3>3. ASSUME flaws' = {}, ~Waiting' PROVE Delivered'
      <4>1. flaws = {} /\ FlawsOf(e, ver) = {}
        BY <2>5, <3>3 DEF Flawed
      <4>2. /\ event[e].sub = Newest
            /\ event[e].kind # "failed" => ~(ver < applied)
            /\ event[e].kind = "failed" => stripe[event[e].sub].status = "past_due"
        <5>1. /\ "overtaken" \notin FlawsOf(e, ver) /\ "late" \notin FlawsOf(e, ver)
              /\ "old" \notin FlawsOf(e, ver)
          BY <4>1
        <5>2. QED
          BY <5>1 DEF FlawsOf
      <4>3. Newest' = Newest
        BY <3>1 DEF Newest, Used
      <4>4. ASSUME NEW y \in Events, y # e PROVE ~Fresh(y)
        BY <2>2, <3>1, <3>3, <4>4, OthersFresh DEF Waiting
      <4>5. CASE event[e].kind = "failed"
        <5>1. ~Waiting
          BY <4>4, <4>5 DEF Waiting, Fresh
        <5>2. applied = version
          BY <4>1, <5>1 DEF FlowInv, Delivered
        <5>3. applied' = version
          BY <1>1, <1>3, <5>2 DEF NewestOf
        <5>4. QED
          BY <3>1, <4>2, <4>3, <4>5, <5>3 DEF Delivered
      <4>6. CASE event[e].kind # "failed" /\ ver # version
        <5>1. ~Fresh(e)
          BY <1>1, <4>6 DEF Fresh
        <5>2. ~Waiting
          BY <4>4, <5>1 DEF Waiting
        <5>3. applied = version
          BY <4>1, <5>2 DEF FlowInv, Delivered
        <5>4. QED
          BY <1>1, <4>2, <4>6, <5>3
      <4>7. CASE event[e].kind # "failed" /\ ver = version
        <5>1. applied' = version
          BY <1>1, <1>3, <4>7 DEF NewestOf
        <5>2. worker[w].snap = Snapshot(Newest) /\ Newest \in Subs
          BY <1>1, <4>2, <4>7 DEF FlowInv, AnswerInv, WorkerCarries, Carries
        <5>3. /\ worker[w].snap.status = stripe[Newest].status
              /\ worker[w].snap.end = stripe[Newest].end
          BY <5>2 DEF Snapshot, SnapshotOf
        <5>4. stripe[Newest].status = "canceled" => EndedRow(x.row, stripe[Newest].end)
          BY <2>3, <4>7, <5>3, DispatchEnds
        <5>5. QED
          BY <2>5, <3>1, <4>3, <5>1, <5>4 DEF Delivered
      <4>8. QED
        BY <4>5, <4>6, <4>7
    <3>4. QED
      BY <3>2, <3>3 DEF FlowInv
  <2>6. \/ TellsToEnd(x)
        \/ \E f : NoChange /\ ws' = x /\ Flawed(FlawsOf(e, ver) \cup f)
    <3>1. FlawsOf(e, ver) = FlawsOf(e, ver) \cup {}
      OBVIOUS
    <3>2. QED
      BY <2>1, <3>1, Zenon DEF Settle
  <2>7. QED
    BY <2>4, <2>5, <2>6
<1>4. QED
  BY <1>2, <1>3 DEF Apply

(* The transaction of an event is rolled back after Stripe was told.       *)
LEMMA ApplyRolledBackFlow ==
  ASSUME IInv, FlowInv, NEW w \in Workers, ApplyRolledBack(w)
  PROVE  FlowInv'
<1> DEFINE e == worker[w].event
<1>1. /\ worker[w].pc = "ready" /\ UNCHANGED owner
      /\ worker \in [Workers -> WorkerRecords]
      /\ worker' = [worker EXCEPT ![w].pc = "raised"]
  BY DEF ApplyRolledBack, IInv, WorkerInv
<1>2. PICK x \in Dispatched(event[e].kind, worker[w].snap) : TellsToEnd(x)
  BY DEF ApplyRolledBack
<1>3. event[e].kind # "failed" => worker[w].snap \in Answers(Ends)
  BY <1>1 DEF IInv, WorkerInv
<1>4. Sound(x)
  BY <1>3, DispatchedKept DEF AllKept, Kept
<1>5. /\ worker'[w].pc = "raised"
      /\ \A v \in Workers \ {w} : worker'[v] = worker[v]
      /\ \A v \in Workers : worker'[v].event = worker[v].event
  BY <1>1 DEF WorkerRecords
<1>6. Moved /\ Waiting'
  BY <1>2, <1>4, <1>5, ToldWaits
<1>7. AnswerInv'
  <2>1. WorkerCarries(w)'
    BY <1>5 DEF WorkerCarries
  <2>2. QED
    BY <1>1, <1>5, <1>6, <2>1, TurnFlow DEF FlowInv
<1>8. QED
  BY <1>6, <1>7 DEF FlowInv
-----------------------------------------------------------------------------
LEMMA OwnerRests ==
  ASSUME IInv, AnswerInv, Moved, UNCHANGED worker, owner'.pc # "called"
  PROVE  AnswerInv'
BY WorkerCarriesOn DEF AnswerInv, OwnerCarries

LEMMA OwnerAsksFlow ==
  ASSUME IInv, FlowInv, OwnerReads \/ OwnerRefused
  PROVE  FlowInv'
<1>1. UNCHANGED <<stripe, version, event, worker, ws, applied, flaws>>
  BY DEF OwnerReads, OwnerRefused
<1>2. owner'.pc # "called"
  <2>1. CASE OwnerReads
    BY <2>1 DEF OwnerReads, NoRequest
  <2>2. CASE OwnerRefused
    BY <2>2 DEF OwnerRefused, NoRequest
  <2>3. QED
    BY <2>1, <2>2
<1>3. AnswerInv'
  BY <1>1, <1>2, NoChangeMoved, OwnerRests DEF NoChange, FlowInv
<1>4. QED
  BY <1>1, <1>3, NothingApplied DEF FlowInv

LEMMA OwnerCallsFlow ==
  ASSUME IInv, FlowInv, OwnerCalls
  PROVE  FlowInv'
<1>0. PICK s : s = owner.sub
  OBVIOUS
<1>1. /\ owner \in OwnerRecords /\ owner.op \in Ops /\ s \in Subs
      /\ UNCHANGED <<ws, worker, applied>>
  BY <1>0 DEF OwnerCalls, IInv, OwnerInv, OwnerRecords
<1>2. CASE /\ owner.op = "confirm" /\ NoChange /\ UNCHANGED flaws
           /\ owner' = [owner EXCEPT !.pc = "called", !.ver = version, !.snap = Snapshot(s)]
  <2>1. UNCHANGED <<stripe, version, event>>
    BY <1>2 DEF NoChange
  <2>2. /\ owner'.op = "confirm" /\ owner'.sub = s /\ owner'.ver = version
        /\ owner'.snap = Snapshot(s)
    BY <1>0, <1>1, <1>2 DEF OwnerRecords
  <2>3. Snapshot(s)' = Snapshot(s) /\ Snapshot(s).sub = s
    BY <2>1 DEF Snapshot, SnapshotOf
  <2>4. OwnerCarries'
    BY <1>1, <2>1, <2>2, <2>3 DEF OwnerCarries, Carries
  <2>5. AnswerInv'
    BY <1>1, <1>2, <2>4, NoChangeMoved, WorkerCarriesOn DEF AnswerInv, FlowInv
  <2>6. QED
    BY <1>1, <1>2, <2>1, <2>5, NothingApplied DEF FlowInv
<1>3. CASE /\ owner.op # "confirm" /\ Accepted(s)
           /\ Change(s, Asked(s), IF owner.op = "upgrade" THEN {"subscription", "paid"}
                                  ELSE {"subscription"})
           /\ owner' = [owner EXCEPT !.pc = "called", !.ver = version + 1,
                                     !.snap = SnapshotOf(s, Asked(s))]
  <2>1. PICK kinds :
          /\ Change(s, Asked(s), kinds)
          /\ "subscription" \in kinds
    BY <1>3
  <2>2. Moved /\ version' = version + 1 /\ Waiting'
    BY <1>1, <2>1, ChangeMoved, ChangeWaits
  <2>3. /\ owner'.op = owner.op /\ owner'.sub = s /\ owner'.ver = version + 1
        /\ owner'.snap = SnapshotOf(s, Asked(s))
    BY <1>0, <1>1, <1>3 DEF OwnerRecords
  <2>4. stripe[s].status \in Live
    BY <1>3 DEF Accepted, IsLive
  <2>5. stripe \in [Subs -> SubscriptionRecords]
    BY DEF IInv, StripeInv, Subscriptions
  <2>6. owner.op # "clear" => Asked(s).status = stripe[s].status
    BY <1>1, <1>3, <2>5 DEF Asked, Ops, WithTarget, SubscriptionRecords
  <2>7. stripe'[s] = Asked(s)
    BY <1>1, <2>1, <2>5 DEF Change
  <2>8. SnapshotOf(s, Asked(s)).sub = s /\ SnapshotOf(s, Asked(s)).status = Asked(s).status
        /\ Snapshot(s)' = SnapshotOf(s, Asked(s))
    BY <2>7 DEF Snapshot, SnapshotOf
  <2>9. OwnerCarries'
    BY <1>1, <2>2, <2>3, <2>4, <2>6, <2>8 DEF OwnerCarries, Carries
  <2>10. QED
    BY <1>1, <2>2, <2>9, WorkerCarriesOn DEF AnswerInv, FlowInv
<1>4. QED
  BY <1>0, <1>2, <1>3 DEF OwnerCalls

(* What the owner has been answered, when nothing newer is to come.        *)
LEMMA OwnerKnows ==
  ASSUME IInv, FlowInv, owner.pc = "called", flaws = {}, ~Waiting,
         Overtaken = {}, Older = {}
  PROVE  /\ applied = version /\ owner.ver = version /\ version \in Nat
         /\ owner.sub = Newest /\ Newest \in Subs
         /\ owner.snap.status = stripe[Newest].status
         /\ owner.snap.end = stripe[Newest].end
         /\ stripe[Newest].status = "canceled" => owner.op \in {"clear", "confirm"}
<1>1. /\ owner.ver \in Nat /\ owner.ver <= version /\ version \in Nat
      /\ owner.snap \in Answers(Ends)
  BY RowKnown DEF IInv, OwnerInv, OwnerRecords
<1>2. applied = version
  BY DEF FlowInv, Delivered
<1>3. owner.ver = version /\ owner.sub = Newest
  BY <1>1, <1>2 DEF Overtaken, Older
<1>4. owner.snap = Snapshot(Newest) /\ Newest \in Subs
      /\ (owner.op \notin {"clear", "confirm"} => owner.snap.status \in Live)
  BY <1>3 DEF FlowInv, AnswerInv, OwnerCarries, Carries
<1>5. owner.snap.status = stripe[Newest].status /\ owner.snap.end = stripe[Newest].end
  BY <1>4 DEF Snapshot, SnapshotOf
<1>6. QED
  BY <1>1, <1>2, <1>3, <1>4, <1>5 DEF Live

LEMMA OwnerWritesFlow ==
  ASSUME IInv, FlowInv, OwnerWrites
  PROVE  FlowInv'
<1>1. /\ owner.pc = "called" /\ ws' \in Written /\ owner'.pc # "called"
      /\ UNCHANGED <<clock, stripe, version, event, worker>>
      /\ applied' = NewestOf(applied, owner.ver)
  BY DEF OwnerWrites, NoRequest
<1>2. AnswerInv'
  BY <1>1, NoChangeMoved, OwnerRests DEF NoChange, FlowInv
<1>3. ASSUME flaws' = {}, ~Waiting' PROVE Delivered'
  <2>1. flaws = {} /\ Overtaken = {} /\ Older = {} /\ ~Waiting
    BY <1>1, <1>3 DEF OwnerWrites, Flawed, Waiting, Fresh
  <2>2. /\ applied = version /\ owner.ver = version /\ version \in Nat
        /\ owner.snap.status = stripe[Newest].status
        /\ owner.snap.end = stripe[Newest].end
        /\ stripe[Newest].status = "canceled" => owner.op \in {"clear", "confirm"}
    BY <1>1, <2>1, OwnerKnows
  <2>3. applied' = version' /\ Newest' = Newest
    BY <1>1, <2>2 DEF NewestOf, Newest, Used
  <2>4. /\ Sound(ws) /\ owner.snap \in Answers(ws.trial.ends) /\ clock \in Nat
    BY <1>1, RowKnown DEF IInv, OwnerInv, Ends
  <2>5. ASSUME stripe[Newest].status = "canceled"
        PROVE  EndedRow(ws'.row, stripe[Newest].end)
    <3>1. CASE owner.op = "confirm"
      <4>1. ws' \in Reconcile(ws, owner.snap, clock)
        BY <1>1, <3>1 DEF Written
      <4>2. QED
        BY <2>2, <2>4, <2>5, <4>1, ReconcileEnds
    <3>2. CASE owner.op = "clear"
      <4>1. PICK y \in Reconcile(ws, owner.snap, clock) :
              ws' = FinalizeSubscriptionEnd(y, clock)
        BY <1>1, <3>2 DEF Written
      <4>2. Sound(y)
        BY <2>4, ReconcileKept DEF AllKept, Kept
      <4>3. QED
        BY <4>1, <4>2, FinalRow DEF EndedRow
    <3>3. QED
      BY <2>2, <2>5, <3>1, <3>2
  <2>6. QED
    BY <1>1, <2>3, <2>5 DEF Delivered
<1>4. QED
  BY <1>2, <1>3 DEF FlowInv

LEMMA OwnerInterruptedFlow ==
  ASSUME IInv, FlowInv, OwnerInterrupted
  PROVE  FlowInv'
<1>1. /\ owner.pc = "called" /\ owner'.pc # "called"
      /\ ws' = ws \/ ws' \in ReconciledInPart(ws, owner.snap)
      /\ UNCHANGED <<clock, stripe, version, event, worker, applied>>
  BY DEF OwnerInterrupted, NoRequest
<1>2. AnswerInv'
  BY <1>1, NoChangeMoved, OwnerRests DEF NoChange, FlowInv
<1>3. ASSUME flaws' = {}, ~Waiting' PROVE Delivered'
  <2>1. flaws = {} /\ Overtaken = {} /\ Older = {} /\ ~Waiting
    BY <1>1, <1>3 DEF OwnerInterrupted, Flawed, Waiting, Fresh
  <2>2. owner.snap.status = stripe[Newest].status
    BY <1>1, <2>1, OwnerKnows
  <2>3. Newest' = Newest
    BY <1>1 DEF Newest, Used
  <2>4. ws \in Workspaces /\ ws.row \in Rows
    BY RowKnown, Known
  <2>5. ASSUME owner.snap.status = "canceled"
        PROVE  /\ ws'.row.status = ws.row.status /\ ws'.row.cancel = ws.row.cancel
               /\ ws'.row.pendingAt = ws.row.pendingAt
    <3>1. ws' = ws \/ ws' = WithIds(ws, owner.snap)
      BY <1>1, <2>5 DEF ReconciledInPart
    <3>2. CASE ws' = WithIds(ws, owner.snap)
      <4>1. ws'.row = [ws.row EXCEPT !.source = "stripe", !.sub = owner.snap.sub]
        BY <2>4, <3>2 DEF WithIds, Workspaces
      <4>2. QED
        BY <2>4, <4>1 DEF Rows
    <3>3. QED
      BY <3>1, <3>2
  <2>6. Delivered
    BY <2>1 DEF FlowInv
  <2>7. QED
    BY <1>1, <2>2, <2>3, <2>5, <2>6 DEF Delivered, EndedRow
<1>4. QED
  BY <1>2, <1>3 DEF FlowInv
-----------------------------------------------------------------------------
LEMMA InitFlow ==
  ASSUME Init
  PROVE  FlowInv
<1>1. /\ version = 0 /\ applied = 0 /\ stripe = [s \in Subs |-> NoSubscription]
      /\ owner.pc = "idle" /\ \A w \in Workers : worker[w].pc = "idle"
  BY DEF Init, NoRequest, Idle
<1>2. Newest = NoSub
  BY <1>1 DEF Newest, Used, NoSubscription
<1>3. QED
  BY <1>1, <1>2 DEF FlowInv, AnswerInv, OwnerCarries, WorkerCarries, Delivered

LEMMA StepFlow ==
  ASSUME IInv, FlowInv, [Next]_vars
  PROVE  FlowInv'
<1>1. CASE Stripe
  BY <1>1, StripeFlow
<1>2. CASE Owner
  BY <1>2, OwnerAsksFlow, OwnerCallsFlow, OwnerWritesFlow, OwnerInterruptedFlow
     DEF Owner
<1>3. CASE Platform
  BY <1>3, DailyFlow, BlockFlow, UnblockFlow, RolledBackFlow DEF Platform
<1>4. CASE Tick
  BY <1>4, TickFlow
<1>5. CASE \E w \in Workers : Webhook(w)
  BY <1>5, ClaimFlow, RetrieveFlow, ApplyFlow, ApplyRolledBackFlow, WorkerEndsFlow
     DEF Webhook
<1>6. CASE \E e \in Events : AnswerInProgress(e)
  BY <1>6, AnswerFlow
<1>7. CASE UNCHANGED vars
  BY <1>7 DEF vars, FlowInv, AnswerInv, OwnerCarries, WorkerCarries, Carries, Delivered,
              Waiting, Fresh, Snapshot, Newest, Used
<1>8. QED
  BY <1>1, <1>2, <1>3, <1>4, <1>5, <1>6, <1>7 DEF Next

(* The newest change at Stripe is applied, or an event that reports it is  *)
(* still to be delivered, retried or applied with an answer as new: no     *)
(* order, crash, error or repetition consumes the last of them.            *)
THEOREM AnswersReachTheRow == Spec => []FlowInv
<1>1. IInv /\ FlowInv /\ [Next]_vars => FlowInv'
  BY StepFlow
<1>2. QED
  BY <1>1, InitFlow, Invariance, PTL DEF Spec

(* When everything is quiet the newest change at Stripe has reached the    *)
(* row, however many workers and events there are, unless a circumstance   *)
(* in flaws has occurred.                                                  *)
THEOREM NothingIsForgotten == Spec => []NothingForgotten
<1>1. FlowInv => NothingForgotten
  BY DEF FlowInv, Waiting, Fresh, Delivered, NothingForgotten, Quiet
<1>2. QED
  BY <1>1, AnswersReachTheRow, PTL

(* When everything is quiet the row of a subscription that Stripe has      *)
(* ended is over, or to be ended when the time that is paid is over, which *)
(* the next request or daily command does.                                 *)
THEOREM EndsAgree == Spec => []EndedAgrees
<1>1. ASSUME IInv, FlowInv, Quiet, flaws = {}, Newest # NoSub,
             stripe[Newest].status = "canceled", ws.row.status \in Live
      PROVE  /\ ws.row.cancel
             /\ \/ stripe[Newest].end > clock
                \/ ApplyDueTransitions(ws, clock).row.status = "canceled"
  <2>1. /\ ws.row.cancel /\ ws.row.pendingAt = stripe[Newest].end
        /\ ws.row.pendingAt # NoTime
    BY <1>1 DEF FlowInv, Waiting, Fresh, Delivered, Quiet, EndedRow
  <2>2. ws \in Workspaces /\ ws.row \in Rows /\ ws.row.pendingAt \in Nat /\ clock \in Nat
    BY <1>1, RowKnown, Known, Dates
  <2>3. CASE ~ (stripe[Newest].end > clock)
    <3>1. PendingOver(ws.row, clock)
      BY <2>1, <2>2, <2>3 DEF PendingOver
    <3>2. ApplyDueTransitions(ws, clock) = FinalizeSubscriptionEnd(ws, clock)
      BY <2>1, <3>1 DEF ApplyDueTransitions
    <3>3. FinalizeSubscriptionEnd(ws, clock).row.status = "canceled"
      BY <1>1, <2>2 DEF FinalizeSubscriptionEnd, Live, Workspaces, Rows, NoPending
    <3>4. QED
      BY <2>1, <3>2, <3>3
  <2>4. QED
    BY <2>1, <2>3
<1>2. IInv /\ FlowInv => EndedAgrees
  BY <1>1 DEF EndedAgrees
<1>3. QED
  BY <1>2, Invariance, AnswersReachTheRow, PTL
-----------------------------------------------------------------------------
(* The answers of Stripe that have been asked for and not been applied.    *)
Answer(r) == [snap |-> r.snap, ver |-> r.ver]

Carriers ==
  {w \in Workers : worker[w].pc = "ready" /\ event[worker[w].event].kind # "failed"}

Flight ==
  {Answer(worker[w]) : w \in Carriers}
  \cup {a \in {Answer(owner)} : owner.pc = "called"}

(* A step adds none but the present one.                                   *)
FlightStep ==
  \A a \in Flight' :
    a \in Flight \/ \E s \in Subs : a.snap = Snapshot(s)' /\ a.ver = version'

(* A worker goes on as it was, puts its answer away or gets the present.   *)
LEMMA WorkerFlight ==
  ASSUME \A w \in Workers :
           \/ /\ worker'[w] = worker[w]
              /\ worker[w].pc = "ready" =>
                   event'[worker[w].event].kind = event[worker[w].event].kind
           \/ w \notin Carriers'
           \/ \E s \in Subs : worker'[w].snap = Snapshot(s)' /\ worker'[w].ver = version',
         \/ owner' = owner \/ owner'.pc # "called"
         \/ \E s \in Subs : owner'.snap = Snapshot(s)' /\ owner'.ver = version'
  PROVE  FlightStep
<1>1. ASSUME NEW a \in Flight'
      PROVE  a \in Flight \/ \E s \in Subs : a.snap = Snapshot(s)' /\ a.ver = version'
  <2>1. CASE owner'.pc = "called" /\ a = Answer(owner)'
    BY <2>1 DEF Flight, Answer
  <2>2. CASE \E w \in Carriers' : a = Answer(worker'[w])
    <3>1. PICK w \in Carriers' : a = Answer(worker'[w])
      BY <2>2
    <3>2. w \in Workers /\ a.snap = worker'[w].snap /\ a.ver = worker'[w].ver
          /\ worker'[w].pc = "ready" /\ event'[worker'[w].event].kind # "failed"
      BY <3>1 DEF Carriers, Answer
    <3>3. CASE \E s \in Subs : worker'[w].snap = Snapshot(s)' /\ worker'[w].ver = version'
      BY <3>2, <3>3
    <3>4. CASE /\ worker'[w] = worker[w]
               /\ worker[w].pc = "ready" =>
                    event'[worker[w].event].kind = event[worker[w].event].kind
      <4>1. w \in Carriers /\ a = Answer(worker[w])
        BY <3>1, <3>2, <3>4 DEF Carriers, Answer
      <4>2. QED
        BY <4>1 DEF Flight
    <3>5. QED
      BY <3>1, <3>2, <3>3, <3>4
  <2>3. QED
    BY <1>1, <2>1, <2>2 DEF Flight, Answer
<1>2. QED
  BY <1>1 DEF FlightStep

LEMMA NobodyCarries ==
  ASSUME IInv, Moved, UNCHANGED worker, owner' = owner \/ owner'.pc # "called"
  PROVE  FlightStep
<1>1. \A v \in Workers : worker[v].pc = "ready" =>
        event'[worker[v].event].kind = event[worker[v].event].kind
  BY Holds DEF Moved
<1>2. QED
  BY <1>1, WorkerFlight

(* Stripe does not take back the end of a subscription.                    *)
FinalStays ==
  \A s \in Subs : stripe[s].status = "canceled" => stripe'[s].status = "canceled"

LEMMA ChangeLive ==
  ASSUME IInv, NEW s \in Subs, stripe[s].status \notin {"none", "canceled"},
         NEW sub, sub.status # "none", NEW kinds, Change(s, sub, kinds)
  PROVE  Moved /\ FinalStays /\ Newest' = Newest
<1>1. stripe' = [stripe EXCEPT ![s] = sub] /\ stripe \in [Subs -> Subscriptions(Ends)]
  BY DEF Change, IInv, StripeInv
<1>2. FinalStays /\ Used' = Used
  BY <1>1 DEF FinalStays, Used
<1>3. QED
  BY <1>2, ChangeMoved DEF Newest

LEMMA NoChangeLive ==
  ASSUME IInv, NoChange
  PROVE  Moved /\ FinalStays /\ Newest' = Newest
BY NoChangeMoved DEF NoChange, FinalStays, Newest, Used

(* What each step does to the subscriptions and to the answers in flight.  *)
Flows == FlightStep /\ FinalStays /\ (Newest' = Newest \/ Subscribe)

LEMMA StripeFlows ==
  ASSUME IInv, Stripe
  PROVE  Flows
<1>1. CASE Subscribe
  <2>1. PICK s, sub, kinds :
          s \in Subs /\ stripe[s].status = "none" /\ Change(s, sub, kinds)
    BY <1>1 DEF Subscribe
  <2>2. FinalStays
    <3>1. stripe' = [stripe EXCEPT ![s] = sub] /\ stripe \in [Subs -> Subscriptions(Ends)]
      BY <2>1 DEF Change, IInv, StripeInv
    <3>2. QED
      BY <2>1, <3>1 DEF FinalStays
  <2>3. Moved /\ StripeKeeps
    BY <1>1, <2>1, ChangeMoved DEF Subscribe
  <2>4. QED
    BY <1>1, <2>2, <2>3, NobodyCarries DEF Flows, StripeKeeps
<1>2. CASE PeriodEnds \/ RetrySucceeds \/ GivesUp
  <2>1. PICK s, sub, kinds :
          /\ s \in Subs
          /\ stripe[s].status \notin {"none", "canceled"} /\ sub.status # "none"
          /\ Change(s, sub, kinds) /\ StripeKeeps
    <3>1. stripe \in [Subs -> SubscriptionRecords]
      BY DEF IInv, StripeInv, Subscriptions
    <3>2. \A s \in Subs, st \in Live \cup {"canceled"} :
            /\ [stripe[s] EXCEPT !.status = st].status # "none"
            /\ Renewed(stripe[s], st).status # "none"
      BY <3>1 DEF Renewed, SubscriptionRecords, Live
    <3>3. CASE PeriodEnds
      <4>1. PICK s \in Subs :
              /\ PeriodOver(s) /\ StripeKeeps
              /\ \/ Change(s, [stripe[s] EXCEPT !.status = "canceled"], {"subscription"})
                 \/ Change(s, Renewed(stripe[s], "active"), {"paid", "subscription"})
                 \/ Change(s, Renewed(stripe[s], "past_due"), {"failed", "subscription"})
        BY <3>3 DEF PeriodEnds
      <4>2. QED
        BY <3>2, <4>1 DEF PeriodOver, Live
    <3>4. CASE RetrySucceeds \/ GivesUp
      <4>1. PICK s \in Subs :
              /\ stripe[s].status = "past_due" /\ StripeKeeps
              /\ \/ Change(s, [stripe[s] EXCEPT !.status = "canceled"], {"subscription"})
                 \/ Change(s, [stripe[s] EXCEPT !.status = "active"], {"paid", "subscription"})
        BY <3>4 DEF RetrySucceeds, GivesUp
      <4>2. QED
        BY <3>2, <4>1 DEF Live
    <3>5. QED
      BY <1>2, <3>3, <3>4
  <2>2. QED
    BY <2>1, ChangeLive, NobodyCarries DEF Flows, StripeKeeps
<1>3. QED
  BY <1>1, <1>2 DEF Stripe

LEMMA ToldLive ==
  ASSUME IInv, NEW x, Sound(x), TellsToEnd(x) \/ TellsToGoOn(x)
  PROVE  Moved /\ FinalStays /\ Newest' = Newest
<1>1. x.row.sub \in Subs \cup {NoSub}
  BY Known DEF Rows
<1>2. CASE TellsToEnd(x)
  BY <1>1, <1>2, CancelledFits, ChangeLive DEF TellsToEnd, CancelAccepted, IsLive, Live
<1>3. CASE TellsToGoOn(x)
  <2> DEFINE s == x.row.sub
             sub == [stripe[s] EXCEPT !.cancel = FALSE]
  <2>1. s \in Subs /\ IsLive(s) /\ Change(s, sub, {"subscription"})
    BY <1>1, <1>3 DEF TellsToGoOn
  <2>2. stripe \in [Subs -> SubscriptionRecords]
    BY DEF IInv, StripeInv, Subscriptions
  <2>3. sub.status = stripe[s].status
    BY <2>1, <2>2 DEF SubscriptionRecords
  <2> HIDE DEF s, sub
  <2>4. QED
    BY <2>1, <2>3, ChangeLive DEF IsLive, Live
<1>4. QED
  BY <1>2, <1>3

LEMMA PlatformFlows ==
  ASSUME IInv, Platform \/ Tick
  PROVE  Flows
<1>1. CASE SendPaymentWarnings \/ ExpireTrial \/ Tick
  BY <1>1, NoChangeLive, NobodyCarries
     DEF SendPaymentWarnings, ExpireTrial, Tick, NoChange, Flows
<1>2. ASSUME NEW x, Sound(x), TellsToEnd(x) \/ TellsToGoOn(x) \/ NoChange,
             UNCHANGED <<worker, owner>>
      PROVE  Flows
  <2>1. Moved /\ FinalStays /\ Newest' = Newest
    BY <1>2, NoChangeLive, ToldLive
  <2>2. QED
    BY <1>2, <2>1, NobodyCarries DEF Flows
<1>3. CASE Block \/ BlockFails
  BY <1>2, <1>3, RowKnown DEF Block, BlockFails
<1>4. CASE Unblock \/ UnblockFails
  <2>1. Sound(ApplyDueTransitions(ws, clock))
    BY RowKnown, DueKept DEF Kept
  <2>2. QED
    BY <1>2, <1>4, <2>1 DEF Unblock, UnblockFails
<1>5. QED
  BY <1>1, <1>3, <1>4 DEF Platform

LEMMA OwnerFlows ==
  ASSUME IInv, Owner
  PROVE  Flows
<1>1. CASE OwnerReads \/ OwnerRefused \/ OwnerWrites \/ OwnerInterrupted
  <2>1. owner'.pc # "called" /\ UNCHANGED worker /\ NoChange
    <3>1. CASE OwnerReads
      BY <3>1 DEF OwnerReads, NoRequest, NoChange
    <3>2. CASE OwnerRefused
      BY <3>2 DEF OwnerRefused, NoRequest, NoChange
    <3>3. CASE OwnerWrites
      BY <3>3 DEF OwnerWrites, NoRequest, NoChange
    <3>4. CASE OwnerInterrupted
      BY <3>4 DEF OwnerInterrupted, NoRequest, NoChange
    <3>5. QED
      BY <1>1, <3>1, <3>2, <3>3, <3>4
  <2>2. QED
    BY <2>1, NoChangeLive, NobodyCarries DEF Flows
<1>2. CASE OwnerCalls
  <2>0. PICK s : s = owner.sub
    OBVIOUS
  <2>1. /\ owner \in OwnerRecords /\ owner.op \in Ops /\ s \in Subs /\ UNCHANGED worker
        /\ stripe \in [Subs -> SubscriptionRecords]
    BY <1>2, <2>0 DEF OwnerCalls, IInv, OwnerInv, OwnerRecords, StripeInv, Subscriptions
  <2>2. /\ Moved /\ FinalStays /\ Newest' = Newest
        /\ owner'.snap = Snapshot(s)' /\ owner'.ver = version'
    <3>1. CASE NoChange /\ owner' = [owner EXCEPT !.pc = "called", !.ver = version,
                                                  !.snap = Snapshot(s)]
      <4>1. owner'.snap = Snapshot(s) /\ owner'.ver = version
        BY <2>1, <3>1 DEF OwnerRecords
      <4>2. Snapshot(s)' = Snapshot(s) /\ version' = version
        BY <3>1 DEF NoChange, Snapshot
      <4>3. QED
        BY <3>1, <4>1, <4>2, NoChangeLive
    <3>2. CASE /\ Accepted(s)
               /\ \E kinds : Change(s, Asked(s), kinds)
               /\ owner' = [owner EXCEPT !.pc = "called", !.ver = version + 1,
                                         !.snap = SnapshotOf(s, Asked(s))]
      <4>1. stripe[s].status \in Live /\ Exists(s)
        BY <2>1, <3>2 DEF Accepted, IsLive, Exists, Live
      <4>2. Asked(s).status # "none"
        BY <2>1, <3>2, <4>1, AskedFits DEF Accepted
      <4>3. /\ Moved /\ FinalStays /\ Newest' = Newest
            /\ stripe' = [stripe EXCEPT ![s] = Asked(s)] /\ version' = version + 1
        <5>1. PICK kinds : Change(s, Asked(s), kinds)
          BY <3>2
        <5>2. stripe' = [stripe EXCEPT ![s] = Asked(s)] /\ version' = version + 1
          BY <5>1 DEF Change
        <5>3. Moved /\ FinalStays /\ Newest' = Newest
          BY <2>1, <4>1, <4>2, <5>1, ChangeLive DEF Live
        <5>4. QED
          BY <5>2, <5>3
      <4>4. owner'.snap = SnapshotOf(s, Asked(s)) /\ owner'.ver = version + 1
        BY <2>1, <3>2 DEF OwnerRecords
      <4>5. Snapshot(s)' = SnapshotOf(s, Asked(s))
        BY <2>1, <4>3 DEF Snapshot
      <4>6. QED
        BY <4>3, <4>4, <4>5
    <3>3. QED
      BY <1>2, <2>0, <3>1, <3>2 DEF OwnerCalls
  <2>3. FlightStep
    <3>1. \A v \in Workers : worker[v].pc = "ready" =>
            event'[worker[v].event].kind = event[worker[v].event].kind
      BY <2>2, Holds DEF Moved
    <3>2. QED
      BY <2>1, <2>2, <3>1, WorkerFlight
  <2>4. QED
    BY <2>2, <2>3 DEF Flows
<1>3. QED
  BY <1>1, <1>2 DEF Owner

LEMMA WebhookFlows ==
  ASSUME IInv, NEW w \in Workers, Webhook(w)
  PROVE  Flows
<1> DEFINE e == worker[w].event
           Carried(v) == /\ worker'[v] = worker[v]
                         /\ worker[v].pc = "ready" =>
                              event'[worker[v].event].kind = event[worker[v].event].kind
<1>1. worker \in [Workers -> WorkerRecords] /\ event \in [Events -> Slots]
  BY DEF IInv, WorkerInv, EventInv
<1>2. ASSUME NEW v \in Workers, worker[v].pc = "ready"
      PROVE  worker[v].event \in Events /\ event[worker[v].event].status = "processing"
  BY <1>2, Holds
<1>3. CASE Claim(w)
  <2>1. PICK x \in Events : Claimable(x) /\ Take(w, x) /\ worker[w].pc = "idle"
    BY <1>3 DEF Claim
  <2>2. /\ UNCHANGED <<stripe, version, owner>>
        /\ worker'[w].event = x
        /\ worker'[w].pc = "ready" => event[x].kind = "failed"
        /\ \A v \in Workers \ {w} : worker'[v] = worker[v]
        /\ event'[x].kind = event[x].kind
        /\ \A y \in Events \ {x} : event'[y] = event[y]
    BY <1>1, <2>1 DEF Take, Idle, Slots
  <2>3. w \notin Carriers' /\ \A v \in Workers \ {w} : Carried(v)
    BY <1>2, <2>2 DEF Carriers
  <2>4. FinalStays /\ Newest' = Newest
    BY <2>2 DEF FinalStays, Newest, Used
  <2> HIDE DEF e
  <2>5. FlightStep
    BY <2>2, <2>3, WorkerFlight
  <2>6. QED
    BY <2>4, <2>5 DEF Flows
<1>4. CASE Retrieve(w) \/ RetrieveFails(w)
  <2>1. /\ UNCHANGED <<stripe, version, event, owner>>
        /\ \A v \in Workers \ {w} : worker'[v] = worker[v]
        /\ \/ worker'[w].pc = "raised"
           \/ worker'[w].snap = Snapshot(event[e].sub) /\ worker'[w].ver = version
    BY <1>1, <1>4 DEF Retrieve, RetrieveFails, WorkerRecords
  <2>2. Exists(event[e].sub)
    BY <1>4, Holds DEF Retrieve, RetrieveFails
  <2>3. w \notin Carriers' \/
          \E s \in Subs : worker'[w].snap = Snapshot(s)' /\ worker'[w].ver = version'
    BY <2>1, <2>2 DEF Carriers, Snapshot, Exists
  <2>4. FinalStays /\ Newest' = Newest
    BY <2>1 DEF FinalStays, Newest, Used
  <2>5. FlightStep
    BY <2>1, <2>3, WorkerFlight
  <2>6. QED
    BY <2>4, <2>5 DEF Flows
<1>5. CASE Apply(w) \/ ApplyRolledBack(w)
  <2>1. /\ worker[w].pc = "ready" /\ UNCHANGED owner
        /\ \A v \in Workers \ {w} : worker'[v] = worker[v]
        /\ worker'[w].pc \in {"raised", "applied"}
    BY <1>1, <1>5 DEF Apply, ApplyRolledBack, WorkerRecords
  <2>2. w \notin Carriers'
    BY <2>1 DEF Carriers
  <2>3. Moved /\ FinalStays /\ Newest' = Newest
    <3>1. event[e].kind # "failed" => worker[w].snap \in Answers(Ends)
      BY <2>1 DEF IInv, WorkerInv
    <3>2. \/ NoChange
          \/ \E x \in Dispatched(event[e].kind, worker[w].snap) :
               TellsToEnd(x) \/ \E f : Settle(x, f)
      BY <1>5 DEF Apply, ApplyRolledBack
    <3>3. CASE NoChange
      BY <3>3, NoChangeLive
    <3>4. ASSUME NEW x \in Dispatched(event[e].kind, worker[w].snap),
                 TellsToEnd(x) \/ \E f : Settle(x, f)
          PROVE  Moved /\ FinalStays /\ Newest' = Newest
      <4>1. Sound(x)
        BY <3>1, DispatchedKept DEF AllKept, Kept
      <4>2. QED
        BY <3>4, <4>1, NoChangeLive, ToldLive DEF Settle
    <3>5. QED
      BY <3>2, <3>3, <3>4
  <2>4. \A v \in Workers \ {w} : Carried(v)
    BY <1>2, <2>1, <2>3 DEF Moved
  <2> HIDE DEF e
  <2>5. FlightStep
    BY <2>1, <2>2, <2>4, WorkerFlight
  <2>6. QED
    BY <2>3, <2>5 DEF Flows
<1>6. CASE MarkProcessed(w) \/ MarkFailed(w) \/ Crash(w)
  <2>1. /\ UNCHANGED <<stripe, version, owner>>
        /\ worker'[w] = Idle /\ worker[w].pc # "idle"
        /\ \A v \in Workers \ {w} : worker'[v] = worker[v]
        /\ \A y \in Events \ {e} : event'[y] = event[y]
    BY <1>1, <1>6 DEF MarkProcessed, MarkFailed, Crash, Release
  <2>2. \A v \in Workers \ {w} : worker[v].event # e
    BY <2>1, Holds
  <2>3. w \notin Carriers' /\ \A v \in Workers \ {w} : Carried(v)
    BY <1>2, <2>1, <2>2 DEF Carriers, Idle
  <2>4. FinalStays /\ Newest' = Newest
    BY <2>1 DEF FinalStays, Newest, Used
  <2> HIDE DEF e
  <2>5. FlightStep
    BY <2>1, <2>3, WorkerFlight
  <2>6. QED
    BY <2>4, <2>5 DEF Flows
<1>7. QED
  BY <1>3, <1>4, <1>5, <1>6 DEF Webhook

LEMMA AnswerFlows ==
  ASSUME IInv, NEW e \in Events, AnswerInProgress(e)
  PROVE  Flows
<1>1. /\ UNCHANGED <<stripe, version, worker, owner>> /\ event \in [Events -> Slots]
  BY DEF AnswerInProgress, IInv, EventInv
<1>2. /\ \A x \in Events \ {e} : event'[x] = event[x]
      /\ ~Abandoned(e) => event'[e].kind = event[e].kind
  BY <1>1 DEF AnswerInProgress, Slots
<1>3. ASSUME NEW v \in Workers, worker[v].pc = "ready"
      PROVE  event'[worker[v].event].kind = event[worker[v].event].kind
  <2>1. worker[v].event \in Events /\ (worker[v].event = e => ~Abandoned(e))
    BY <1>3, Holds DEF Abandoned
  <2>2. QED
    BY <1>2, <2>1
<1>4. FlightStep
  BY <1>1, <1>3, WorkerFlight
<1>5. QED
  BY <1>1, <1>4 DEF Flows, FinalStays, Newest, Used

LEMMA StepFlows ==
  ASSUME IInv, [Next]_vars
  PROVE  Flows
<1>1. CASE UNCHANGED vars
  <2>1. UNCHANGED <<worker, owner>> /\ NoChange
    BY <1>1 DEF vars, NoChange
  <2>2. QED
    BY <2>1, NoChangeLive, NobodyCarries DEF Flows
<1>2. QED
  BY <1>1, StripeFlows, OwnerFlows, PlatformFlows, WebhookFlows, AnswerFlows DEF Next
-----------------------------------------------------------------------------
(* A past due row has a grace, a live row is of the newest subscription,   *)
(* and an answer that says a subscription is over is right.                *)
RowIsNewest == flaws = {} /\ ws.row.status \in Live => ws.row.sub = Newest

FinalAnswers ==
  /\ \A a \in Flight : a.snap.status = "canceled" => stripe[a.snap.sub].status = "canceled"
  /\ owner.pc = "called" /\ owner.op = "clear" => owner.snap.status = "canceled"

GraceInv == Graced(ws) /\ RowIsNewest /\ FinalAnswers

(* The step that GraceHonoured asks for.                                   *)
Honours ==
  flaws' = {} /\ ws.row.status = "past_due" =>
    /\ ws'.row.status = "canceled" =>
         \/ clock >= ws.row.grace
         \/ ws.row.cancel /\ clock >= ws.row.pendingAt
         \/ stripe'[ws.row.sub].status = "canceled"
         \/ \E w \in Workers : AnswersDue(w, ws.row.sub)
    /\ ws'.row.status = "past_due" => ws'.row.grace = ws.row.grace

RowHonours == Graced(ws)' /\ RowIsNewest' /\ Honours

(* A step that leaves the row alone.                                       *)
LEMMA RowRests ==
  ASSUME GraceInv, ws'.row = ws.row, flaws' = {} => flaws = {},
         ws.row.status \in Live => Newest' = Newest
  PROVE  RowHonours
BY DEF GraceInv, RowHonours, Graced, RowIsNewest, Honours, Live

(* The workspace is told to end at Stripe and in the row.                  *)
LEMMA LocalRow ==
  ASSUME IInv, NEW x, Kept(x, ws), Graced(x), RunsOn(x), NEW s, s = x.row.sub,
         TellsToEnd(x), NEW y \in CancelledLocally(x, s)
  PROVE  /\ y.row.sub = s /\ Graced(y)
         /\ y.row.status = "past_due" => x.row.status = "past_due" /\ y.row.grace = x.row.grace
         /\ y.row.status = "canceled" => stripe'[s].status = "canceled"
<1>1. Sound(x) /\ x.trial = ws.trial /\ s \in Subs \cup {NoSub}
  BY Known DEF Kept, Rows
<1>2. Exists(s) /\ s \in Subs
  BY <1>1, CancelledFits DEF TellsToEnd
<1>3. clock \in Nat /\ (TrialActive(x, clock) <=> TrialActive(ws, clock))
  BY <1>1, RowKnown DEF TrialActive
<1>4. CASE TrialActive(x, clock)
  <2> DEFINE ended == [Snapshot(s) EXCEPT !.status = "canceled"]
  <2>1. PICK z \in Reconcile(x, ended, clock) : y = FinalizeSubscriptionEnd(z, clock)
    BY <1>4 DEF CancelledLocally
  <2>2. ended \in Answers(x.trial.ends) /\ ended.sub = s
    <3>1. Snapshot(s) \in Answers(x.trial.ends) /\ Snapshot(s).sub = s
      BY <1>1, <1>2, ExistsAnswers DEF Ends, Snapshot, SnapshotOf
    <3>2. QED
      BY <3>1 DEF Answers, Snapshots
  <2> HIDE DEF ended
  <2>3. z.row.sub = s /\ Sound(z)
    BY <1>1, <1>3, <2>1, <2>2, ReconcileRow, ReconcileKept DEF AllKept, Kept
  <2>4. y.row.sub = s /\ y.row.status \notin Live
    BY <2>1, <2>3, FinalSub, FinalRow
  <2>5. stripe'[s].status = "canceled"
    <3>1. stripe' = [stripe EXCEPT ![s] = [stripe[s] EXCEPT !.status = "canceled"]]
      BY <1>3, <1>4 DEF TellsToEnd, Change, CancelledAtStripe
    <3>2. stripe \in [Subs -> SubscriptionRecords]
      BY DEF IInv, StripeInv, Subscriptions
    <3>3. QED
      BY <1>2, <3>1, <3>2 DEF SubscriptionRecords
  <2>6. QED
    BY <2>4, <2>5 DEF Graced, Live
<1>5. CASE ~TrialActive(x, clock)
  <2>1. PICK when : y \in ScheduleCancellation(x, when)
    BY <1>5 DEF CancelledLocally
  <2>2. /\ y.row.sub = s /\ y.row.status = x.row.status /\ y.row.grace = x.row.grace
    BY <1>1, <2>1, CancellationRow
  <2>3. QED
    BY <2>2 DEF Graced, RunsOn, Live
<1>6. QED
  BY <1>4, <1>5
-----------------------------------------------------------------------------
(* What an event makes of a row that is past due.                          *)
LEMMA DispatchedRow ==
  ASSUME IInv, Graced(ws), NEW kind, NEW snap, kind # "failed" => snap \in Answers(Ends),
         NEW x \in Dispatched(kind, snap)
  PROVE  /\ Graced(x)
         /\ kind = "failed" => x.row.sub = ws.row.sub /\ ws.row.status \in Paying
         /\ kind # "failed" => x.row.sub = snap.sub
         /\ ws.row.status = "past_due" =>
              /\ x.row.status = "past_due" => x.row.grace = ws.row.grace
              /\ x.row.status = "canceled" =>
                   \/ EndDue(ws.row, clock)
                   \/ kind # "failed" /\ snap.status = "canceled"
                   \/ kind # "failed" /\ snap.cancel /\ snap.end <= clock
<1>1. /\ Sound(ws) /\ clock \in Nat
      /\ kind # "failed" => snap \in Answers(ws.trial.ends)
  BY RowKnown DEF Ends
<1>2. CASE kind = "failed"
  <2>1. PICK y \in MarkPaymentFailure(ws, clock) : x = ApplyDueTransitions(y, clock)
    BY <1>2 DEF Dispatched
  <2>2. /\ y.row.status = "past_due" /\ y.row.sub = ws.row.sub /\ Graced(y)
        /\ ws.row.status = "past_due" => y = ws
    BY <1>1, <2>1, FailureGrace
  <2>3. Sound(y)
    BY <1>1, <2>1, FailureKept DEF AllKept, Kept
  <2>4. /\ x.row.sub = y.row.sub /\ (x.row.status = "past_due" => x = y)
        /\ x.row.status = "canceled" => EndDue(y.row, clock)
    BY <1>1, <2>1, <2>2, <2>3, DueRow DEF Paying
  <2>5. ws.row.status \in Paying
    BY <2>1 DEF MarkPaymentFailure
  <2>6. QED
    BY <1>2, <2>2, <2>4, <2>5 DEF Graced
<1>3. CASE kind # "failed"
  <2>1. ASSUME NEW y \in Reconcile(ws, snap, clock)
        PROVE  /\ Sound(y) /\ y.row.sub = snap.sub /\ Graced(y)
               /\ ws.row.status = "past_due" =>
                    /\ y.row.status = "past_due" => y.row.grace = ws.row.grace
                    /\ snap.status # "canceled" =>
                         /\ y.row.status \in Paying
                         /\ EndDue(y.row, clock) =>
                              EndDue(ws.row, clock) \/ (snap.cancel /\ snap.end <= clock)
    <3>1. Sound(y)
      BY <1>1, <1>3, ReconcileKept DEF AllKept, Kept
    <3>2. /\ y.row.sub = snap.sub /\ Graced(y)
          /\ ws.row.status = "past_due" /\ y.row.status = "past_due" =>
               y.row.grace = ws.row.grace
          /\ ws.row.status = "past_due" /\ snap.status # "canceled" =>
               /\ y.row.status \in Paying
               /\ y.row.status = "past_due" => /\ y.row.cancel = ws.row.cancel
                                               /\ y.row.pendingAt = ws.row.pendingAt
               /\ y.row.status = "active" /\ y.row.cancel =>
                    snap.cancel /\ y.row.pendingAt = snap.end
      BY <1>1, <1>3, ReconcileRow
    <3>3. snap.end \in Nat
      BY <1>1, <1>3, Answered, Known
    <3>4. QED
      BY <1>1, <3>1, <3>2, <3>3 DEF EndDue, Paying
  <2>2. CASE kind = "subscription"
    <3>1. PICK y \in Reconcile(ws, snap, clock) : x = ApplyDueTransitions(y, clock)
      BY <2>2 DEF Dispatched
    <3>2. Sound(y)
      BY <2>1
    <3>3. /\ x.row.sub = y.row.sub /\ (x.row.status = "past_due" => x = y)
          /\ x.row.status = "canceled" /\ y.row.status \in Paying => EndDue(y.row, clock)
      BY <1>1, <3>1, <3>2, DueRow
    <3>4. Graced(x)
      BY <2>1, <3>3 DEF Graced
    <3>5. QED
      BY <1>3, <2>1, <3>1, <3>3, <3>4
  <2>3. CASE kind # "subscription"
    <3>1. x \in Reconcile(ws, snap, clock)
      BY <1>3, <2>3 DEF Dispatched
    <3>2. QED
      BY <1>3, <2>1, <3>1 DEF Paying
  <2>4. QED
    BY <2>2, <2>3
<1>4. QED
  BY <1>2, <1>3

(* A step that neither reads an answer nor moves a date.                   *)
LEMMA OtherHonours ==
  ASSUME GraceInv, flaws' = {} => flaws = {}, Newest' = Newest,
         Graced(ws)', ws'.row.status \in Live => ws'.row.sub = Newest \/ flaws' # {},
         ws.row.status = "past_due" =>
           /\ ws'.row.status = "past_due" => ws'.row.grace = ws.row.grace
           /\ ws'.row.status = "canceled" =>
                EndDue(ws.row, clock) \/ stripe'[ws.row.sub].status = "canceled"
  PROVE  RowHonours
BY DEF GraceInv, RowHonours, RowIsNewest, Honours, EndDue

LEMMA ApplyHonours ==
  ASSUME IInv, AnswerInv, GraceInv, NEW w \in Workers, Apply(w)
  PROVE  RowHonours
<1>0. PICK e, snap, ver : e = worker[w].event /\ snap = worker[w].snap /\ ver = worker[w].ver
  OBVIOUS
<1>1. /\ worker[w].pc = "ready" /\ Flows
      /\ event[e].kind # "failed" => snap \in Answers(Ends) /\ Carries(worker[w], event[e].sub)
  BY <1>0, StepFlows DEF Apply, IInv, WorkerInv, AnswerInv, WorkerCarries, Next, Webhook
<1>2. CASE UNCHANGED <<ws, flaws>> /\ NoChange
  <2>1. Newest' = Newest
    BY <1>2 DEF NoChange, Newest, Used
  <2>2. QED
    BY <1>2, <2>1, RowRests
<1>3. ASSUME NEW x \in Dispatched(event[e].kind, snap), Settle(x, FlawsOf(e, ver))
      PROVE  RowHonours
  <2>1. /\ Graced(x)
        /\ event[e].kind = "failed" => x.row.sub = ws.row.sub /\ ws.row.status \in Paying
        /\ event[e].kind # "failed" => x.row.sub = snap.sub
        /\ ws.row.status = "past_due" =>
             /\ x.row.status = "past_due" => x.row.grace = ws.row.grace
             /\ x.row.status = "canceled" =>
                  \/ EndDue(ws.row, clock)
                  \/ event[e].kind # "failed" /\ snap.status = "canceled"
                  \/ event[e].kind # "failed" /\ snap.cancel /\ snap.end <= clock
    BY <1>1, <1>3, DispatchedRow DEF GraceInv
  <2>2. Kept(x, ws)
    BY <1>1, <1>3, DispatchedKept DEF AllKept
  <2>3. CASE flaws' # {}
    <3>1. \/ ws' = x
          \/ ws'.row.status = "past_due" => ws'.row.grace # NoTime
      <4>1. \/ ws' = x
            \/ RunsOn(x) /\ TellsToEnd(x) /\ ws' \in CancelledLocally(x, x.row.sub)
        BY <1>3 DEF Settle
      <4>2. CASE RunsOn(x) /\ TellsToEnd(x) /\ ws' \in CancelledLocally(x, x.row.sub)
        <5>1. Graced(ws')
          BY <1>1, <2>1, <2>2, <4>2, LocalRow
        <5>2. QED
          BY <5>1 DEF Graced
      <4>3. QED
        BY <4>1, <4>2
    <3>2. QED
      BY <2>1, <2>3, <3>1 DEF RowHonours, Graced, RowIsNewest, Honours
  <2>4. CASE flaws' = {}
    <3>1. flaws = {} /\ FlawsOf(e, ver) = {} /\ event[e].sub = Newest
      <4>1. flaws = {} /\ FlawsOf(e, ver) = {}
        BY <1>3, <2>4 DEF Settle, Flawed
      <4>2. QED
        BY <4>1 DEF FlawsOf
    <3>2. Newest' = Newest
      BY <1>3, <2>2, ToldLive, NoChangeLive DEF Settle, Kept
    <3>3. x.row.status \in Live \/ ws.row.status \in Live =>
            x.row.sub = Newest
      BY <1>0, <1>1, <2>1, <3>1 DEF GraceInv, RowIsNewest, Carries, Paying, Live
    <3>4. ws.row.status = "past_due" => ws.row.sub = Newest
      BY <3>1 DEF GraceInv, RowIsNewest, Live
    <3>5. ASSUME event[e].kind # "failed", snap.sub = Newest, snap.status = "canceled"
          PROVE  stripe'[Newest].status = "canceled"
      <4>1. snap.sub \in Subs /\ Answer(worker[w]) \in Flight /\ Answer(worker[w]).snap = snap
        BY <1>0, <1>1, <3>5 DEF Carries, Flight, Carriers, Answer
      <4>2. stripe[Newest].status = "canceled"
        BY <3>5, <4>1 DEF GraceInv, FinalAnswers
      <4>3. QED
        BY <1>1, <3>5, <4>1, <4>2 DEF Flows, FinalStays
    <3>6. ASSUME event[e].kind # "failed", snap.sub = Newest, snap.cancel, snap.end <= clock
          PROVE  \E v \in Workers : AnswersDue(v, Newest)
      <4>1. snap # NoSnapshot
        BY <1>0, <1>1, <3>6, Constants DEF NoSnapshot, Carries
      <4>2. QED
        BY <1>0, <3>6, <4>1 DEF AnswersDue
    <3>7. /\ ws.row.status = "past_due" /\ x.row.status = "canceled" =>
               \/ EndDue(ws.row, clock)
               \/ stripe'[ws.row.sub].status = "canceled"
               \/ \E v \in Workers : AnswersDue(v, ws.row.sub)
      <4>1. event[e].kind # "failed" => snap.sub = Newest
        BY <1>0, <1>1, <3>1 DEF Carries
      <4>2. QED
        BY <2>1, <3>4, <3>5, <3>6, <4>1
    <3>8. CASE ws' = x
      BY <2>1, <3>1, <3>2, <3>3, <3>7, <3>8
         DEF RowHonours, Graced, RowIsNewest, Honours, EndDue
    <3>9. CASE RunsOn(x) /\ TellsToEnd(x) /\ ws' \in CancelledLocally(x, x.row.sub)
      <4>1. PICK s : s = x.row.sub
        OBVIOUS
      <4>2. /\ ws'.row.sub = s /\ Graced(ws')
            /\ ws'.row.status = "past_due" =>
                 x.row.status = "past_due" /\ ws'.row.grace = x.row.grace
            /\ ws'.row.status = "canceled" => stripe'[s].status = "canceled"
        BY <2>1, <2>2, <3>9, <4>1, LocalRow
      <4>3. s = Newest
        BY <3>3, <3>9, <4>1 DEF RunsOn
      <4>4. QED
        BY <2>1, <3>1, <3>2, <3>4, <4>2, <4>3
           DEF RowHonours, Graced, RowIsNewest, Honours
    <3>10. QED
      BY <1>3, <3>8, <3>9 DEF Settle
  <2>5. QED
    BY <2>3, <2>4
<1>4. QED
  BY <1>0, <1>2, <1>3 DEF Apply

LEMMA OwnerHonours ==
  ASSUME IInv, AnswerInv, GraceInv, OwnerWrites \/ OwnerInterrupted
  PROVE  RowHonours
<1>0. PICK snap : snap = owner.snap
  OBVIOUS
<1>1. /\ owner.pc = "called" /\ Newest' = Newest /\ UNCHANGED <<clock, stripe>>
      /\ Sound(ws) /\ clock \in Nat /\ snap \in Answers(ws.trial.ends)
      /\ Carries(owner, owner.sub)
      /\ flaws' = {} => flaws = {} /\ owner.sub = Newest
  <2>1. /\ owner.pc = "called" /\ UNCHANGED <<clock, stripe>>
        /\ flaws' = {} => flaws = {} /\ Older = {}
    BY DEF OwnerWrites, OwnerInterrupted, Flawed
  <2>2. QED
    BY <1>0, <2>1, RowKnown DEF Older, IInv, OwnerInv, Ends, AnswerInv, OwnerCarries, Newest, Used
<1>2. CASE OwnerInterrupted
  <2>1. ws' = ws \/ ws' \in ReconciledInPart(ws, snap)
    BY <1>0, <1>2 DEF OwnerInterrupted
  <2>2. CASE ws' = ws
    BY <1>1, <2>2, RowRests
  <2>3. CASE ws' \in ReconciledInPart(ws, snap)
    <3>1. /\ ws'.row.sub \in {ws.row.sub, snap.sub} /\ Graced(ws')
          /\ \/ ws'.row.status = ws.row.status
             \/ ws'.row.status = "active" /\ ws.row.status = "past_due"
          /\ ws'.row.status = "past_due" => ws'.row.grace = ws.row.grace
      BY <1>1, <2>3, InPartRow DEF GraceInv
    <3>2. ws'.row.status \in Live => ws'.row.sub = Newest \/ flaws' # {}
      BY <1>0, <1>1, <3>1 DEF GraceInv, RowIsNewest, Carries, Live
    <3>3. QED
      BY <1>1, <3>1, <3>2, OtherHonours DEF Graced
  <2>4. QED
    BY <2>1, <2>2, <2>3
<1>3. CASE OwnerWrites
  <2>1. ws' \in Written
    BY <1>3 DEF OwnerWrites
  <2>2. CASE owner.op \in {"confirm", "retarget", "upgrade"}
    <3>1. ws' \in Reconcile(ws, snap, clock)
      BY <1>0, <2>1, <2>2 DEF Written
    <3>2. /\ ws'.row.sub = snap.sub /\ Graced(ws')
          /\ ws.row.status = "past_due" /\ ws'.row.status = "past_due" =>
               ws'.row.grace = ws.row.grace
          /\ ws.row.status = "past_due" /\ snap.status # "canceled" =>
               ws'.row.status \in Paying
      BY <1>1, <3>1, ReconcileRow DEF GraceInv
    <3>3. snap.status = "canceled" => stripe'[snap.sub].status = "canceled"
      <4>1. Answer(owner) \in Flight /\ Answer(owner).snap = snap
        BY <1>0, <1>1 DEF Flight, Answer
      <4>2. QED
        BY <1>1, <4>1 DEF GraceInv, FinalAnswers
    <3>4. flaws' = {} => snap.sub = Newest
      BY <1>0, <1>1 DEF Carries
    <3>5. flaws' = {} /\ ws.row.status = "past_due" => ws.row.sub = Newest
      BY <1>1 DEF GraceInv, RowIsNewest, Live
    <3>6. QED
      BY <1>1, <3>2, <3>3, <3>4, <3>5 DEF RowHonours, Graced, RowIsNewest, Honours, Paying
  <2>3. CASE owner.op = "clear"
    <3>1. PICK y \in Reconcile(ws, snap, clock) : ws' = FinalizeSubscriptionEnd(y, clock)
      BY <1>0, <2>1, <2>3 DEF Written
    <3>2. Sound(y) /\ y.row.sub = snap.sub
      BY <1>1, <3>1, ReconcileKept, ReconcileRow DEF AllKept, Kept, GraceInv
    <3>3. ws'.row.status \notin Live
      BY <3>1, <3>2, FinalRow
    <3>4. stripe'[snap.sub].status = "canceled"
      <4>1. Answer(owner) \in Flight /\ Answer(owner).snap = snap
        BY <1>0, <1>1 DEF Flight, Answer
      <4>2. QED
        BY <1>0, <1>1, <2>3, <4>1 DEF GraceInv, FinalAnswers
    <3>5. flaws' = {} => snap.sub = Newest
      BY <1>0, <1>1 DEF Carries
    <3>6. flaws' = {} /\ ws.row.status = "past_due" => ws.row.sub = Newest
      BY <1>1 DEF GraceInv, RowIsNewest, Live
    <3>7. QED
      BY <1>1, <3>3, <3>4, <3>5, <3>6 DEF RowHonours, Graced, RowIsNewest, Honours, Live
  <2>4. CASE owner.op \in {"schedule", "cancel", "resume", "release"}
    <3>1. ws'.row.status = ws.row.status /\ ws'.row.sub = ws.row.sub
          /\ ws'.row.grace = ws.row.grace
      <4>1. CASE owner.op = "cancel"
        <5>1. PICK when : ws' \in ScheduleCancellation(ws, when)
          BY <2>1, <4>1 DEF Written
        <5>2. QED
          BY <1>1, <5>1, CancellationRow
      <4>2. CASE owner.op # "cancel"
        <5>1. ws' \in ScheduleBillingChange(ws, owner.plan, owner.interval)
                      \cup ClearPendingCancellation(ws) \cup ClearPendingScheduledChange(ws)
          BY <2>1, <2>4, <4>2 DEF Written
        <5>2. QED
          BY <1>1, <5>1, PutOffRow
      <4>3. QED
        BY <4>1, <4>2
    <3>2. QED
      BY <1>1, <3>1, OtherHonours DEF GraceInv, RowIsNewest, Graced
  <2>5. owner.op \in {"confirm", "retarget", "upgrade", "clear", "schedule", "cancel",
                      "resume", "release"}
    BY <1>1 DEF IInv, OwnerInv, OwnerRecords, Ops, WithTarget
  <2>6. QED
    BY <2>2, <2>3, <2>4, <2>5
<1>4. QED
  BY <1>2, <1>3

LEMMA PlatformHonours ==
  ASSUME IInv, GraceInv, Platform
  PROVE  RowHonours
<1>1. Sound(ws) /\ clock \in Nat /\ Flows
  BY RowKnown, PlatformFlows
<1>0. CASE Subscribe
  BY <1>0, RowRests DEF Subscribe, StripeKeeps
<1>2. SUFFICES ASSUME Newest' = Newest PROVE RowHonours
  BY <1>0, <1>1 DEF Flows
<1>3. CASE ExpireTrial
  <2>1. ws'.row = ws.row /\ UNCHANGED flaws
    BY <1>1, <1>3, Known DEF ExpireTrial, ExpireDueTrial, Workspaces
  <2>2. QED
    BY <1>2, <2>1, RowRests
<1> DEFINE due == ApplyDueTransitions(ws, clock)
<1>4. /\ due.row.sub = ws.row.sub /\ (due.row.status = "past_due" => due = ws)
      /\ due.row.status = "canceled" /\ ws.row.status \in Paying => EndDue(ws.row, clock)
  BY <1>1, DueRow
<1>5. Sound(due) /\ (due.row.status \in Live => ws.row.status \in Live)
  BY <1>1, DueKept, DueAlive, Zenon DEF Kept
<1> HIDE DEF due
<1>6. ASSUME NEW x, x.row.status = due.row.status, x.row.sub = due.row.sub,
             x.row.grace = due.row.grace, ws' = x, UNCHANGED flaws
      PROVE  RowHonours
  <2>1. Graced(ws)'
    BY <1>4, <1>6 DEF GraceInv, Graced
  <2>2. ws'.row.status \in Live => ws'.row.sub = Newest \/ flaws' # {}
    BY <1>4, <1>5, <1>6 DEF GraceInv, RowIsNewest
  <2>3. QED
    BY <1>2, <1>4, <1>6, <2>1, <2>2, OtherHonours DEF Paying
<1>7. CASE SendPaymentWarnings
  BY <1>6, <1>7 DEF SendPaymentWarnings, due
<1>8. CASE Unblock
  <2>1. UNCHANGED flaws
    BY <1>8 DEF Unblock
  <2>2. CASE ws' \in ClearPendingCancellation(due)
    BY <1>5, <1>6, <2>1, <2>2, PutOffRow
  <2>3. CASE ws' = IF due.row.status \in Live THEN due ELSE [due EXCEPT !.plan = "basic"]
    <3>1. ws'.row = due.row
      BY <1>5, <2>3, Known DEF Workspaces
    <3>2. QED
      BY <1>6, <2>1, <3>1
  <2>4. QED
    BY <1>8, <2>2, <2>3 DEF Unblock, due
<1>9. CASE Block
  <2>1. UNCHANGED flaws
    BY <1>9 DEF Block
  <2>2. CASE UNCHANGED ws
    BY <1>2, <2>1, <2>2, RowRests
  <2>3. CASE RunsOn(ws) /\ TellsToEnd(ws) /\ ws' \in CancelledLocally(ws, ws.row.sub)
    <3>1. PICK s : s = ws.row.sub
      OBVIOUS
    <3>2. Kept(ws, ws)
      BY <1>1, KeptSame
    <3>3. /\ ws'.row.sub = s /\ Graced(ws')
          /\ ws'.row.status = "past_due" =>
               ws.row.status = "past_due" /\ ws'.row.grace = ws.row.grace
          /\ ws'.row.status = "canceled" => stripe'[s].status = "canceled"
      BY <2>3, <3>1, <3>2, LocalRow DEF GraceInv
    <3>4. QED
      BY <1>2, <2>1, <2>3, <3>1, <3>3, OtherHonours DEF GraceInv, RowIsNewest, RunsOn, Graced
  <2>4. QED
    BY <1>9, <2>2, <2>3 DEF Block
<1>10. CASE BlockFails \/ UnblockFails
  <2>1. UNCHANGED ws /\ flaws \subseteq flaws'
    BY <1>10 DEF BlockFails, UnblockFails, Flawed
  <2>2. QED
    BY <1>2, <2>1, RowRests
<1>11. QED
  BY <1>3, <1>7, <1>8, <1>9, <1>10 DEF Platform

(* Every step honours the grace.                                           *)
LEMMA StepHonours ==
  ASSUME IInv, AnswerInv, GraceInv, [Next]_vars
  PROVE  RowHonours
<1>1. CASE Stripe \/ Tick \/ UNCHANGED vars
  <2>1. UNCHANGED <<ws, flaws>>
    BY <1>1 DEF Stripe, Subscribe, PeriodEnds, RetrySucceeds, GivesUp, StripeKeeps, Tick, vars
  <2>2. ws.row.status \in Live => Newest' = Newest
    BY <1>1, StepFlows DEF Flows, Subscribe
  <2>3. QED
    BY <2>1, <2>2, RowRests
<1>2. CASE Owner
  <2>1. CASE OwnerReads \/ OwnerCalls \/ OwnerRefused
    <3>1. UNCHANGED ws /\ flaws \subseteq flaws'
      BY <2>1 DEF OwnerReads, OwnerCalls, OwnerRefused, Flawed
    <3>2. ws.row.status \in Live => Newest' = Newest
      BY <1>2, OwnerFlows DEF Flows, Subscribe
    <3>3. QED
      BY <3>1, <3>2, RowRests
  <2>2. QED
    BY <1>2, <2>1, OwnerHonours DEF Owner
<1>3. CASE Platform
  BY <1>3, PlatformHonours
<1>4. ASSUME NEW w \in Workers, Webhook(w) PROVE RowHonours
  <2>1. CASE Apply(w)
    BY <2>1, ApplyHonours
  <2>2. CASE ApplyRolledBack(w)
    <3>1. UNCHANGED <<ws, flaws>>
      BY <2>2 DEF ApplyRolledBack
    <3>2. ws.row.status \in Live => Newest' = Newest
      BY <1>4, WebhookFlows DEF Flows, Subscribe
    <3>3. QED
      BY <3>1, <3>2, RowRests
  <2>3. CASE ~Apply(w) /\ ~ApplyRolledBack(w)
    <3>1. UNCHANGED ws /\ (flaws' = {} => flaws = {}) /\ UNCHANGED stripe
      BY <1>4, <2>3 DEF Webhook, Claim, Take, Retrieve, RetrieveFails, MarkProcessed, MarkFailed,
                        Crash, Release, Flawed
    <3>2. Newest' = Newest
      BY <3>1 DEF Newest, Used
    <3>3. QED
      BY <3>1, <3>2, RowRests
  <2>4. QED
    BY <2>1, <2>2, <2>3
<1>5. ASSUME NEW e \in Events, AnswerInProgress(e) PROVE RowHonours
  <2>1. UNCHANGED ws /\ (flaws' = {} => flaws = {}) /\ UNCHANGED stripe
    BY <1>5 DEF AnswerInProgress, Flawed
  <2>2. Newest' = Newest
    BY <2>1 DEF Newest, Used
  <2>3. QED
    BY <2>1, <2>2, RowRests
<1>6. QED
  BY <1>1, <1>2, <1>3, <1>4, <1>5 DEF Next

(* An answer that says a subscription is over stays right.                 *)
LEMMA FinalStep ==
  ASSUME IInv, AnswerInv, FinalAnswers, [Next]_vars
  PROVE  FinalAnswers'
<1>1. Flows
  BY StepFlows
<1>2. ASSUME NEW a \in Flight', a.snap.status = "canceled"
      PROVE  stripe'[a.snap.sub].status = "canceled"
  <2>1. CASE a \in Flight
    <3>1. a.snap.sub \in Subs
      BY <2>1 DEF AnswerInv, OwnerCarries, WorkerCarries, Carries, Flight, Carriers, Answer
    <3>2. QED
      BY <1>1, <1>2, <2>1, <3>1 DEF FinalAnswers, Flows, FinalStays
  <2>2. CASE \E s \in Subs : a.snap = Snapshot(s)'
    BY <1>2, <2>2 DEF Snapshot, SnapshotOf
  <2>3. QED
    BY <1>1, <1>2, <2>1, <2>2 DEF Flows, FlightStep
<1>3. ASSUME owner'.pc = "called", owner'.op = "clear"
      PROVE  owner'.snap.status = "canceled"
  <2>1. CASE owner' = owner
    BY <1>3, <2>1 DEF FinalAnswers
  <2>2. CASE OwnerCalls
    <3>1. owner \in OwnerRecords /\ stripe \in [Subs -> SubscriptionRecords]
      BY DEF IInv, OwnerInv, StripeInv, Subscriptions
    <3>2. owner.op = "clear" /\ owner.sub \in Subs
      BY <1>3, <2>2, <3>1 DEF OwnerCalls, OwnerRecords
    <3>3. owner'.snap = SnapshotOf(owner.sub, Asked(owner.sub))
      BY <2>2, <3>1, <3>2 DEF OwnerCalls, OwnerRecords
    <3>4. Asked(owner.sub).status = "canceled"
      BY <3>1, <3>2 DEF Asked, SubscriptionRecords
    <3>5. QED
      BY <3>3, <3>4 DEF SnapshotOf
  <2>3. \/ owner' = owner \/ OwnerCalls
        \/ OwnerReads \/ owner' = NoRequest
    BY DEF Next, vars, Stripe, Subscribe, PeriodEnds, RetrySucceeds, GivesUp, StripeKeeps,
           Owner, OwnerRefused, OwnerWrites, OwnerInterrupted, Tick,
           Platform, SendPaymentWarnings, ExpireTrial, Block, BlockFails, Unblock, UnblockFails,
           Webhook, Claim, Take, Retrieve, RetrieveFails, Apply, ApplyRolledBack,
           MarkProcessed, MarkFailed, Crash, Release, AnswerInProgress
  <2>4. CASE OwnerReads
    BY <1>3, <2>4 DEF OwnerReads, NoRequest
  <2>5. QED
    BY <1>3, <2>1, <2>2, <2>3, <2>4 DEF NoRequest
<1>4. QED
  BY <1>2, <1>3 DEF FinalAnswers

LEMMA InitGrace ==
  ASSUME Init
  PROVE  GraceInv
<1>1. /\ ws.row = NoRow /\ owner.pc = "idle" /\ \A w \in Workers : worker[w].pc = "idle"
  BY DEF Init, NoRequest, Idle
<1>2. Flight = {}
  BY <1>1 DEF Flight, Carriers
<1>3. QED
  BY <1>1, <1>2 DEF GraceInv, Graced, RowIsNewest, FinalAnswers, NoRow, Live

LEMMA StepGrace ==
  ASSUME IInv, AnswerInv, GraceInv, [Next]_vars
  PROVE  GraceInv'
BY StepHonours, FinalStep DEF GraceInv, RowHonours, Graced

(* A past due subscription ends by its grace, its cancellation or Stripe,  *)
(* and no second failure moves the end of the grace, whatever the order,   *)
(* number and delay of the events, the requests and the commands.          *)
THEOREM GraceIsHonoured == Spec => GraceHonoured
<1>1. IInv /\ FlowInv /\ GraceInv /\ [Next]_vars => GraceInv'
  BY StepGrace DEF FlowInv
<1>2. ASSUME IInv, FlowInv, GraceInv, [Next]_vars
      PROVE  [flaws' = {} /\ ws.row.status = "past_due" =>
               /\ ws'.row.status = "canceled" =>
                    \/ clock >= ws.row.grace
                    \/ ws.row.cancel /\ clock >= ws.row.pendingAt
                    \/ stripe'[ws.row.sub].status = "canceled"
                    \/ \E w \in Workers : AnswersDue(w, ws.row.sub)
               /\ ws'.row.status = "past_due" => ws'.row.grace = ws.row.grace]_vars
  BY <1>2, StepHonours DEF FlowInv, RowHonours, Honours
<1>3. QED
  BY <1>1, <1>2, InitGrace, Invariance, AnswersReachTheRow, PTL DEF Spec, GraceHonoured
=============================================================================
