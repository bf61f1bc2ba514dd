---------------------------- MODULE StripeBilling ---------------------------
(***************************************************************************)
(* The billing of one workspace in motion: Stripe changes a subscription   *)
(* by itself or because the owner asked, reports it by webhook events that *)
(* are delivered at least once in any order, and concurrent workers bring  *)
(* the workspace's row into line (billing/webhooks, billing/operations,    *)
(* billing/warnings, organizations/lifecycle).                             *)
(*                                                                         *)
(* No lock is held across a Stripe call of the owner, and a webhook reads  *)
(* its snapshot before it locks the row: Stripe's version at that moment   *)
(* is kept in ver.  flaws collects the circumstances under which the code  *)
(* cannot keep the row and Stripe in agreement.                            *)
(***************************************************************************)
EXTENDS BillingRules, FiniteSets

CONSTANTS
  Events,       \* slots for events Stripe has not finished delivering (bound)
  Workers,      \* webhook workers
  NoEvent,
  Period,       \* length of a paid period, in ticks
  TrialEnds,    \* end of the built-in trial of a new workspace
  MaxClock,     \* bound
  MaxChanges,   \* bound on Stripe's versions
  Tolerated     \* bound: the flaws a run goes on after

ASSUME StripeAssumption ==
  /\ NoEvent \notin Events
  /\ Period \in Nat \ {0} /\ MaxClock \in Nat \ {0} /\ MaxChanges \in Nat
  /\ TrialEnds \in Nat \ {0}
  /\ 0 .. (MaxClock + TrialEnds + Period) \subseteq Times

VARIABLES
  clock,
  ws,         \* Organization.plan, WorkspaceSubscription, trial
  blocked,    \* Organization.status = BLOCKED
  stripe,     \* the subscriptions at Stripe
  version,    \* how many changes Stripe has seen
  event,      \* ProviderEvent rows and what Stripe still has to deliver
  worker,     \* webhook requests
  owner,      \* the owner's billing request
  applied,    \* history: the newest Stripe version the row reflects
  flaws       \* history

vars == <<clock, ws, blocked, stripe, version, event, worker, owner,
          applied, flaws>>

NoSubscription ==
  [status |-> "none", plan |-> "plus", interval |-> "none", cancel |-> FALSE,
   end |-> NoTime, trialEnd |-> NoTime,
   nextPlan |-> "none", nextInterval |-> "none"]
FreeSlot   == [kind |-> "none", sub |-> NoSub, status |-> "free", due |-> FALSE]
NoSnapshot == [sub |-> NoSub]
Idle       == [pc |-> "idle", event |-> NoEvent, snap |-> NoSnapshot, ver |-> 0]
NoRequest  == [pc |-> "idle", op |-> "none", sub |-> NoSub,
               deferred |-> FALSE, plan |-> "none", interval |-> "none",
               snap |-> NoSnapshot, ver |-> 0]

(* A new workspace is in its free week; an older one never had one.        *)
Init ==
  /\ clock = 1
  /\ ws \in {[plan |-> "business", row |-> NoRow,
              trial |-> [ends |-> TrialEnds, expired |-> FALSE]],
             [plan |-> "basic", row |-> NoRow,
              trial |-> [ends |-> NoTime, expired |-> FALSE]]}
  /\ blocked = FALSE
  /\ stripe = [s \in Subs |-> NoSubscription]
  /\ version = 0
  /\ event = [e \in Events |-> FreeSlot]
  /\ worker = [w \in Workers |-> Idle]
  /\ owner = NoRequest
  /\ applied = 0
  /\ flaws = {}

Used   == {s \in Subs : stripe[s].status # "none"}
Newest == IF Used = {} THEN NoSub
          ELSE CHOOSE s \in Used : \A t \in Used : t <= s
IsLive(s) == stripe[s].status \in Live
Scheduled(s) == stripe[s].nextPlan # "none"

(* retrieve_subscription.                                                  *)
SnapshotOf(s, r) ==
  [sub |-> s, status |-> r.status, plan |-> r.plan, interval |-> r.interval,
   cancel |-> r.cancel, end |-> r.end, trialEnd |-> r.trialEnd]
Snapshot(s) == SnapshotOf(s, stripe[s])

(* A change at Stripe, and the events that report it.                      *)
Change(s, sub, kinds) ==
  /\ version < MaxChanges
  /\ version' = version + 1
  /\ stripe' = [stripe EXCEPT ![s] = sub]
  /\ \E slot \in [kinds -> Events] :
       /\ \A k \in kinds : event[slot[k]].status = "free"
       /\ \A j, k \in kinds : slot[j] = slot[k] => j = k
       /\ event' = [e \in Events |->
            IF \E k \in kinds : slot[k] = e
            THEN [kind |-> CHOOSE k \in kinds : slot[k] = e, sub |-> s,
                  status |-> "received", due |-> TRUE]
            ELSE event[e]]

NoChange == UNCHANGED <<stripe, version, event>>

(* A run goes no further than the flaws it tolerates.                      *)
Flawed(new) ==
  /\ flaws' = flaws \cup new
  /\ flaws' \subseteq Tolerated
-----------------------------------------------------------------------------
(* Stripe by itself.                                                       *)
StripeKeeps == UNCHANGED <<clock, ws, blocked, worker, owner, applied, flaws>>

(* A checkout that was opened while the row was free is paid.  During the  *)
(* free week the first invoice waits for its end.                          *)
Subscribe ==
  \E s \in Subs, p \in PaidPlans, i \in Intervals :
    /\ stripe[s].status = "none"
    /\ \A t \in Subs : t < s => stripe[t].status # "none"
    /\ \A t \in Subs : ~IsLive(t)
    /\ ws.row.status \notin Live
    /\ LET waits == TrialActive(ws, clock)
           end == IF waits THEN ws.trial.ends ELSE clock + Period IN
       Change(s, [NoSubscription EXCEPT
                    !.status = IF waits THEN "trialing" ELSE "active",
                    !.plan = p, !.interval = i, !.end = end,
                    !.trialEnd = IF waits THEN end ELSE NoTime],
              {"checkout"})
    /\ StripeKeeps

(* The end of a period: the subscription ends, or its next phase is        *)
(* invoiced; the invoice is paid or it fails.                              *)
Renewed(r, status) ==
  [r EXCEPT !.status = status, !.end = @ + Period,
            !.plan = IF r.nextPlan = "none" THEN @ ELSE r.nextPlan,
            !.interval = IF r.nextPlan = "none" THEN @ ELSE r.nextInterval,
            !.nextPlan = "none", !.nextInterval = "none"]

PeriodOver(s) == stripe[s].status \in {"trialing", "active"} /\ stripe[s].end <= clock

PeriodEnds ==
  \E s \in Subs :
    /\ PeriodOver(s)
    /\ IF stripe[s].cancel
       THEN Change(s, [stripe[s] EXCEPT !.status = "canceled"], {"subscription"})
       ELSE \/ Change(s, Renewed(stripe[s], "active"), {"paid", "subscription"})
            \/ Change(s, Renewed(stripe[s], "past_due"), {"failed", "subscription"})
    /\ StripeKeeps

RetrySucceeds ==
  \E s \in Subs :
    /\ stripe[s].status = "past_due"
    /\ Change(s, [stripe[s] EXCEPT !.status = "active"], {"paid", "subscription"})
    /\ StripeKeeps

GivesUp ==
  \E s \in Subs :
    /\ stripe[s].status = "past_due"
    /\ Change(s, [stripe[s] EXCEPT !.status = "canceled"], {"subscription"})
    /\ StripeKeeps

(* Stripe acts at the end of a period, within the tick; requests are over  *)
(* before the next tick, undelivered events are not.                       *)
Settled == \A s \in Subs : IsLive(s) => stripe[s].end > clock
NoRequests == owner.pc = "idle" /\ \A w \in Workers : worker[w].pc = "idle"

Tick ==
  /\ clock < MaxClock
  /\ Settled /\ NoRequests
  /\ clock' = clock + 1
  /\ UNCHANGED <<ws, blocked, stripe, version, event, worker, owner, applied, flaws>>
-----------------------------------------------------------------------------
(* process_provider_event.  RECEIVED stands for FAILED too: both are       *)
(* claimed.  A PROCESSING event is claimed fifteen minutes after a worker  *)
(* took it; a worker that lives does not take as long.                     *)
Abandoned(e) == \A w \in Workers : worker[w].event # e
Claimable(e) ==
  \/ event[e].status = "received"
  \/ event[e].status = "processing" /\ Abandoned(e)

Take(w, e) ==
  /\ event' = [event EXCEPT ![e].status = "processing"]
  /\ worker' = [worker EXCEPT ![w] = [Idle EXCEPT
       !.pc = IF event[e].kind = "failed" THEN "ready" ELSE "claimed",
       !.event = e,
       !.ver = IF event[e].kind = "failed" THEN version ELSE 0]]
  /\ UNCHANGED <<clock, ws, blocked, stripe, version, owner, applied, flaws>>

(* Mutant: a delivery takes an event whatever its state.                   *)
ClaimBusy(w) ==
  \E e \in Events : worker[w].pc = "idle" /\ event[e].due /\ Take(w, e)

Claim(w) ==
  \E e \in Events :
    worker[w].pc = "idle" /\ event[e].due /\ Claimable(e) /\ Take(w, e)

(* A second delivery while the event is PROCESSING is answered with        *)
(* success: Stripe will not deliver it again, and when its worker has died *)
(* it never takes effect.                                                  *)
AnswerInProgress(e) ==
  /\ event[e].due /\ event[e].status = "processing"
  /\ IF Abandoned(e)
     THEN event' = [event EXCEPT ![e] = FreeSlot] /\ Flawed({"lost"})
     ELSE event' = [event EXCEPT ![e].due = FALSE] /\ UNCHANGED flaws
  /\ UNCHANGED <<clock, ws, blocked, stripe, version, worker, owner, applied>>

(* The snapshot is retrieved before any lock is taken; a failed payment    *)
(* is applied without one, and claims to "ready" at once.                  *)
Retrieve(w) ==
  /\ worker[w].pc = "claimed"
  /\ worker' = [worker EXCEPT ![w].pc = "ready",
                              ![w].snap = Snapshot(event[worker[w].event].sub),
                              ![w].ver = version]
  /\ UNCHANGED <<clock, ws, blocked, stripe, version, event, owner, applied, flaws>>

RetrieveFails(w) ==
  /\ worker[w].pc = "claimed"
  /\ worker' = [worker EXCEPT ![w].pc = "raised"]
  /\ UNCHANGED <<clock, ws, blocked, stripe, version, event, owner, applied, flaws>>

Dispatched(kind, snap) ==
  LET AlsoDue(outcomes) == {ApplyDueTransitions(x, clock) : x \in outcomes} IN
  CASE kind = "failed"       -> AlsoDue(MarkPaymentFailure(ws, clock))
    [] kind = "subscription" -> AlsoDue(Reconcile(ws, snap, clock))
    [] OTHER                 -> Reconcile(ws, snap, clock)

(* Circumstances the event is applied in: its snapshot is older than one   *)
(* already applied; the payment it says failed has been made; it is about  *)
(* a subscription that has a successor.                                    *)
FlawsOf(e, ver) ==
  {f \in {"overtaken", "late", "old"} :
     \/ f = "overtaken" /\ event[e].kind # "failed" /\ ver < applied
     \/ f = "late" /\ event[e].kind = "failed" /\ stripe[event[e].sub].status # "past_due"
     \/ f = "old" /\ event[e].sub # Newest}

NewestOf(a, b) == IF a < b THEN b ELSE a

(* request_cancellation tells Stripe first: to end the subscription at     *)
(* once during the free week, at the end of the period otherwise.  Stripe  *)
(* lets a subscription with a schedule attached be ended only at once.     *)
CancelledAtStripe(s) ==
  IF TrialActive(ws, clock) THEN [stripe[s] EXCEPT !.status = "canceled"]
                            ELSE [stripe[s] EXCEPT !.cancel = TRUE]
CancelAccepted(s) ==
  s # NoSub /\ IsLive(s) /\ (TrialActive(ws, clock) \/ ~Scheduled(s))

CancelledLocally(w, s) ==
  LET ended == [Snapshot(s) EXCEPT !.status = "canceled"] IN
  IF TrialActive(w, clock)
  THEN {FinalizeSubscriptionEnd(x, clock) : x \in Reconcile(w, ended, clock)}
  ELSE ScheduleCancellation(w, IF w.row.status = "trialing"
                               THEN stripe[s].trialEnd ELSE stripe[s].end)

RunsOn(w) == w.row.status \in Live /\ ~w.row.cancel

(* The call request_cancellation makes; Stripe has been told when its      *)
(* modify returns, whatever becomes of the caller's transaction.           *)
TellsToEnd(w) ==
  /\ CancelAccepted(w.row.sub)
  /\ Change(w.row.sub, CancelledAtStripe(w.row.sub), {"subscription"})

(* Mutant: a blocked workspace that is activated again stays so.           *)
SettleWithoutBlock(w, f) ==
  ws' = w /\ Flawed(f) /\ NoChange

(* _reassert_block_cancellation, inside the transaction of the event; an   *)
(* error of the request, before or after Stripe was told, is only logged.  *)
Settle(w, f) ==
  IF blocked /\ RunsOn(w)
  THEN \/ /\ NoChange \/ TellsToEnd(w)
          /\ ws' = w
          /\ Flawed(f \cup {"refused"})
       \/ /\ TellsToEnd(w)
          /\ ws' \in CancelledLocally(w, w.row.sub)
          /\ Flawed(f)
  ELSE ws' = w /\ Flawed(f) /\ NoChange

Apply(w) ==
  LET e == worker[w].event IN
  /\ worker[w].pc = "ready"
  /\ LET outcomes == Dispatched(event[e].kind, worker[w].snap) IN
     IF outcomes = {}
     THEN /\ worker' = [worker EXCEPT ![w].pc = "raised"]
          /\ UNCHANGED <<ws, applied, flaws>> /\ NoChange
     ELSE /\ \E x \in outcomes : Settle(x, FlawsOf(e, worker[w].ver))
          /\ applied' = NewestOf(applied, worker[w].ver)
          /\ worker' = [worker EXCEPT ![w].pc = "applied",
                                      ![w].snap = NoSnapshot, ![w].ver = 0]
  /\ UNCHANGED <<clock, blocked, owner>>

(* The transaction of the event is rolled back after Stripe was told to    *)
(* end the subscription of a blocked workspace.                            *)
ApplyRolledBack(w) ==
  /\ worker[w].pc = "ready"
  /\ blocked
  /\ \E x \in Dispatched(event[worker[w].event].kind, worker[w].snap) :
       RunsOn(x) /\ TellsToEnd(x)
  /\ worker' = [worker EXCEPT ![w].pc = "raised"]
  /\ UNCHANGED <<clock, ws, blocked, owner, applied, flaws>>

(* An event that is not due any more is delivered no more: what did not    *)
(* take effect by then never will.                                         *)
Release(w, status, lost) ==
  LET e == worker[w].event IN
  /\ worker' = [worker EXCEPT ![w] = Idle]
  /\ event' = [event EXCEPT ![e] = IF status = "free" \/ ~@.due THEN FreeSlot
                                   ELSE [@ EXCEPT !.status = status]]
  /\ Flawed(IF lost /\ ~event[e].due THEN {"lost"} ELSE {})
  /\ UNCHANGED <<clock, ws, blocked, stripe, version, owner, applied>>

MarkProcessed(w) == worker[w].pc = "applied" /\ Release(w, "free", FALSE)

(* Mutant: an event that raised is not kept for another delivery.          *)
MarkFailedForGood(w) == worker[w].pc = "raised" /\ Release(w, "free", FALSE)

MarkFailed(w)    == worker[w].pc = "raised" /\ Release(w, "received", TRUE)
Crash(w) ==
  /\ worker[w].pc # "idle"
  /\ Release(w, "processing", worker[w].pc # "applied")
-----------------------------------------------------------------------------
(* The owner's requests.  Each reads the row without a lock, calls Stripe, *)
(* and writes under the lock.  confirm is the owner's return from Checkout.*)
Asks(op) ==
  LET r == ws.row IN
  /\ op # "confirm" => r.source = "stripe" /\ r.sub # NoSub
  /\ CASE op = "confirm"  -> r.status \notin Live /\ Newest # NoSub /\ IsLive(Newest)
       [] op = "retarget" -> TrialActive(ws, clock) /\ r.status = "trialing" /\ ~r.cancel
       [] op = "clear"    -> TrialActive(ws, clock)
       [] op = "upgrade"  -> ~TrialActive(ws, clock) /\ r.plan = "plus"
       [] op = "schedule" -> ~TrialActive(ws, clock) /\ r.status \in Live /\ ~r.cancel
       [] op = "cancel"   -> ~TrialActive(ws, clock)
       [] op = "resume"   -> ~TrialActive(ws, clock) /\ r.status \in Live /\ r.cancel
       [] op = "release"  -> ScheduledChangePending(r)

WithTarget == {"retarget", "schedule"}
Ops == WithTarget \cup {"confirm", "clear", "upgrade", "cancel", "resume", "release"}
Targets(op) ==
  CASE op \in WithTarget -> (PaidPlans \X Intervals) \ {<<ws.row.plan, ws.row.interval>>}
    [] op = "upgrade"    -> {<<"business", ws.row.interval>>}
    [] OTHER             -> {<<"none", "none">>}

OwnerReads ==
  /\ owner.pc = "idle" /\ ~blocked
  /\ \E op \in Ops :
       /\ Asks(op)
       /\ \E target \in Targets(op) :
            owner' = [NoRequest EXCEPT
              !.pc = "read", !.op = op,
              !.sub = IF op = "confirm" THEN Newest ELSE ws.row.sub,
              !.deferred = op = "cancel" /\ ws.row.status = "trialing",
              !.plan = target[1], !.interval = target[2]]
  /\ UNCHANGED <<clock, ws, blocked, stripe, version, event, worker, applied, flaws>>

(* What Stripe makes of the request.                                       *)
Asked(s) ==
  LET sub == stripe[s] IN
  CASE owner.op = "retarget" -> [sub EXCEPT !.plan = owner.plan, !.interval = owner.interval,
                                            !.cancel = FALSE]
    [] owner.op = "clear"    -> [sub EXCEPT !.status = "canceled"]
    [] owner.op = "upgrade"  -> [sub EXCEPT !.plan = "business", !.interval = owner.interval]
    [] owner.op = "schedule" -> [sub EXCEPT !.nextPlan = owner.plan,
                                            !.nextInterval = owner.interval]
    [] owner.op = "cancel"   -> [sub EXCEPT !.cancel = TRUE]
    [] owner.op = "resume"   -> [sub EXCEPT !.cancel = FALSE]
    [] owner.op = "release"  -> [sub EXCEPT !.nextPlan = "none", !.nextInterval = "none"]
    [] owner.op = "confirm"  -> sub

Accepted(s) ==
  /\ IsLive(s)
  /\ owner.op \notin {"clear", "release", "confirm"} => ~Scheduled(s)
  /\ owner.op = "retarget" => stripe[s].status = "trialing"
  /\ owner.op = "schedule" => ~stripe[s].cancel
  /\ owner.op = "upgrade" => owner.interval \in Intervals

(* An upgrade takes Stripe back to the interval the row had when it was    *)
(* read, when Stripe has changed it since.                                 *)
Reverts(s) == owner.op = "upgrade" /\ stripe[s].interval # owner.interval

OwnerCalls ==
  LET s == owner.sub IN
  /\ owner.pc = "read" /\ s # NoSub
  /\ \/ /\ owner.op = "confirm"
        /\ NoChange /\ UNCHANGED flaws
        /\ owner' = [owner EXCEPT !.pc = "called", !.ver = version,
                                  !.snap = Snapshot(s)]
     \/ /\ owner.op # "confirm" /\ Accepted(s)
        /\ Change(s, Asked(s), IF owner.op = "upgrade" THEN {"subscription", "paid"}
                               ELSE {"subscription"})
        /\ owner' = [owner EXCEPT !.pc = "called", !.ver = version + 1,
                                  !.snap = SnapshotOf(s, Asked(s))]
        /\ Flawed({f \in {"behind"} : Reverts(s)})
  /\ UNCHANGED <<clock, ws, blocked, worker, applied>>

(* Stripe refuses, or does not answer.                                     *)
OwnerRefused ==
  /\ owner.pc = "read"
  /\ owner' = NoRequest
  /\ UNCHANGED <<clock, ws, blocked, stripe, version, event, worker, applied, flaws>>

Written ==
  LET s == owner.snap IN
  CASE owner.op \in {"confirm", "retarget", "upgrade"} -> Reconcile(ws, s, clock)
    [] owner.op = "clear"    -> {FinalizeSubscriptionEnd(x, clock) : x \in Reconcile(ws, s, clock)}
    [] owner.op = "schedule" -> ScheduleBillingChange(ws, owner.plan, owner.interval)
    [] owner.op = "cancel"   -> ScheduleCancellation(ws, IF owner.deferred THEN s.trialEnd ELSE s.end)
    [] owner.op = "resume"   -> ClearPendingCancellation(ws)
    [] owner.op = "release"  -> ClearPendingScheduledChange(ws)

Overtaken == IF owner.ver < applied THEN {"overtaken"} ELSE {}
(* The row the request goes by has not the plan, interval and period that  *)
(* Stripe answered for, or the workspace was blocked meanwhile and the     *)
(* events of a past due subscription say nothing of its cancellation.      *)
Behind    ==
  IF \/ /\ owner.op = "schedule"
        /\ <<ws.row.plan, ws.row.interval, ws.row.end>>
             # <<owner.snap.plan, owner.snap.interval, owner.snap.end>>
     \/ owner.deferred /\ owner.snap.status # "trialing"
     \/ owner.op = "resume" /\ blocked /\ owner.snap.status = "past_due"
  THEN {"behind"} ELSE {}
Older     == IF owner.sub # Newest THEN {"old"} ELSE {}
(* Stripe was told what no later event will put into the row.              *)
Torn      ==
  IF \/ owner.op \in {"schedule", "release"}
     \/ owner.op \in {"cancel", "resume"} /\ owner.snap.status = "past_due"
  THEN {"torn"} ELSE {}

OwnerWrites ==
  /\ owner.pc = "called"
  /\ ws' \in Written
  /\ owner' = NoRequest
  /\ applied' = NewestOf(applied, owner.ver)
  /\ Flawed(Overtaken \cup Older \cup Behind)
  /\ UNCHANGED <<clock, blocked, stripe, version, event, worker>>

(* The process dies, or the write raises, after Stripe was told.           *)
OwnerInterrupted ==
  /\ owner.pc = "called"
  /\ ws' \in IF owner.op \in {"confirm", "retarget", "upgrade", "clear"}
             THEN ReconciledInPart(ws, owner.snap) ELSE {ws}
  /\ owner' = NoRequest
  /\ Flawed(Overtaken \cup Older \cup Torn
            \cup {f \in {"half"} : ws'.plan # ws.plan})
  /\ UNCHANGED <<clock, blocked, stripe, version, event, worker, applied>>
-----------------------------------------------------------------------------
(* The daily commands, and the platform administrator.                     *)
SendPaymentWarnings ==
  /\ ws.row.status = "past_due" /\ ~blocked
  /\ ws' = ApplyDueTransitions(ws, clock)
  /\ UNCHANGED <<clock, blocked, stripe, version, event, worker, owner, applied, flaws>>

ExpireTrial ==
  /\ ws' = ExpireDueTrial(ws, clock)
  /\ ws' # ws
  /\ UNCHANGED <<clock, blocked, stripe, version, event, worker, owner, applied, flaws>>

(* block_organization and unblock_organization hold the lock of the        *)
(* Organization during their call.  What fails once Stripe was told - the  *)
(* answer is not retrieved, the row not written, the process dies - rolls  *)
(* back the transaction and leaves Stripe's side as it is.                 *)
Block ==
  /\ ~blocked
  /\ blocked' = TRUE
  /\ IF RunsOn(ws)
     THEN /\ TellsToEnd(ws)
          /\ ws' \in CancelledLocally(ws, ws.row.sub)
          /\ applied' = version'
     ELSE NoChange /\ UNCHANGED <<ws, applied>>
  /\ UNCHANGED <<clock, worker, owner, flaws>>

BlockFails ==
  /\ ~blocked /\ RunsOn(ws)
  /\ TellsToEnd(ws)
  /\ UNCHANGED <<clock, ws, blocked, worker, owner, applied, flaws>>

ToResume(w) == w.row.status \in Live /\ w.row.cancel
TellsToGoOn(w) ==
  LET s == w.row.sub IN
  /\ ~TrialActive(w, clock)
  /\ s # NoSub /\ IsLive(s) /\ ~Scheduled(s)
  /\ Change(s, [stripe[s] EXCEPT !.cancel = FALSE], {"subscription"})

Unblock ==
  LET due == ApplyDueTransitions(ws, clock) IN
  /\ blocked
  /\ blocked' = FALSE
  /\ IF ToResume(due)
     THEN /\ TellsToGoOn(due)
          /\ ws' \in ClearPendingCancellation(due)
          /\ applied' = version'
     ELSE /\ ws' = IF due.row.status \in Live THEN due
                   ELSE [due EXCEPT !.plan = "basic"]
          /\ NoChange /\ UNCHANGED applied
  /\ UNCHANGED <<clock, worker, owner, flaws>>

(* The events of a past due subscription do not say that it goes on.       *)
UnblockFails ==
  LET due == ApplyDueTransitions(ws, clock) IN
  /\ blocked /\ ToResume(due)
  /\ TellsToGoOn(due)
  /\ Flawed({f \in {"torn"} : stripe[due.row.sub].status = "past_due"})
  /\ UNCHANGED <<clock, ws, blocked, worker, owner, applied>>
-----------------------------------------------------------------------------
Webhook(w) ==
  \/ Claim(w) \/ Retrieve(w) \/ RetrieveFails(w)
  \/ Apply(w) \/ ApplyRolledBack(w)
  \/ MarkProcessed(w) \/ MarkFailed(w) \/ Crash(w)
Stripe == Subscribe \/ PeriodEnds \/ RetrySucceeds \/ GivesUp
Owner  == OwnerReads \/ OwnerCalls \/ OwnerRefused \/ OwnerWrites \/ OwnerInterrupted
Platform ==
  \/ SendPaymentWarnings \/ ExpireTrial
  \/ Block \/ BlockFails \/ Unblock \/ UnblockFails

Next ==
  \/ Stripe \/ Owner \/ Platform \/ Tick
  \/ \E w \in Workers : Webhook(w)
  \/ \E e \in Events : AnswerInProgress(e)

Spec == Init /\ [][Next]_vars
-----------------------------------------------------------------------------
(* Types: every row, plan and trial a transition leaves is one of the      *)
(* catalog's, and nothing Stripe answers is outside what a snapshot can    *)
(* hold.                                                                   *)
TypeOK ==
  /\ clock \in 1 .. MaxClock
  /\ ws \in Workspaces
  /\ blocked \in BOOLEAN
  /\ version \in 0 .. MaxChanges
  /\ applied \in 0 .. version
  /\ \A s \in Subs : stripe[s].status # "none" => Snapshot(s) \in Snapshots

(* Two webhook requests never dispatch the same event at the same time     *)
(* (claim_provider_event): Stripe's repeated deliveries meet either a      *)
(* claimed row or a worker that died.                                      *)
OneDispatcher ==
  \A v, w \in Workers :
    v # w /\ worker[v].pc # "idle" => worker[v].event # worker[w].event

(* Once the free week is over the workspace has the plan of its            *)
(* subscription, or Basic without one: no interleaving of events, owner    *)
(* requests, blocking, grace and daily commands leaves a paid plan behind, *)
(* or takes one away that is paid for. Only a reconciliation cut in half   *)
(* ("half") breaks it.                                                     *)
PlanFollowsRow ==
  (ws.trial.expired \/ ws.trial.ends = NoTime) /\ "half" \notin flaws =>
    /\ ws.row.status \in Paying => ws.plan = ws.row.plan
    /\ ws.row.status \in {"none", "canceled"} => ws.plan = "basic"

(* Nothing is under way: Stripe has delivered everything, nobody is asking *)
(* for anything, and Stripe has no change of its own to make.              *)
Quiet ==
  /\ \A e \in Events : event[e].status = "free"
  /\ NoRequests
  /\ Settled

(* When everything is quiet the newest change at Stripe has reached the    *)
(* row: no order, repetition or delay of the deliveries and no crash or    *)
(* error of a worker consumes the event that reports it without applying   *)
(* an answer at least as new, unless a circumstance in flaws has occurred. *)
NothingForgotten == Quiet /\ flaws = {} => applied = version

(* When everything is quiet a subscription that Stripe has ended lives on  *)
(* in the row only for the time that is paid, or until the next request or *)
(* daily command applies the end that is due, whether Stripe, the owner or *)
(* a block ended it and in whatever order the events came.                 *)
EndedAgrees ==
  /\ Quiet /\ flaws = {} /\ Newest # NoSub
  /\ stripe[Newest].status = "canceled" /\ ws.row.status \in Live
  => /\ ws.row.cancel
     /\ \/ stripe[Newest].end > clock
        \/ ApplyDueTransitions(ws, clock).row.status = "canceled"

(* When everything is quiet the row says what Stripe says of a running     *)
(* subscription: status, plan, interval and whether it is to end, whatever *)
(* the order, number and delay of events and the crashes of workers, as    *)
(* long as none of the circumstances in flaws has occurred.                *)
QuietAgrees ==
  Quiet /\ flaws = {} /\ Newest # NoSub =>
    LET t == stripe[Newest]
        r == ws.row IN
    /\ t.status \in {"trialing", "active"} =>
         /\ <<r.status, r.plan, r.interval>> = <<t.status, t.plan, t.interval>>
         /\ r.cancel = t.cancel
    /\ t.status = "past_due" => r.status \in {"past_due", "canceled"}

(* A blocked workspace is not charged again: when everything is quiet its  *)
(* live subscription is to end at the end of the period, in the row and at *)
(* Stripe, also when the block overtook a request of the owner that        *)
(* resumes or buys, or an event that activates                             *)
(* (_reassert_block_cancellation).                                         *)
BlockedEnds ==
  Quiet /\ flaws = {} /\ blocked /\ ws.row.status \in Live =>
    ws.row.cancel /\ (IsLive(Newest) => stripe[Newest].cancel)

(* A past due workspace keeps its subscription until its grace has run     *)
(* out, the cancellation its owner asked for is due (by the row, or by the *)
(* answer of Stripe that is applied), or Stripe has given the subscription *)
(* up; and repeated failures, delivered twice, never move the end of the   *)
(* grace, unless a circumstance in flaws has occurred.                     *)
AnswersDue(w, s) ==
  /\ worker[w].snap # NoSnapshot
  /\ worker[w].snap.sub = s /\ worker[w].snap.cancel /\ worker[w].snap.end <= clock

GraceHonoured ==
  [][flaws' = {} /\ ws.row.status = "past_due" =>
       /\ ws'.row.status = "canceled" =>
            \/ clock >= ws.row.grace
            \/ ws.row.cancel /\ clock >= ws.row.pendingAt
            \/ stripe'[ws.row.sub].status = "canceled"
            \/ \E w \in Workers : AnswersDue(w, ws.row.sub)
       /\ ws'.row.status = "past_due" => ws'.row.grace = ws.row.grace]_vars

(* A paid Business plan becomes Plus only when the subscription at Stripe  *)
(* is Plus already or on the day a paid period begins or ends: whatever    *)
(* was scheduled, released, delivered late or applied by a daily command,  *)
(* nothing is taken away in the middle of the time that is paid, unless a  *)
(* circumstance in flaws has occurred.                                     *)
MidPeriod(s) == clock < stripe[s].end /\ stripe[s].end < clock + Period

KeepsPaidPlan ==
  /\ ws.row.status \in Paying /\ ws.row.sub # NoSub
  /\ ws.plan = "business" /\ ws'.plan = "plus"
  => stripe[ws.row.sub].plan = "plus" \/ ~MidPeriod(ws.row.sub)

DowngradeAwaitsPeriod == [][flaws' = {} => KeepsPaidPlan]_vars

(* The same whatever the row said when the change was scheduled ("Schedule *)
(* a plan and/or interval change at period end", services.py:395).         *)
ScheduledForPeriodEnd == [][KeepsPaidPlan]_vars
=============================================================================
