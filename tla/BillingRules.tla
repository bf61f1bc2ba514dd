---------------------------- MODULE BillingRules ----------------------------
(***************************************************************************)
(* Commercial billing of one workspace as pure transitions                 *)
(* (billing/services, builtin_trial, reconciliation).                      *)
(*                                                                         *)
(* A workspace is [plan, row, trial]: Organization.plan, the               *)
(* WorkspaceSubscription and the WorkspaceBuiltinTrial.  A transition is   *)
(* the set of its outcomes: one workspace, or none when the code raises    *)
(* BillingStateError.  "none" stands for an empty plan or interval, NoTime *)
(* for a null date.  One row is one market: currency, customer and price   *)
(* ids are left out, as is current_period_start, which goes with the end.  *)
(***************************************************************************)
EXTENDS Integers

CONSTANTS
  Subs,         \* Stripe subscription ids, numbered in the order of creation
  Intervals,    \* billing intervals
  Grace,        \* PAYMENT_GRACE_DAYS, in ticks
  Times         \* the dates a row may hold

NoTime == 0
NoSub  == 0

ASSUME BillingAssumption ==
  /\ \E n \in Subs \cup {NoSub} : n \in Nat /\ Subs = 1 .. n
  /\ Grace \in Nat \ {0}
  /\ "none" \notin Intervals
  /\ NoTime \in Times /\ Times \subseteq Nat

PaidPlans == {"plus", "business"}
Live      == {"trialing", "active", "past_due"}
Paying    == {"active", "past_due"}

Rows ==
  [status : Live \cup {"none", "canceled"}, plan : PaidPlans \cup {"none"},
   interval : Intervals \cup {"none"}, cancel : BOOLEAN,
   pendingPlan : PaidPlans \cup {"none", "basic"},
   pendingInterval : Intervals \cup {"none"}, pendingAt : Times,
   end : Times, trialEnd : Times, grace : Nat,
   sub : Subs \cup {NoSub}, source : {"none", "stripe"}]

Workspaces ==
  [plan : PaidPlans \cup {"basic"}, row : Rows,
   trial : [ends : Times, expired : BOOLEAN]]

(* SubscriptionSnapshot: what Stripe answers about a subscription.         *)
Snapshots ==
  [sub : Subs, status : Live \cup {"canceled"}, plan : PaidPlans,
   interval : Intervals, cancel : BOOLEAN, end : Times, trialEnd : Times]

NoRow ==
  [status |-> "none", plan |-> "none", interval |-> "none", cancel |-> FALSE,
   pendingPlan |-> "none", pendingInterval |-> "none", pendingAt |-> NoTime,
   end |-> NoTime, trialEnd |-> NoTime, grace |-> NoTime,
   sub |-> NoSub, source |-> "none"]

NoPending(row) ==
  [row EXCEPT !.cancel = FALSE, !.pendingPlan = "none",
              !.pendingInterval = "none", !.pendingAt = NoTime]

TrialActive(w, now) ==
  /\ w.trial.ends # NoTime
  /\ ~w.trial.expired
  /\ now < w.trial.ends

(* The plan a transition leaves unless the built-in trial still grants     *)
(* Business.                                                               *)
PlanUnlessTrial(w, plan, now) == IF TrialActive(w, now) THEN w.plan ELSE plan

AccessEnd(row) == IF row.status = "trialing" THEN row.trialEnd ELSE row.end

ScheduledChangePending(row) ==
  /\ ~row.cancel
  /\ row.pendingAt # NoTime
  /\ row.pendingPlan # "basic"
  /\ \/ row.pendingInterval # "none"
     \/ row.pendingPlan # "none" /\ row.pendingPlan # row.plan
-----------------------------------------------------------------------------
(* Mutant: a repeated failure starts the grace again.                      *)
FailureRestartsGrace(w, now) ==
  IF w.row.status \notin Paying THEN {}
  ELSE {[w EXCEPT !.row.status = "past_due", !.row.grace = now + Grace]}

MarkPaymentFailure(w, now) ==
  IF w.row.status \notin Paying THEN {}
  ELSE IF w.row.status = "past_due" /\ w.row.grace # NoTime THEN {w}
  ELSE {[w EXCEPT !.row.status = "past_due", !.row.grace = now + Grace]}

MarkPaymentRecovered(w) ==
  IF w.row.status = "past_due"
  THEN [w EXCEPT !.row.status = "active", !.row.grace = NoTime]
  ELSE w

(* Mutant: the end of a subscription is recorded, the plan kept.           *)
FinalizeKeepsPlan(w, now) ==
  [w EXCEPT !.row = [NoPending(@) EXCEPT
     !.status = "canceled", !.source = "none", !.interval = "none",
     !.plan = "none", !.grace = NoTime]]

FinalizeSubscriptionEnd(w, now) ==
  IF /\ w.row.status \in {"none", "canceled"}
     /\ w.plan = "basic"
     /\ ~w.row.cancel
     /\ w.row.pendingPlan = "none"
  THEN w
  ELSE [w EXCEPT !.plan = PlanUnlessTrial(w, "basic", now),
                 !.row = [NoPending(@) EXCEPT
                   !.status = "canceled", !.source = "none",
                   !.interval = "none", !.plan = "none", !.grace = NoTime]]

RecordDeferredStart(w, s) ==
  IF /\ w.row.status = "trialing"
     /\ <<w.row.plan, w.row.interval>> = <<s.plan, s.interval>>
     /\ w.row.trialEnd = s.trialEnd
     /\ ~w.row.cancel
  THEN {[w EXCEPT !.row.sub = s.sub, !.row.source = "stripe"]}
  ELSE IF w.row.status \in Paying THEN {}
  ELSE {[w EXCEPT !.row = [NoPending(@) EXCEPT
           !.status = "trialing", !.plan = s.plan, !.interval = s.interval,
           !.end = s.trialEnd, !.trialEnd = s.trialEnd, !.grace = NoTime,
           !.sub = s.sub, !.source = "stripe"]]}

ActivatePaid(w, s, now) ==
  IF /\ w.row.status = "active"
     /\ <<w.row.plan, w.row.interval>> = <<s.plan, s.interval>>
     /\ w.plan = s.plan
     /\ w.row.end = s.end
     /\ ~w.row.cancel
     /\ w.row.pendingPlan = "none"
  THEN w
  ELSE [w EXCEPT !.plan = PlanUnlessTrial(w, s.plan, now),
                 !.row = [NoPending(@) EXCEPT
                   !.status = "active", !.plan = s.plan,
                   !.interval = s.interval, !.end = s.end,
                   !.grace = NoTime, !.sub = s.sub, !.source = "stripe"]]

ApplyUpgrade(w, s) ==
  IF w.row.status \notin Paying THEN {}
  ELSE IF /\ w.row.plan = s.plan /\ w.plan = s.plan
          /\ w.row.pendingPlan = "none"
       THEN {w}
  ELSE IF w.row.plan = "business" THEN {}
  ELSE {[w EXCEPT !.plan = s.plan,
                  !.row = [NoPending(@) EXCEPT
                    !.status = "active", !.plan = s.plan, !.end = s.end,
                    !.grace = NoTime, !.sub = s.sub]]}

ScheduleBillingChange(w, plan, interval) ==
  LET r == w.row IN
  IF \/ r.status \notin Live
     \/ r.cancel
     \/ r.end = NoTime
     \/ plan = "business" /\ r.plan = "plus" /\ interval = r.interval
     \/ <<plan, interval>> = <<r.plan, r.interval>>
  THEN {}
  ELSE IF <<r.pendingPlan, r.pendingInterval, r.pendingAt>>
            = <<plan, interval, r.end>>
       THEN {w}
  ELSE IF ScheduledChangePending(r) THEN {}
  ELSE {[w EXCEPT !.row.pendingPlan = plan,
                  !.row.pendingInterval = interval,
                  !.row.pendingAt = r.end]}

ScheduleCancellation(w, when) ==
  LET at == IF when = NoTime THEN AccessEnd(w.row) ELSE when IN
  IF w.row.status \notin Live \/ at = NoTime THEN {}
  ELSE {[w EXCEPT !.row.cancel = TRUE, !.row.pendingPlan = "basic",
                  !.row.pendingAt = at]}

ClearPendingCancellation(w) ==
  IF ~w.row.cancel THEN {w}
  ELSE IF w.row.status \notin Live THEN {}
  ELSE IF w.row.pendingPlan = "basic"
       THEN {[w EXCEPT !.row.cancel = FALSE, !.row.pendingPlan = "none",
                       !.row.pendingAt = NoTime]}
       ELSE {[w EXCEPT !.row.cancel = FALSE]}

ClearPendingScheduledChange(w) ==
  IF w.row.cancel THEN {}
  ELSE IF ~ScheduledChangePending(w.row) THEN {w}
  ELSE IF w.row.status \notin Live THEN {}
  ELSE {[w EXCEPT !.row = NoPending(@)]}
-----------------------------------------------------------------------------
(* Mutant: what is pending is due.                                         *)
PendingAtOnce(r, now) == r.pendingAt # NoTime

(* apply_due_billing_transitions: the first of the dates that has passed   *)
(* decides.  The end of a deferred start forgets a pending plan and its    *)
(* date but does not save the pending interval.                            *)
GraceOver(r, now) == r.status = "past_due" /\ r.grace # NoTime /\ now >= r.grace
TrialOver(r, now) == r.status = "trialing" /\ r.trialEnd # NoTime /\ now >= r.trialEnd
PendingOver(r, now) == r.pendingAt # NoTime /\ now >= r.pendingAt

(* Mutant: the pending plan starts, not the deferred one.                  *)
StartPending(w, now) ==
  [w EXCEPT !.plan = PlanUnlessTrial(w, w.row.pendingPlan, now),
            !.row = [NoPending(@) EXCEPT !.status = "active",
                                         !.plan = w.row.pendingPlan]]

StartDeferred(w, now) ==
  LET r == w.row
      plan == IF r.plan \in PaidPlans THEN r.plan ELSE "business" IN
  [w EXCEPT !.plan = PlanUnlessTrial(w, plan, now),
            !.row = [NoPending(r) EXCEPT
              !.status = "active", !.plan = plan,
              !.end = IF r.end <= r.trialEnd THEN NoTime ELSE @,
              !.pendingInterval = r.pendingInterval]]

StartScheduled(w) ==
  LET r == w.row IN
  [w EXCEPT !.plan = IF r.pendingPlan = r.plan THEN @ ELSE r.pendingPlan,
            !.row = [NoPending(r) EXCEPT
              !.status = "active", !.plan = r.pendingPlan,
              !.interval = IF r.pendingInterval = "none" THEN @
                           ELSE r.pendingInterval]]

ApplyDueTransitions(w, now) ==
  LET r == w.row IN
  IF \/ GraceOver(r, now)
     \/ TrialOver(r, now) /\ r.cancel
     \/ ~TrialOver(r, now) /\ r.cancel /\ PendingOver(r, now)
  THEN FinalizeSubscriptionEnd(w, now)
  ELSE IF TrialOver(r, now) THEN StartDeferred(w, now)
  ELSE IF /\ PendingOver(r, now) /\ ~r.cancel
          /\ r.pendingPlan \notin {"none", "basic"}
       THEN StartScheduled(w)
  ELSE w

ExpireDueTrial(w, now) ==
  IF w.trial.ends = NoTime \/ now < w.trial.ends THEN w
  ELSE IF w.row.status \in Paying /\ w.row.plan \in PaidPlans
       THEN [w EXCEPT !.plan = w.row.plan, !.trial.expired = TRUE]
  ELSE IF w.row.status = "trialing" /\ w.row.plan \in PaidPlans THEN w
  ELSE [w EXCEPT !.plan = "basic", !.trial.expired = TRUE]
-----------------------------------------------------------------------------
(* reconcile_subscription_snapshot.  WithIds is _store_provider_ids.       *)
WithIds(w, s) == [w EXCEPT !.row.source = "stripe", !.row.sub = s.sub]

(* Mutant: a cancellation made at Stripe is not taken over.                *)
CancelForgotten(w, s, when) == {w}

CancelToo(w, s, when) == IF s.cancel THEN ScheduleCancellation(w, when) ELSE {w}

(* Mutant: the end of a subscription is left to the dates of the row.      *)
EndLeftToDates(w, s, now) ==
  IF s.cancel /\ s.end > now THEN ScheduleCancellation(w, s.end) ELSE {w}

ReconcileEnded(w, s, now) ==
  IF s.cancel /\ s.end > now THEN ScheduleCancellation(w, s.end)
  ELSE {FinalizeSubscriptionEnd(w, now)}

ReconcileDeferred(w, s) ==
  UNION {CancelToo(d, s, s.trialEnd) : d \in RecordDeferredStart(w, s)}

PeriodOnly(w, s) == [w EXCEPT !.row.end = s.end]

ReconcileActive(w, s, now) ==
  LET r == w.row
      bought == <<s.plan, s.interval>>
      target == <<IF r.pendingPlan = "none" THEN r.plan ELSE r.pendingPlan,
                  IF r.pendingInterval = "none" THEN r.interval
                  ELSE r.pendingInterval>>
      awaited == ScheduledChangePending(r) /\ s.end > now
      downgrade == /\ r.pendingPlan = "plus" /\ r.plan = "business"
                   /\ target[2] = r.interval /\ ~r.cancel
  IN IF awaited /\ bought = <<r.plan, r.interval>>
     THEN CancelToo(PeriodOnly(w, s), s, s.end)
     ELSE IF awaited /\ bought # target THEN {w}
     ELSE IF s.plan = "plus" /\ w.plan = "business"
     THEN {ActivatePaid([w EXCEPT !.plan = "plus"], s, now)}
     ELSE IF s.plan = "business" /\ w.plan = "plus" THEN ApplyUpgrade(w, s)
     ELSE IF downgrade /\ s.plan = "business"
     THEN CancelToo(PeriodOnly(w, s), s, s.end)
     ELSE CancelToo(ActivatePaid(w, s, now), s, s.end)

Reconcile(w, s, now) ==
  LET known == WithIds(w, s) IN
  IF s.status = "canceled" THEN ReconcileEnded(known, s, now)
  ELSE IF s.status = "past_due" THEN MarkPaymentFailure(known, now)
  ELSE IF s.status = "trialing"
  THEN ReconcileDeferred(MarkPaymentRecovered(known), s)
  ELSE ReconcileActive(MarkPaymentRecovered(known), s, now)

(* Outside the webhook every step of the reconciliation commits by itself: *)
(* what a process that dies, or a step that raises, leaves behind.         *)
ReconciledInPart(w, s) ==
  LET known == WithIds(w, s)
      recovered == IF s.status \in {"trialing", "active"}
                   THEN MarkPaymentRecovered(known) ELSE known IN
  IF s.status = "active" /\ s.plan = "plus" /\ w.plan = "business"
  THEN {w, known, recovered, [recovered EXCEPT !.plan = "plus"]}
  ELSE {w, known, recovered}
=============================================================================
