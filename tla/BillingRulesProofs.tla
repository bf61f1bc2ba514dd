------------------------- MODULE BillingRulesProofs -------------------------
(***************************************************************************)
(* Every billing transition keeps a sound workspace sound, whatever the    *)
(* subscription ids, intervals, dates and grace: the row is well typed, no *)
(* date of it lies before the end of the free week, and the effective plan *)
(* still follows the row once the free week is over, if it did before.     *)
(*                                                                         *)
(* The dates are what makes the plan an invariant: a scheduled change      *)
(* starts without setting the plan when it names the plan of the row       *)
(* (StartScheduled), which is right only if the free week is decided       *)
(* first (TrialOver), so a change must never be due before the end of it.  *)
(***************************************************************************)
EXTENDS BillingRules, TLAPS

(* What Stripe may answer for a workspace whose free week ends at e.       *)
Answers(e) ==
  {s \in Snapshots : /\ s.status = "trialing" => s.trialEnd = e /\ e # NoTime
                     /\ s.end >= e}

Over(w) == w.trial.expired \/ w.trial.ends = NoTime

Agree(plan, r) ==
  /\ r.status \in Paying => plan = r.plan
  /\ r.status \in {"none", "canceled"} => plan = "basic"

Follows(w) == Over(w) => Agree(w.plan, w.row)

RowDated(r, e) ==
  /\ r.status = "trialing" => r.trialEnd = e /\ e # NoTime
  /\ r.end # NoTime => r.end >= e
  /\ ~r.cancel /\ r.pendingAt # NoTime => r.pendingAt >= e
  /\ r.cancel => r.pendingPlan = "basic"
  /\ IF r.status \in Live THEN r.plan \in PaidPlans
                          ELSE r.pendingPlan \in {"none", "basic"}

Sound(w) == w \in Workspaces /\ RowDated(w.row, w.trial.ends)

Kept(x, w) == Sound(x) /\ x.trial = w.trial /\ (Follows(w) => Follows(x))

(* Every outcome of a transition of w.                                     *)
AllKept(outcomes, w) == \A x \in outcomes : Kept(x, w)
-----------------------------------------------------------------------------
(* The parts of a workspace, and what is known of a sound one.             *)
LEMMA Known ==
  ASSUME NEW w, Sound(w)
  PROVE  /\ w \in Workspaces /\ w.row \in Rows /\ RowDated(w.row, w.trial.ends)
         /\ w.plan \in PaidPlans \cup {"basic"}
         /\ w.trial.ends \in Nat /\ w.trial.ends \in Times
<1>1. w \in Workspaces /\ RowDated(w.row, w.trial.ends)
  BY DEF Sound
<1>2. /\ w.row \in Rows /\ w.plan \in PaidPlans \cup {"basic"}
      /\ w.trial.ends \in Times
  BY <1>1 DEF Workspaces
<1>3. QED
  BY <1>1, <1>2, BillingAssumption

(* Dates are numbers.                                                      *)
LEMMA Dates ==
  ASSUME NEW r \in Rows
  PROVE  /\ r.pendingAt \in Nat /\ r.end \in Nat /\ r.trialEnd \in Nat
         /\ r.pendingAt \in Times /\ r.end \in Times /\ r.trialEnd \in Times
BY BillingAssumption DEF Rows

LEMMA KeptAgain ==
  ASSUME NEW w, NEW x, NEW y, Kept(x, w), Kept(y, x)
  PROVE  Kept(y, w)
BY DEF Kept

LEMMA KeptSame ==
  ASSUME NEW w, Sound(w)
  PROVE  Kept(w, w)
BY DEF Kept

(* It is enough to know the new plan and the new row.                      *)
LEMMA NewPlanAndRow ==
  ASSUME NEW w, Sound(w), NEW r \in Rows, NEW p \in PaidPlans \cup {"basic"},
         RowDated(r, w.trial.ends),
         Over(w) /\ Agree(w.plan, w.row) => Agree(p, r)
  PROVE  Kept([w EXCEPT !.plan = p, !.row = r], w)
<1> DEFINE x == [w EXCEPT !.plan = p, !.row = r]
<1>1. w \in Workspaces
  BY Known
<1>2. x \in Workspaces /\ x.row = r /\ x.plan = p /\ x.trial = w.trial
  BY <1>1 DEF Workspaces
<1> HIDE DEF x
<1>3. Sound(x)
  BY <1>2 DEF Sound
<1>4. ASSUME Follows(w) PROVE Follows(x)
  BY <1>2, <1>4 DEF Follows, Over
<1>5. Kept(x, w)
  BY <1>2, <1>3, <1>4 DEF Kept
<1>6. QED
  BY <1>5 DEF x

LEMMA NewRow ==
  ASSUME NEW w, Sound(w), NEW r \in Rows, RowDated(r, w.trial.ends),
         Over(w) /\ Agree(w.plan, w.row) => Agree(w.plan, r)
  PROVE  Kept([w EXCEPT !.row = r], w)
<1>1. w \in Workspaces /\ w.plan \in PaidPlans \cup {"basic"}
  BY Known
<1>2. [w EXCEPT !.row = r] = [w EXCEPT !.plan = w.plan, !.row = r]
  BY <1>1 DEF Workspaces
<1>3. Kept([w EXCEPT !.plan = w.plan, !.row = r], w)
  BY <1>1, NewPlanAndRow
<1>4. QED
  BY <1>2, <1>3

(* While the free week lasts a transition keeps the plan it grants.        *)
LEMMA UnlessTrial ==
  ASSUME NEW w, Sound(w), NEW p \in PaidPlans \cup {"basic"}, NEW now
  PROVE  /\ PlanUnlessTrial(w, p, now) \in PaidPlans \cup {"basic"}
         /\ Over(w) => PlanUnlessTrial(w, p, now) = p
BY Known DEF PlanUnlessTrial, TrialActive, Over
-----------------------------------------------------------------------------
(* A failed payment, and one made good.                                    *)
LEMMA FailureKept ==
  ASSUME NEW w, Sound(w), NEW now \in Nat
  PROVE  AllKept(MarkPaymentFailure(w, now), w)
<1> DEFINE r == [w.row EXCEPT !.status = "past_due", !.grace = now + Grace]
<1>1. w \in Workspaces /\ w.row \in Rows /\ RowDated(w.row, w.trial.ends)
  BY Known
<1>2. now + Grace \in Nat
  BY BillingAssumption
<1>3. /\ r \in Rows /\ r.status = "past_due" /\ r.plan = w.row.plan
      /\ r.cancel = w.row.cancel /\ r.pendingPlan = w.row.pendingPlan
      /\ r.pendingAt = w.row.pendingAt /\ r.end = w.row.end
  BY <1>1, <1>2 DEF Rows, Live
<1>4. [w EXCEPT !.row.status = "past_due", !.row.grace = now + Grace] = [w EXCEPT !.row = r]
  BY <1>1 DEF Workspaces, Rows
<1> HIDE DEF r
<1>5. ASSUME w.row.status \in Paying
      PROVE  Kept([w EXCEPT !.row = r], w)
  <2>1. RowDated(r, w.trial.ends)
    BY <1>1, <1>3, <1>5 DEF RowDated, Paying, Live
  <2>2. Agree(w.plan, w.row) => Agree(w.plan, r)
    BY <1>3, <1>5 DEF Agree, Paying
  <2>3. QED
    BY <2>1, <2>2, <1>3, NewRow
<1>6. QED
  BY <1>4, <1>5, KeptSame DEF AllKept, MarkPaymentFailure

LEMMA RecoveredKept ==
  ASSUME NEW w, Sound(w)
  PROVE  Kept(MarkPaymentRecovered(w), w)
<1> DEFINE r == [w.row EXCEPT !.status = "active", !.grace = NoTime]
<1>1. w \in Workspaces /\ w.row \in Rows /\ RowDated(w.row, w.trial.ends)
  BY Known
<1>3. /\ r \in Rows /\ r.status = "active" /\ r.plan = w.row.plan
      /\ r.cancel = w.row.cancel /\ r.pendingPlan = w.row.pendingPlan
      /\ r.pendingAt = w.row.pendingAt /\ r.end = w.row.end
  BY <1>1 DEF Rows, Live, NoTime
<1>4. [w EXCEPT !.row.status = "active", !.row.grace = NoTime] = [w EXCEPT !.row = r]
  BY <1>1 DEF Workspaces, Rows
<1> HIDE DEF r
<1>5. ASSUME w.row.status = "past_due"
      PROVE  Kept([w EXCEPT !.row = r], w)
  <2>1. RowDated(r, w.trial.ends)
    BY <1>1, <1>3, <1>5 DEF RowDated, Live
  <2>2. Agree(w.plan, w.row) => Agree(w.plan, r)
    BY <1>3, <1>5 DEF Agree, Paying
  <2>3. QED
    BY <2>1, <2>2, <1>3, NewRow
<1>6. QED
  BY <1>4, <1>5, KeptSame DEF MarkPaymentRecovered

(* The end of a subscription: nothing stays pending.                       *)
LEMMA FinalizeKept ==
  ASSUME NEW w, Sound(w), NEW now
  PROVE  Kept(FinalizeSubscriptionEnd(w, now), w)
<1> DEFINE r == [NoPending(w.row) EXCEPT
                   !.status = "canceled", !.source = "none",
                   !.interval = "none", !.plan = "none", !.grace = NoTime]
           p == PlanUnlessTrial(w, "basic", now)
           x == [w EXCEPT !.plan = p, !.row = r]
<1>1. w \in Workspaces /\ w.row \in Rows /\ RowDated(w.row, w.trial.ends)
  BY Known
<1>2. /\ r \in Rows /\ r.status = "canceled" /\ ~r.cancel
      /\ r.pendingPlan = "none" /\ r.pendingAt = NoTime /\ r.end = w.row.end
  BY ZenonT(60), <1>1, BillingAssumption DEF Rows, Live, NoPending, NoTime
<1>3. [w EXCEPT !.plan = p,
                !.row = [NoPending(@) EXCEPT
                  !.status = "canceled", !.source = "none",
                  !.interval = "none", !.plan = "none", !.grace = NoTime]] = x
  BY <1>1 DEF Workspaces
<1>4. p \in PaidPlans \cup {"basic"} /\ (Over(w) => p = "basic")
  BY UnlessTrial
<1>5. FinalizeSubscriptionEnd(w, now) \in {w, x}
  BY <1>3 DEF FinalizeSubscriptionEnd
<1> HIDE DEF r, p
<1>6. RowDated(r, w.trial.ends)
  BY <1>1, <1>2 DEF RowDated, Live
<1>7. Over(w) => Agree(p, r)
  BY <1>2, <1>4 DEF Agree, Paying
<1>8. Kept(x, w)
  BY <1>2, <1>4, <1>6, <1>7, NewPlanAndRow
<1>9. QED
  BY <1>5, <1>8, KeptSame
-----------------------------------------------------------------------------
(* What a snapshot says.                                                   *)
LEMMA Answered ==
  ASSUME NEW e \in Nat, NEW s \in Answers(e)
  PROVE  /\ s.sub \in Subs \cup {NoSub} /\ s.plan \in PaidPlans
         /\ s.interval \in Intervals \cup {"none"}
         /\ s.end \in Times /\ s.trialEnd \in Times
         /\ s.end \in Nat /\ s.trialEnd \in Nat /\ s.end >= e
         /\ s.status = "trialing" => s.trialEnd = e /\ e # NoTime
<1>1. s \in Snapshots /\ s.end >= e
      /\ (s.status = "trialing" => s.trialEnd = e /\ e # NoTime)
  BY DEF Answers
<1>2. s.end \in Times /\ s.trialEnd \in Times /\ s.sub \in Subs
      /\ s.plan \in PaidPlans /\ s.interval \in Intervals
  BY <1>1 DEF Snapshots
<1>3. QED
  BY <1>1, <1>2, BillingAssumption

LEMMA WithIdsKept ==
  ASSUME NEW w, Sound(w), NEW s \in Answers(w.trial.ends)
  PROVE  Kept(WithIds(w, s), w)
<1> DEFINE r == [w.row EXCEPT !.source = "stripe", !.sub = s.sub]
<1>1. w \in Workspaces /\ w.row \in Rows /\ RowDated(w.row, w.trial.ends)
      /\ s.sub \in Subs \cup {NoSub}
  BY Known, Answered
<1>2. /\ r \in Rows /\ r.status = w.row.status /\ r.plan = w.row.plan
      /\ r.cancel = w.row.cancel /\ r.pendingPlan = w.row.pendingPlan
      /\ r.pendingAt = w.row.pendingAt /\ r.end = w.row.end
      /\ r.trialEnd = w.row.trialEnd
  BY <1>1 DEF Rows
<1>3. WithIds(w, s) = [w EXCEPT !.row = r]
  BY <1>1 DEF Workspaces, Rows, WithIds
<1> HIDE DEF r
<1>4. RowDated(r, w.trial.ends)
  BY <1>1, <1>2 DEF RowDated
<1>5. Agree(w.plan, w.row) => Agree(w.plan, r)
  BY <1>2 DEF Agree
<1>6. QED
  BY <1>2, <1>3, <1>4, <1>5, NewRow

(* A row that waits for nothing.                                           *)
LEMMA Settles ==
  ASSUME NEW r \in Rows
  PROVE  /\ NoPending(r) \in Rows /\ ~NoPending(r).cancel
         /\ NoPending(r).pendingPlan = "none" /\ NoPending(r).pendingAt = NoTime
         /\ NoPending(r).end = r.end
<1>1. NoTime \in Times
  BY BillingAssumption
<1>2. QED
  BY <1>1 DEF Rows, NoPending

(* A deferred start ends with the free week.                               *)
LEMMA DeferredKept ==
  ASSUME NEW w, Sound(w), NEW s \in Answers(w.trial.ends),
         s.status = "trialing"
  PROVE  AllKept(RecordDeferredStart(w, s), w)
<1> DEFINE r == [NoPending(w.row) EXCEPT
                   !.status = "trialing", !.plan = s.plan, !.interval = s.interval,
                   !.end = s.trialEnd, !.trialEnd = s.trialEnd, !.grace = NoTime,
                   !.sub = s.sub, !.source = "stripe"]
           x == [w EXCEPT !.row = r]
<1>1. w \in Workspaces /\ w.row \in Rows /\ w.trial.ends \in Nat
  BY Known
<1>2. /\ s.sub \in Subs \cup {NoSub} /\ s.plan \in PaidPlans
      /\ s.interval \in Intervals \cup {"none"} /\ s.trialEnd \in Times
      /\ s.trialEnd = w.trial.ends /\ w.trial.ends # NoTime
  BY <1>1, Answered
<1>3. /\ r \in Rows /\ r.status = "trialing" /\ r.plan = s.plan /\ ~r.cancel
      /\ r.pendingPlan = "none" /\ r.pendingAt = NoTime
      /\ r.end = s.trialEnd /\ r.trialEnd = s.trialEnd
  <2> DEFINE q == NoPending(w.row)
  <2>1. /\ q \in Rows /\ ~q.cancel
        /\ q.pendingPlan = "none" /\ q.pendingAt = NoTime
    BY <1>1, Settles
  <2> HIDE DEF q
  <2>2. QED
    BY <1>2, <2>1 DEF Rows, Live, NoTime, q
<1>4. [w EXCEPT !.row = [NoPending(@) EXCEPT
           !.status = "trialing", !.plan = s.plan, !.interval = s.interval,
           !.end = s.trialEnd, !.trialEnd = s.trialEnd, !.grace = NoTime,
           !.sub = s.sub, !.source = "stripe"]] = x
  BY <1>1 DEF Workspaces
<1>5. [w EXCEPT !.row.sub = s.sub, !.row.source = "stripe"] = WithIds(w, s)
  BY <1>1 DEF Workspaces, Rows, WithIds
<1>6. RecordDeferredStart(w, s) \subseteq {WithIds(w, s), x}
  BY <1>4, <1>5 DEF RecordDeferredStart
<1> HIDE DEF r
<1>7. RowDated(r, w.trial.ends)
  BY <1>1, <1>2, <1>3 DEF RowDated, Live
<1>8. Agree(w.plan, r)
  BY <1>3 DEF Agree, Paying
<1>9. Kept(x, w)
  BY <1>3, <1>7, <1>8, NewRow
<1>10. QED
  BY <1>6, <1>9, WithIdsKept DEF AllKept

(* An activation sets the plan of the workspace and of the row alike,      *)
(* whatever the plan was before.                                           *)
LEMMA ActivatedKept ==
  ASSUME NEW w, Sound(w), NEW s \in Answers(w.trial.ends), NEW now
  PROVE  /\ Kept(ActivatePaid(w, s, now), w)
         /\ Follows(ActivatePaid(w, s, now))
<1> DEFINE r == [NoPending(w.row) EXCEPT
                   !.status = "active", !.plan = s.plan,
                   !.interval = s.interval, !.end = s.end,
                   !.grace = NoTime, !.sub = s.sub, !.source = "stripe"]
           p == PlanUnlessTrial(w, s.plan, now)
           x == [w EXCEPT !.plan = p, !.row = r]
           same == /\ w.row.status = "active"
                   /\ <<w.row.plan, w.row.interval>> = <<s.plan, s.interval>>
                   /\ w.plan = s.plan
                   /\ w.row.end = s.end
                   /\ ~w.row.cancel
                   /\ w.row.pendingPlan = "none"
<1>1. w \in Workspaces /\ w.row \in Rows /\ w.trial.ends \in Nat
  BY Known
<1>2. /\ s.sub \in Subs \cup {NoSub} /\ s.plan \in PaidPlans
      /\ s.interval \in Intervals \cup {"none"} /\ s.end \in Times
      /\ s.end >= w.trial.ends
  BY <1>1, Answered
<1>3. /\ r \in Rows /\ r.status = "active" /\ r.plan = s.plan /\ ~r.cancel
      /\ r.pendingPlan = "none" /\ r.pendingAt = NoTime /\ r.end = s.end
  <2> DEFINE q == NoPending(w.row)
  <2>1. /\ q \in Rows /\ ~q.cancel
        /\ q.pendingPlan = "none" /\ q.pendingAt = NoTime
    BY <1>1, Settles
  <2> HIDE DEF q
  <2>2. QED
    BY <1>2, <2>1 DEF Rows, Live, NoTime, q
<1>4. [w EXCEPT !.plan = p,
                !.row = [NoPending(@) EXCEPT
                   !.status = "active", !.plan = s.plan,
                   !.interval = s.interval, !.end = s.end,
                   !.grace = NoTime, !.sub = s.sub, !.source = "stripe"]] = x
  BY <1>1 DEF Workspaces
<1>5. ActivatePaid(w, s, now) = IF same THEN w ELSE x
  BY <1>4 DEF ActivatePaid
<1>6. p \in PaidPlans \cup {"basic"} /\ (Over(w) => p = s.plan)
  BY <1>2, UnlessTrial
<1>7. x.row = r /\ x.plan = p /\ x.trial = w.trial
  BY <1>1 DEF Workspaces
<1>8. ASSUME same PROVE Follows(w)
  BY <1>8 DEF Follows, Agree, Paying
<1> HIDE DEF r, p, same
<1>9. RowDated(r, w.trial.ends)
  BY <1>1, <1>2, <1>3 DEF RowDated, Live
<1>10. Over(w) => Agree(p, r)
  BY <1>3, <1>6 DEF Agree, Paying
<1>11. Kept(x, w)
  BY <1>3, <1>6, <1>9, <1>10, NewPlanAndRow
<1>12. Follows(x)
  BY <1>7, <1>10 DEF Follows, Over
<1>13. QED
  BY <1>5, <1>8, <1>11, <1>12, KeptSame

LEMMA UpgradeKept ==
  ASSUME NEW w, Sound(w), NEW s \in Answers(w.trial.ends)
  PROVE  AllKept(ApplyUpgrade(w, s), w)
<1> DEFINE r == [NoPending(w.row) EXCEPT
                    !.status = "active", !.plan = s.plan, !.end = s.end,
                    !.grace = NoTime, !.sub = s.sub]
           x == [w EXCEPT !.plan = s.plan, !.row = r]
<1>1. w \in Workspaces /\ w.row \in Rows /\ w.trial.ends \in Nat
  BY Known
<1>2. /\ s.sub \in Subs \cup {NoSub} /\ s.plan \in PaidPlans
      /\ s.end \in Times /\ s.end >= w.trial.ends
  BY <1>1, Answered
<1>3. /\ r \in Rows /\ r.status = "active" /\ r.plan = s.plan /\ ~r.cancel
      /\ r.pendingPlan = "none" /\ r.pendingAt = NoTime /\ r.end = s.end
  <2> DEFINE q == NoPending(w.row)
  <2>1. /\ q \in Rows /\ ~q.cancel
        /\ q.pendingPlan = "none" /\ q.pendingAt = NoTime
    BY <1>1, Settles
  <2> HIDE DEF q
  <2>2. QED
    BY <1>2, <2>1 DEF Rows, Live, NoTime, q
<1>4. [w EXCEPT !.plan = s.plan,
                !.row = [NoPending(@) EXCEPT
                    !.status = "active", !.plan = s.plan, !.end = s.end,
                    !.grace = NoTime, !.sub = s.sub]] = x
  BY <1>1 DEF Workspaces
<1>5. ApplyUpgrade(w, s) \subseteq {w, x}
  BY <1>4 DEF ApplyUpgrade
<1> HIDE DEF r
<1>6. RowDated(r, w.trial.ends)
  BY <1>1, <1>2, <1>3 DEF RowDated, Live
<1>7. Agree(s.plan, r)
  BY <1>3 DEF Agree, Paying
<1>8. Kept(x, w)
  BY <1>2, <1>3, <1>6, <1>7, NewPlanAndRow
<1>9. QED
  BY <1>5, <1>8, KeptSame DEF AllKept
-----------------------------------------------------------------------------
(* What the owner schedules or takes back leaves status and plan alone.    *)
LEMMA NewPending ==
  ASSUME NEW w, Sound(w), NEW r \in Rows,
         r.status = w.row.status, r.plan = w.row.plan,
         RowDated(r, w.trial.ends)
  PROVE  Kept([w EXCEPT !.row = r], w)
BY NewRow DEF Agree

LEMMA ChangeKept ==
  ASSUME NEW w, Sound(w), NEW plan \in PaidPlans, NEW interval \in Intervals
  PROVE  AllKept(ScheduleBillingChange(w, plan, interval), w)
<1> DEFINE r == [w.row EXCEPT !.pendingPlan = plan, !.pendingInterval = interval,
                              !.pendingAt = w.row.end]
           x == [w EXCEPT !.row = r]
<1>1. w \in Workspaces /\ w.row \in Rows /\ RowDated(w.row, w.trial.ends)
      /\ w.row.end \in Times
  BY Known, Dates
<1>2. /\ r \in Rows /\ r.status = w.row.status /\ r.plan = w.row.plan
      /\ r.cancel = w.row.cancel /\ r.pendingPlan = plan
      /\ r.pendingAt = w.row.end /\ r.end = w.row.end
      /\ r.trialEnd = w.row.trialEnd
  BY <1>1 DEF Rows
<1>3. [w EXCEPT !.row.pendingPlan = plan, !.row.pendingInterval = interval,
                !.row.pendingAt = w.row.end] = x
  BY <1>1 DEF Workspaces, Rows
<1>4. \A y \in ScheduleBillingChange(w, plan, interval) :
        y = w \/ (y = x /\ w.row.status \in Live /\ ~w.row.cancel /\ w.row.end # NoTime)
  BY <1>3 DEF ScheduleBillingChange
<1> HIDE DEF r
<1>5. ASSUME w.row.status \in Live, ~w.row.cancel, w.row.end # NoTime
      PROVE  Kept(x, w)
  <2>1. RowDated(r, w.trial.ends)
    BY <1>1, <1>2, <1>5 DEF RowDated
  <2>2. QED
    BY <1>2, <2>1, NewPending
<1>6. QED
  BY <1>4, <1>5, KeptSame DEF AllKept

LEMMA CancellationKept ==
  ASSUME NEW w, Sound(w), NEW when \in Times
  PROVE  AllKept(ScheduleCancellation(w, when), w)
<1> DEFINE at == IF when = NoTime THEN AccessEnd(w.row) ELSE when
           r  == [w.row EXCEPT !.cancel = TRUE, !.pendingPlan = "basic",
                               !.pendingAt = at]
           x  == [w EXCEPT !.row = r]
<1>1. w \in Workspaces /\ w.row \in Rows /\ RowDated(w.row, w.trial.ends)
      /\ w.row.end \in Times /\ w.row.trialEnd \in Times
  BY Known, Dates
<1>2. at \in Times
  BY <1>1 DEF AccessEnd
<1>3. ScheduleCancellation(w, when)
        \subseteq {[w EXCEPT !.row.cancel = TRUE, !.row.pendingPlan = "basic",
                             !.row.pendingAt = at]}
      /\ (w.row.status \notin Live => ScheduleCancellation(w, when) = {})
  BY DEF ScheduleCancellation
<1> HIDE DEF at
<1>4. /\ r \in Rows /\ r.status = w.row.status /\ r.plan = w.row.plan
      /\ r.cancel /\ r.pendingPlan = "basic" /\ r.end = w.row.end
      /\ r.trialEnd = w.row.trialEnd
  BY <1>1, <1>2 DEF Rows
<1>5. [w EXCEPT !.row.cancel = TRUE, !.row.pendingPlan = "basic",
                !.row.pendingAt = at] = x
  BY <1>1 DEF Workspaces, Rows
<1> HIDE DEF r
<1>6. RowDated(r, w.trial.ends)
  BY <1>1, <1>4 DEF RowDated
<1>7. Kept(x, w)
  BY <1>4, <1>6, NewPending
<1>8. QED
  BY <1>3, <1>5, <1>7 DEF AllKept

LEMMA ResumedKept ==
  ASSUME NEW w, Sound(w)
  PROVE  AllKept(ClearPendingCancellation(w), w)
<1> DEFINE r == [w.row EXCEPT !.cancel = FALSE, !.pendingPlan = "none",
                              !.pendingAt = NoTime]
           x == [w EXCEPT !.row = r]
<1>1. w \in Workspaces /\ w.row \in Rows /\ RowDated(w.row, w.trial.ends)
      /\ NoTime \in Times
  BY Known, BillingAssumption
<1>2. /\ r \in Rows /\ r.status = w.row.status /\ r.plan = w.row.plan
      /\ ~r.cancel /\ r.pendingPlan = "none" /\ r.pendingAt = NoTime
      /\ r.end = w.row.end /\ r.trialEnd = w.row.trialEnd
  BY <1>1 DEF Rows
<1>3. [w EXCEPT !.row.cancel = FALSE, !.row.pendingPlan = "none",
                !.row.pendingAt = NoTime] = x
  BY <1>1 DEF Workspaces, Rows
<1>4. ClearPendingCancellation(w) \subseteq {w, x}
  BY <1>1, <1>3 DEF ClearPendingCancellation, RowDated
<1> HIDE DEF r
<1>5. RowDated(r, w.trial.ends)
  BY <1>1, <1>2 DEF RowDated
<1>6. Kept(x, w)
  BY <1>2, <1>5, NewPending
<1>7. QED
  BY <1>4, <1>6, KeptSame DEF AllKept

LEMMA ReleasedKept ==
  ASSUME NEW w, Sound(w)
  PROVE  AllKept(ClearPendingScheduledChange(w), w)
<1> DEFINE r == NoPending(w.row)
           x == [w EXCEPT !.row = r]
<1>1. w \in Workspaces /\ w.row \in Rows /\ RowDated(w.row, w.trial.ends)
  BY Known
<1>2. /\ r \in Rows /\ ~r.cancel /\ r.pendingPlan = "none"
      /\ r.pendingAt = NoTime /\ r.end = w.row.end
  BY <1>1, Settles
<1>3. r.status = w.row.status /\ r.plan = w.row.plan
      /\ r.trialEnd = w.row.trialEnd
  BY <1>1 DEF Rows, NoPending
<1>4. [w EXCEPT !.row = NoPending(@)] = x
  BY <1>1 DEF Workspaces
<1>5. ClearPendingScheduledChange(w) \subseteq {w, x}
  BY <1>4 DEF ClearPendingScheduledChange
<1> HIDE DEF r
<1>6. RowDated(r, w.trial.ends)
  BY <1>1, <1>2, <1>3 DEF RowDated
<1>7. Kept(x, w)
  BY <1>2, <1>3, <1>6, NewPending
<1>8. QED
  BY <1>5, <1>7, KeptSame DEF AllKept
-----------------------------------------------------------------------------
(* What is due by the clock.                                               *)
LEMMA StartDeferredKept ==
  ASSUME NEW w, Sound(w), NEW now, w.row.status = "trialing"
  PROVE  Kept(StartDeferred(w, now), w)
<1> DEFINE plan == IF w.row.plan \in PaidPlans THEN w.row.plan ELSE "business"
           p == PlanUnlessTrial(w, plan, now)
           end == IF w.row.end <= w.row.trialEnd THEN NoTime ELSE w.row.end
           r == [NoPending(w.row) EXCEPT
                   !.status = "active", !.plan = plan, !.end = end,
                   !.pendingInterval = w.row.pendingInterval]
<1>1. w \in Workspaces /\ w.row \in Rows /\ RowDated(w.row, w.trial.ends)
      /\ NoTime \in Times /\ w.row.end \in Times
  BY Known, Dates, BillingAssumption
<1>2. plan \in PaidPlans /\ end \in Times /\ end \in {NoTime, w.row.end}
  BY <1>1 DEF PaidPlans
<1>3. w.row.pendingInterval \in Intervals \cup {"none"}
  BY <1>1 DEF Rows
<1>4. p \in PaidPlans \cup {"basic"} /\ (Over(w) => p = plan)
  BY <1>2, UnlessTrial
<1>5. [NoPending(w.row) EXCEPT
              !.status = "active", !.plan = plan,
              !.end = IF w.row.end <= w.row.trialEnd THEN NoTime ELSE @,
              !.pendingInterval = w.row.pendingInterval] = r
  BY <1>1, Settles
<1>6. StartDeferred(w, now) = [w EXCEPT !.plan = p, !.row = r]
  BY <1>5 DEF StartDeferred
<1> HIDE DEF plan, p, end
<1>7. /\ r \in Rows /\ r.status = "active" /\ r.plan = plan /\ ~r.cancel
      /\ r.pendingPlan = "none" /\ r.pendingAt = NoTime /\ r.end = end
  <2> DEFINE q == NoPending(w.row)
  <2>1. /\ q \in Rows /\ ~q.cancel
        /\ q.pendingPlan = "none" /\ q.pendingAt = NoTime
    BY <1>1, Settles
  <2> HIDE DEF q
  <2>2. QED
    BY <1>2, <1>3, <2>1 DEF Rows, Live, q
<1> HIDE DEF r
<1>8. RowDated(r, w.trial.ends)
  BY <1>1, <1>2, <1>7 DEF RowDated, Live
<1>9. Over(w) => Agree(p, r)
  BY <1>4, <1>7 DEF Agree, Paying
<1>10. QED
  BY <1>4, <1>6, <1>7, <1>8, <1>9, NewPlanAndRow

(* A scheduled change that names the plan of the row finds the workspace   *)
(* on it: a deferred start whose change would be due first is over itself. *)
LEMMA StartScheduledKept ==
  ASSUME NEW w, Sound(w), NEW now \in Nat,
         ~TrialOver(w.row, now), PendingOver(w.row, now), ~w.row.cancel,
         w.row.pendingPlan \notin {"none", "basic"}
  PROVE  Kept(StartScheduled(w), w)
<1> DEFINE interval == IF w.row.pendingInterval = "none" THEN w.row.interval
                       ELSE w.row.pendingInterval
           p == IF w.row.pendingPlan = w.row.plan THEN w.plan ELSE w.row.pendingPlan
           r == [NoPending(w.row) EXCEPT
                   !.status = "active", !.plan = w.row.pendingPlan,
                   !.interval = interval]
<1>1. w \in Workspaces /\ w.row \in Rows /\ RowDated(w.row, w.trial.ends)
      /\ w.trial.ends \in Nat /\ w.row.pendingAt \in Nat
      /\ w.plan \in PaidPlans \cup {"basic"}
  BY Known, Dates
<1>2. w.row.pendingPlan \in PaidPlans
  BY <1>1 DEF Rows
<1>3. interval \in Intervals \cup {"none"} /\ p \in PaidPlans \cup {"basic"}
  BY <1>1, <1>2 DEF Rows
<1>4. w.row.status \in Live
  BY <1>1, <1>2 DEF RowDated, PaidPlans
<1>5. w.row.status # "trialing"
  BY <1>1 DEF RowDated, TrialOver, PendingOver
<1>6. Agree(w.plan, w.row) => p = w.row.pendingPlan
  BY <1>4, <1>5 DEF Agree, Live, Paying
<1>7. [NoPending(w.row) EXCEPT
              !.status = "active", !.plan = w.row.pendingPlan,
              !.interval = IF w.row.pendingInterval = "none" THEN @
                           ELSE w.row.pendingInterval] = r
  BY <1>1 DEF Rows, NoPending
<1>8. [w EXCEPT !.plan = IF w.row.pendingPlan = w.row.plan THEN @ ELSE w.row.pendingPlan,
                !.row = r] = [w EXCEPT !.plan = p, !.row = r]
  BY <1>1 DEF Workspaces
<1>9. StartScheduled(w) = [w EXCEPT !.plan = p, !.row = r]
  BY <1>7, <1>8 DEF StartScheduled
<1> HIDE DEF p, interval
<1>10. /\ r \in Rows /\ r.status = "active" /\ r.plan = w.row.pendingPlan
       /\ ~r.cancel /\ r.pendingPlan = "none" /\ r.pendingAt = NoTime
       /\ r.end = w.row.end
  <2> DEFINE q == NoPending(w.row)
  <2>1. /\ q \in Rows /\ ~q.cancel /\ q.end = w.row.end
        /\ q.pendingPlan = "none" /\ q.pendingAt = NoTime
    BY <1>1, Settles
  <2> HIDE DEF q
  <2>2. QED
    BY <1>2, <1>3, <2>1 DEF Rows, Live, q
<1> HIDE DEF r
<1>11. RowDated(r, w.trial.ends)
  BY <1>1, <1>2, <1>10 DEF RowDated, Live
<1>12. Agree(w.plan, w.row) => Agree(p, r)
  BY <1>6, <1>10 DEF Agree, Paying
<1>13. QED
  BY ZenonT(60), <1>3, <1>9, <1>10, <1>11, <1>12, NewPlanAndRow

LEMMA DueKept ==
  ASSUME NEW w, Sound(w), NEW now \in Nat
  PROVE  Kept(ApplyDueTransitions(w, now), w)
<1>1. TrialOver(w.row, now) => w.row.status = "trialing"
  BY DEF TrialOver
<1>2. QED
  BY <1>1, FinalizeKept, StartDeferredKept, StartScheduledKept, KeptSame
     DEF ApplyDueTransitions

(* The end of the free week settles the plan for good.                     *)
LEMMA ExpiryKept ==
  ASSUME NEW w, Sound(w), NEW now
  PROVE  LET x == ExpireDueTrial(w, now) IN
         /\ Sound(x) /\ (Follows(w) => Follows(x))
         /\ x.trial.ends = w.trial.ends
         /\ x.trial.expired => w.trial.expired \/ ~(now < w.trial.ends)
<1> DEFINE x(p) == [w EXCEPT !.plan = p, !.trial.expired = TRUE]
           paid == w.row.status \in Paying /\ w.row.plan \in PaidPlans
           deferred == w.row.status = "trialing" /\ w.row.plan \in PaidPlans
<1>1. w \in Workspaces /\ w.row \in Rows /\ RowDated(w.row, w.trial.ends)
  BY Known
<1>2. ASSUME NEW p \in PaidPlans \cup {"basic"}
      PROVE  /\ x(p) \in Workspaces /\ x(p).row = w.row /\ x(p).plan = p
             /\ x(p).trial.ends = w.trial.ends
  BY <1>1, <1>2 DEF Workspaces
<1>3. ExpireDueTrial(w, now) =
        IF w.trial.ends = NoTime \/ now < w.trial.ends THEN w
        ELSE IF paid THEN x(w.row.plan) ELSE IF deferred THEN w ELSE x("basic")
  BY DEF ExpireDueTrial
<1>4. ASSUME NEW p \in PaidPlans \cup {"basic"}, Agree(p, w.row)
      PROVE  Sound(x(p)) /\ Follows(x(p))
  <2>1. x(p) \in Workspaces /\ x(p).row = w.row /\ x(p).plan = p
        /\ x(p).trial.ends = w.trial.ends
    BY <1>2
  <2> HIDE DEF x
  <2>2. QED
    BY <1>1, <1>4, <2>1 DEF Sound, Follows
<1>5. ASSUME paid PROVE Agree(w.row.plan, w.row)
  BY <1>5 DEF Agree, Paying
<1>6. ASSUME ~paid, ~deferred PROVE Agree("basic", w.row)
  BY <1>1, <1>6 DEF Agree, RowDated, Paying, Live
<1>7. CASE w.trial.ends = NoTime
  BY <1>3, <1>7
<1>8. CASE w.trial.ends # NoTime
  <2>1. CASE paid
    <3>1. w.row.plan \in PaidPlans \cup {"basic"}
      BY <2>1
    <3>2. Sound(x(w.row.plan)) /\ Follows(x(w.row.plan))
          /\ x(w.row.plan).trial.ends = w.trial.ends
      BY <1>2, <1>4, <1>5, <2>1, <3>1
    <3> HIDE DEF x, paid, deferred
    <3>3. QED
      BY <1>3, <1>8, <2>1, <3>2
  <2>2. CASE ~paid /\ ~deferred
    <3>1. Sound(x("basic")) /\ Follows(x("basic"))
          /\ x("basic").trial.ends = w.trial.ends
      BY <1>2, <1>4, <1>6, <2>2
    <3> HIDE DEF x, paid, deferred
    <3>2. QED
      BY <1>3, <1>8, <2>2, <3>1
  <2>3. CASE ~paid /\ deferred
    <3> HIDE DEF x, paid, deferred
    <3>1. QED
      BY <1>3, <1>8, <2>3
  <2>4. QED
    BY <2>1, <2>2, <2>3
<1>9. QED
  BY <1>7, <1>8
-----------------------------------------------------------------------------
(* The reconciliation: each step starts from what the one before left.     *)
LEMMA SameTrial ==
  ASSUME NEW w, NEW x, Kept(x, w)
  PROVE  Sound(x) /\ Answers(x.trial.ends) = Answers(w.trial.ends)
BY DEF Kept

LEMMA ThenKept ==
  ASSUME NEW w, NEW x, Kept(x, w), NEW outcomes, AllKept(outcomes, x)
  PROVE  AllKept(outcomes, w)
BY KeptAgain DEF AllKept

LEMMA CancelTooKept ==
  ASSUME NEW w, Sound(w), NEW s, NEW when \in Times
  PROVE  AllKept(CancelToo(w, s, when), w)
BY CancellationKept, KeptSame DEF CancelToo, AllKept

LEMMA EndedKept ==
  ASSUME NEW w, Sound(w), NEW s \in Answers(w.trial.ends), NEW now
  PROVE  AllKept(ReconcileEnded(w, s, now), w)
<1>1. s.end \in Times
  BY Known, Answered
<1>2. QED
  BY <1>1, CancellationKept, FinalizeKept DEF ReconcileEnded, AllKept

LEMMA ReconcileDeferredKept ==
  ASSUME NEW w, Sound(w), NEW s \in Answers(w.trial.ends), s.status = "trialing"
  PROVE  AllKept(ReconcileDeferred(w, s), w)
<1>1. s.trialEnd \in Times
  BY Known, Answered
<1>2. SUFFICES ASSUME NEW d \in RecordDeferredStart(w, s),
                      NEW y \in CancelToo(d, s, s.trialEnd)
               PROVE  Kept(y, w)
  BY DEF ReconcileDeferred, AllKept
<1>3. Kept(d, w)
  BY DeferredKept DEF AllKept
<1>4. Kept(y, d)
  BY <1>1, <1>3, CancelTooKept, SameTrial DEF AllKept
<1>5. QED
  BY <1>3, <1>4, KeptAgain

LEMMA PeriodKept ==
  ASSUME NEW w, Sound(w), NEW s \in Answers(w.trial.ends)
  PROVE  Kept(PeriodOnly(w, s), w)
<1> DEFINE r == [w.row EXCEPT !.end = s.end]
<1>1. w \in Workspaces /\ w.row \in Rows /\ RowDated(w.row, w.trial.ends)
      /\ s.end \in Times /\ s.end >= w.trial.ends
  BY Known, Answered
<1>2. /\ r \in Rows /\ r.status = w.row.status /\ r.plan = w.row.plan
      /\ r.cancel = w.row.cancel /\ r.pendingPlan = w.row.pendingPlan
      /\ r.pendingAt = w.row.pendingAt /\ r.end = s.end
      /\ r.trialEnd = w.row.trialEnd
  BY <1>1 DEF Rows
<1>3. PeriodOnly(w, s) = [w EXCEPT !.row = r]
  BY <1>1 DEF Workspaces, Rows, PeriodOnly
<1> HIDE DEF r
<1>4. RowDated(r, w.trial.ends)
  BY <1>1, <1>2 DEF RowDated
<1>5. QED
  BY <1>2, <1>3, <1>4, NewPending

(* A downgrade found at Stripe sets the plan before it activates: between  *)
(* the two the plan may not follow the row.                                *)
LEMMA PlanSetFirst ==
  ASSUME NEW w, Sound(w)
  PROVE  LET x == [w EXCEPT !.plan = "plus"] IN
         Sound(x) /\ x.trial = w.trial /\ x.plan = "plus"
<1> DEFINE x == [w EXCEPT !.plan = "plus"]
<1>1. w \in Workspaces /\ RowDated(w.row, w.trial.ends)
  BY Known
<1>2. x \in Workspaces /\ x.row = w.row /\ x.trial = w.trial /\ x.plan = "plus"
  BY <1>1 DEF Workspaces, PaidPlans
<1> HIDE DEF x
<1>3. Sound(x) /\ x.trial = w.trial /\ x.plan = "plus"
  BY <1>1, <1>2 DEF Sound
<1>4. QED
  BY <1>3 DEF x

LEMMA ReconcileActiveKept ==
  ASSUME NEW w, Sound(w), NEW s \in Answers(w.trial.ends), NEW now
  PROVE  AllKept(ReconcileActive(w, s, now), w)
<1> DEFINE x == [w EXCEPT !.plan = "plus"]
<1>1. s.end \in Times
  BY Known, Answered
<1>2. AllKept(CancelToo(PeriodOnly(w, s), s, s.end), w)
  BY <1>1, PeriodKept, SameTrial, CancelTooKept, ThenKept
<1>3. AllKept({ActivatePaid(x, s, now)}, w)
  <2>1. Sound(x) /\ x.trial = w.trial
    BY PlanSetFirst
  <2> HIDE DEF x
  <2>2. Kept(ActivatePaid(x, s, now), x) /\ Follows(ActivatePaid(x, s, now))
    BY <2>1, ActivatedKept
  <2>3. QED
    BY <2>1, <2>2 DEF Kept, AllKept
<1>4. AllKept(ApplyUpgrade(w, s), w)
  BY UpgradeKept
<1>5. AllKept(CancelToo(ActivatePaid(w, s, now), s, s.end), w)
  BY <1>1, ActivatedKept, SameTrial, CancelTooKept, ThenKept
<1>6. AllKept({w}, w)
  BY KeptSame DEF AllKept
<1>7. ReconcileActive(w, s, now) \in
        {CancelToo(PeriodOnly(w, s), s, s.end), {w}, {ActivatePaid(x, s, now)},
         ApplyUpgrade(w, s), CancelToo(ActivatePaid(w, s, now), s, s.end)}
  BY DEF ReconcileActive
<1>8. QED
  BY <1>2, <1>3, <1>4, <1>5, <1>6, <1>7

LEMMA ReconcileKept ==
  ASSUME NEW w, Sound(w), NEW s \in Answers(w.trial.ends), NEW now \in Nat
  PROVE  AllKept(Reconcile(w, s, now), w)
<1> DEFINE known == WithIds(w, s)
           recovered == MarkPaymentRecovered(known)
<1>1. Kept(known, w)
  BY WithIdsKept
<1>2. Sound(known) /\ s \in Answers(known.trial.ends)
  BY <1>1, SameTrial
<1> HIDE DEF known
<1>3. Kept(recovered, known) /\ Kept(recovered, w)
  BY <1>1, <1>2, RecoveredKept, KeptAgain
<1>4. Sound(recovered) /\ s \in Answers(recovered.trial.ends)
  BY <1>2, <1>3, SameTrial
<1> HIDE DEF recovered
<1>5. CASE s.status = "canceled"
  BY <1>1, <1>2, <1>5, EndedKept, ThenKept DEF Reconcile, known
<1>6. CASE s.status = "past_due"
  BY <1>1, <1>2, <1>6, FailureKept, ThenKept DEF Reconcile, known
<1>7. CASE s.status = "trialing"
  BY <1>3, <1>4, <1>7, ReconcileDeferredKept, ThenKept DEF Reconcile, known, recovered
<1>8. CASE s.status \notin {"canceled", "past_due", "trialing"}
  BY <1>3, <1>4, <1>8, ReconcileActiveKept, ThenKept DEF Reconcile, known, recovered
<1>9. QED
  BY <1>5, <1>6, <1>7, <1>8

(* Cut in half, it is only the plan set first that may not follow.         *)
LEMMA InPartKept ==
  ASSUME NEW w, Sound(w), NEW s \in Answers(w.trial.ends),
         NEW x \in ReconciledInPart(w, s)
  PROVE  /\ Sound(x) /\ x.trial = w.trial
         /\ x.plan = w.plan => Kept(x, w)
<1> DEFINE known == WithIds(w, s)
           recovered == IF s.status \in {"trialing", "active"}
                        THEN MarkPaymentRecovered(known) ELSE known
           downgraded == [recovered EXCEPT !.plan = "plus"]
<1>1. Kept(known, w)
  BY WithIdsKept
<1>2. Kept(recovered, w)
  BY <1>1, RecoveredKept, KeptAgain, SameTrial
<1>3. Sound(downgraded) /\ downgraded.trial = w.trial /\ downgraded.plan = "plus"
  <2>1. Sound(recovered) /\ recovered.trial = w.trial
    BY <1>2 DEF Kept
  <2> HIDE DEF recovered
  <2>2. QED
    BY <2>1, PlanSetFirst
<1>4. x \in {w, known, recovered} \/ (x = downgraded /\ w.plan = "business")
  BY DEF ReconciledInPart
<1> HIDE DEF known, recovered, downgraded
<1>5. QED
  BY <1>1, <1>2, <1>3, <1>4, KeptSame DEF Kept
-----------------------------------------------------------------------------
(* What becomes of a row that has ended.                                   *)
EndedRow(row, end) ==
  \/ row.status \notin Live
  \/ row.cancel /\ row.pendingAt = end /\ end # NoTime

LEMMA ScheduledRow ==
  ASSUME NEW w, Sound(w), NEW when \in Nat \ {NoTime}, NEW x \in ScheduleCancellation(w, when)
  PROVE  x.row.cancel /\ x.row.pendingAt = when /\ x.plan = w.plan
         /\ x.row.status = w.row.status
<1>1. w \in Workspaces /\ w.row \in Rows
  BY Known
<1>2. x = [w EXCEPT !.row.cancel = TRUE, !.row.pendingPlan = "basic",
                    !.row.pendingAt = when]
  BY DEF ScheduleCancellation
<1>3. QED
  BY <1>1, <1>2 DEF Workspaces, Rows

LEMMA FinalRow ==
  ASSUME NEW w, Sound(w), NEW now
  PROVE  FinalizeSubscriptionEnd(w, now).row.status \notin Live
BY Known DEF FinalizeSubscriptionEnd, Workspaces, Rows, NoPending, Live

(* The last answer ends the row, now or at the end of the period.          *)
LEMMA ReconcileEnds ==
  ASSUME NEW w, Sound(w), NEW s \in Answers(w.trial.ends), s.status = "canceled",
         NEW now \in Nat, NEW x \in Reconcile(w, s, now)
  PROVE  EndedRow(x.row, s.end)
<1>1. Sound(WithIds(w, s))
  BY WithIdsKept DEF Kept
<1>2. x \in ReconcileEnded(WithIds(w, s), s, now)
  BY DEF Reconcile
<1>3. s.end \in Nat
  BY Answered, Known
<1>4. CASE s.cancel /\ s.end > now
  <2>1. s.end \in Nat \ {NoTime}
    BY <1>3, <1>4 DEF NoTime
  <2>2. QED
    BY <1>1, <1>2, <1>4, <2>1, ScheduledRow DEF ReconcileEnded, EndedRow
<1>5. CASE ~(s.cancel /\ s.end > now)
  BY <1>1, <1>2, <1>5, FinalRow DEF ReconcileEnded, EndedRow
<1>6. QED
  BY <1>4, <1>5

(* No date that passes revives it.                                         *)
LEMMA DueStaysEnded ==
  ASSUME NEW w, Sound(w), NEW now, NEW end, EndedRow(w.row, end)
  PROVE  EndedRow(ApplyDueTransitions(w, now).row, end)
<1>1. RowDated(w.row, w.trial.ends)
  BY Known
<1>2. \/ ApplyDueTransitions(w, now) = FinalizeSubscriptionEnd(w, now)
      \/ ApplyDueTransitions(w, now) = w
  BY <1>1 DEF ApplyDueTransitions, EndedRow, RowDated, GraceOver, TrialOver, PendingOver, Live
<1>3. QED
  BY <1>2, FinalRow DEF EndedRow

(* No date brings a row back that is over.                                 *)
LEMMA DueAlive ==
  ASSUME NEW w, Sound(w), NEW now, w.row.status \notin Live
  PROVE  ApplyDueTransitions(w, now).row.status \notin Live
<1>1. RowDated(w.row, w.trial.ends)
  BY Known
<1>2. \/ ApplyDueTransitions(w, now) = FinalizeSubscriptionEnd(w, now)
      \/ ApplyDueTransitions(w, now) = w
  BY <1>1 DEF ApplyDueTransitions, RowDated, GraceOver, TrialOver, PendingOver, Live
<1>3. QED
  BY <1>2, FinalRow
-----------------------------------------------------------------------------
(* A past due row knows the end of its grace.                              *)
Graced(w) == w.row.status = "past_due" => w.row.grace # NoTime

(* The end of a paid row is due, by the grace or by a cancellation.        *)
EndDue(r, now) ==
  \/ r.status = "past_due" /\ now >= r.grace
  \/ r.cancel /\ now >= r.pendingAt

LEMMA FailureGrace ==
  ASSUME NEW w, Sound(w), NEW now \in Nat, NEW x \in MarkPaymentFailure(w, now)
  PROVE  /\ x.row.status = "past_due" /\ x.row.sub = w.row.sub
         /\ Graced(w) => Graced(x) /\ (w.row.status = "past_due" => x = w)
<1>1. w \in Workspaces /\ w.row \in Rows
  BY Known
<1>2. now + Grace \in Nat \ {NoTime}
  BY BillingAssumption DEF NoTime
<1>3. x = w \/ x = [w EXCEPT !.row.status = "past_due", !.row.grace = now + Grace]
  BY DEF MarkPaymentFailure
<1>4. CASE w.row.status = "past_due" /\ w.row.grace # NoTime
  BY <1>4 DEF MarkPaymentFailure, Graced
<1>5. CASE ~(w.row.status = "past_due" /\ w.row.grace # NoTime)
  <2>1. x = [w EXCEPT !.row.status = "past_due", !.row.grace = now + Grace]
    BY <1>5 DEF MarkPaymentFailure
  <2>2. x.row.status = "past_due" /\ x.row.sub = w.row.sub /\ x.row.grace = now + Grace
    BY <1>1, <2>1 DEF Workspaces, Rows
  <2>3. QED
    BY <1>2, <1>5, <2>2 DEF Graced
<1>6. QED
  BY <1>4, <1>5

(* What the dates do to a row: they end it, start it, or leave it alone.   *)
LEMMA DueRow ==
  ASSUME NEW w, Sound(w), NEW now \in Nat, NEW x, x = ApplyDueTransitions(w, now)
  PROVE  /\ x.row.sub = w.row.sub
         /\ x.row.status = "past_due" => x = w
         /\ x.row.status = "canceled" /\ w.row.status \in Paying => EndDue(w.row, now)
<1>1. w \in Workspaces /\ w.row \in Rows /\ w.trial.ends \in Nat
  BY Known
<1>2. ASSUME x = FinalizeSubscriptionEnd(w, now)
      PROVE  x.row.sub = w.row.sub /\ x.row.status \notin Live
  BY <1>1, <1>2, FinalRow DEF FinalizeSubscriptionEnd, Workspaces, Rows, NoPending
<1>3. ASSUME x = StartDeferred(w, now)
      PROVE  x.row.sub = w.row.sub /\ x.row.status = "active"
  <2> DEFINE r == [NoPending(w.row) EXCEPT
               !.status = "active",
               !.plan = IF w.row.plan \in PaidPlans THEN w.row.plan ELSE "business",
               !.end = IF w.row.end <= w.row.trialEnd THEN NoTime ELSE @,
               !.pendingInterval = w.row.pendingInterval]
  <2>1. x.row = r
    BY <1>1, <1>3 DEF StartDeferred, Workspaces
  <2>2. r.sub = w.row.sub /\ r.status = "active"
    BY <1>1 DEF NoPending, Rows
  <2>3. QED
    BY <2>1, <2>2
<1>4. ASSUME x = StartScheduled(w)
      PROVE  x.row.sub = w.row.sub /\ x.row.status = "active"
  <2> DEFINE r == [NoPending(w.row) EXCEPT
               !.status = "active", !.plan = w.row.pendingPlan,
               !.interval = IF w.row.pendingInterval = "none" THEN @
                            ELSE w.row.pendingInterval]
  <2>1. x.row = r
    BY <1>1, <1>4 DEF StartScheduled, Workspaces
  <2>2. r.sub = w.row.sub /\ r.status = "active"
    BY <1>1 DEF NoPending, Rows
  <2>3. QED
    BY <2>1, <2>2
<1>5. \/ x = FinalizeSubscriptionEnd(w, now)
         /\ \/ GraceOver(w.row, now) \/ TrialOver(w.row, now)
            \/ w.row.cancel /\ PendingOver(w.row, now)
      \/ x = StartDeferred(w, now) \/ x = StartScheduled(w) \/ x = w
  BY DEF ApplyDueTransitions
<1>6. QED
  BY <1>2, <1>3, <1>4, <1>5 DEF EndDue, GraceOver, TrialOver, PendingOver, Paying, Live

LEMMA CancellationRow ==
  ASSUME NEW w, Sound(w), NEW when, NEW x \in ScheduleCancellation(w, when)
  PROVE  /\ x.row.status = w.row.status /\ x.row.sub = w.row.sub
         /\ x.row.plan = w.row.plan /\ x.row.grace = w.row.grace
         /\ x.plan = w.plan /\ x.trial = w.trial
         /\ x.row.cancel /\ x.row.pendingPlan = "basic"
         /\ x.row.pendingAt = IF when = NoTime THEN AccessEnd(w.row) ELSE when
<1> DEFINE at == IF when = NoTime THEN AccessEnd(w.row) ELSE when
<1>1. w \in Workspaces /\ w.row \in Rows
  BY Known
<1>2. x = [w EXCEPT !.row.cancel = TRUE, !.row.pendingPlan = "basic", !.row.pendingAt = at]
  BY DEF ScheduleCancellation
<1> HIDE DEF at
<1>3. /\ x.row.cancel /\ x.row.pendingPlan = "basic" /\ x.row.pendingAt = at
      /\ x.row.status = w.row.status /\ x.row.sub = w.row.sub
      /\ x.row.plan = w.row.plan /\ x.row.grace = w.row.grace
      /\ x.plan = w.plan /\ x.trial = w.trial
  BY <1>1, <1>2 DEF Workspaces, Rows
<1>4. QED
  BY <1>3 DEF at

(* A cancellation found at Stripe is taken over with its date.             *)
LEMMA TakenOver ==
  ASSUME NEW w, Sound(w), NEW s, NEW when, NEW x \in CancelToo(w, s, when)
  PROVE  /\ x.row.status = w.row.status /\ x.row.sub = w.row.sub
         /\ x.row.plan = w.row.plan /\ x.row.grace = w.row.grace
         /\ x.plan = w.plan /\ x.trial = w.trial
         /\ ~s.cancel => x = w
         /\ s.cancel => /\ x.row.cancel /\ x.row.pendingPlan = "basic"
                        /\ x.row.pendingAt = IF when = NoTime THEN AccessEnd(w.row) ELSE when
BY CancellationRow DEF CancelToo

LEMMA ActivatedRow ==
  ASSUME NEW w, Sound(w), NEW s, NEW now, NEW x, x = ActivatePaid(w, s, now), w.row.sub = s.sub
  PROVE  /\ x.row.status = "active" /\ x.row.sub = s.sub /\ x.row.plan = s.plan
         /\ x.row.end = s.end /\ ~x.row.cancel /\ x.row.pendingPlan = "none"
<1>1. w \in Workspaces /\ w.row \in Rows
  BY Known
<1> DEFINE same == /\ w.row.status = "active"
                   /\ <<w.row.plan, w.row.interval>> = <<s.plan, s.interval>>
                   /\ w.plan = s.plan
                   /\ w.row.end = s.end
                   /\ ~w.row.cancel
                   /\ w.row.pendingPlan = "none"
<1>2. CASE same
  BY <1>2 DEF ActivatePaid
<1>3. CASE ~same
  <2> DEFINE r == [NoPending(w.row) EXCEPT
                   !.status = "active", !.plan = s.plan,
                   !.interval = s.interval, !.end = s.end,
                   !.grace = NoTime, !.sub = s.sub, !.source = "stripe"]
  <2>1. x.row = r
    BY <1>1, <1>3 DEF ActivatePaid, Workspaces
  <2>2. /\ r.status = "active" /\ r.sub = s.sub /\ r.plan = s.plan
        /\ r.end = s.end /\ ~r.cancel /\ r.pendingPlan = "none"
    BY <1>1 DEF NoPending, Rows
  <2>3. QED
    BY <2>1, <2>2
<1>4. QED
  BY <1>2, <1>3

LEMMA UpgradedRow ==
  ASSUME NEW w, Sound(w), NEW s, NEW x \in ApplyUpgrade(w, s),
         w.row.sub = s.sub, w.plan # s.plan
  PROVE  /\ x.row.status = "active" /\ x.row.sub = s.sub /\ x.row.plan = s.plan
         /\ x.row.end = s.end /\ ~x.row.cancel /\ x.row.pendingPlan = "none"
<1> DEFINE r == [NoPending(w.row) EXCEPT
                    !.status = "active", !.plan = s.plan, !.end = s.end,
                    !.grace = NoTime, !.sub = s.sub]
<1>1. w \in Workspaces /\ w.row \in Rows
  BY Known
<1>2. x.row = r
  BY <1>1 DEF ApplyUpgrade, Workspaces
<1>3. /\ r.status = "active" /\ r.sub = s.sub /\ r.plan = s.plan
      /\ r.end = s.end /\ ~r.cancel /\ r.pendingPlan = "none"
  BY <1>1 DEF NoPending, Rows
<1>4. QED
  BY <1>2, <1>3

LEMMA PeriodRow ==
  ASSUME NEW w, Sound(w), NEW s
  PROVE  LET x == PeriodOnly(w, s) IN
         /\ x.plan = w.plan
         /\ x.row.end = s.end /\ x.row.status = w.row.status /\ x.row.sub = w.row.sub
         /\ x.row.plan = w.row.plan /\ x.row.cancel = w.row.cancel
         /\ x.row.pendingPlan = w.row.pendingPlan /\ x.row.pendingAt = w.row.pendingAt
         /\ x.row.grace = w.row.grace
BY Known DEF PeriodOnly, Workspaces, Rows

LEMMA ActiveRow ==
  ASSUME NEW w, Sound(w), NEW s \in Answers(w.trial.ends), NEW now \in Nat,
         w.row.status # "past_due", w.row.sub = s.sub,
         NEW x \in ReconcileActive(w, s, now)
  PROVE  /\ x.row.sub = s.sub /\ x.row.status # "past_due"
         /\ w.row.status = "active" =>
              x.row.status = "active" /\ (x.row.cancel => s.cancel /\ x.row.pendingAt = s.end)
<1> DEFINE p == [w EXCEPT !.plan = "plus"]
           To(y) == /\ y.row.sub = s.sub /\ y.row.status # "past_due"
                    /\ w.row.status = "active" =>
                         /\ y.row.status = "active"
                         /\ y.row.cancel => s.cancel /\ y.row.pendingAt = s.end
<1>1. \/ x \in CancelToo(PeriodOnly(w, s), s, s.end) /\ ~w.row.cancel
      \/ x = w /\ ~w.row.cancel
      \/ x = ActivatePaid(p, s, now)
      \/ x \in ApplyUpgrade(w, s) /\ w.plan # s.plan
      \/ x \in CancelToo(ActivatePaid(w, s, now), s, s.end)
  BY DEF ReconcileActive, ScheduledChangePending
<1>2. ASSUME NEW y, Sound(y), y.row.end = s.end, ~y.row.cancel, To(y),
             x \in CancelToo(y, s, s.end)
      PROVE  To(x)
  <2>1. /\ x.row.status = y.row.status /\ x.row.sub = y.row.sub
        /\ ~s.cancel => x = y
        /\ s.cancel => x.row.pendingAt = IF s.end = NoTime THEN AccessEnd(y.row) ELSE s.end
    BY <1>2, TakenOver
  <2>2. QED
    BY <1>2, <2>1 DEF AccessEnd
<1>3. CASE x \in CancelToo(PeriodOnly(w, s), s, s.end) /\ ~w.row.cancel
  <2> DEFINE y == PeriodOnly(w, s)
  <2>1. Sound(y)
    BY PeriodKept DEF Kept
  <2>2. /\ y.row.end = s.end /\ y.row.status = w.row.status /\ y.row.sub = w.row.sub
        /\ y.row.cancel = w.row.cancel
    BY PeriodRow
  <2> HIDE DEF y
  <2>3. To(y) /\ ~y.row.cancel
    BY <1>3, <2>2
  <2>4. To(x)
    BY <1>2, <1>3, <2>1, <2>2, <2>3 DEF y
  <2>5. QED
    BY <2>4
<1>4. CASE x = w /\ ~w.row.cancel
  BY <1>4
<1>5. ASSUME NEW q \in {w, p}, NEW y, y = ActivatePaid(q, s, now)
      PROVE  Sound(y) /\ y.row.end = s.end /\ ~y.row.cancel /\ To(y)
  <2>1. Sound(q) /\ q.row.sub = s.sub /\ q.trial = w.trial
    BY PlanSetFirst, Known DEF Workspaces
  <2>2. Sound(y)
    BY <1>5, <2>1, ActivatedKept DEF Kept
  <2>3. QED
    BY <1>5, <2>1, <2>2, ActivatedRow
<1>6. CASE x = ActivatePaid(p, s, now)
  <2>1. To(x)
    BY <1>5, <1>6
  <2>2. QED
    BY <2>1
<1>7. CASE x \in ApplyUpgrade(w, s) /\ w.plan # s.plan
  BY <1>7, UpgradedRow
<1>8. CASE x \in CancelToo(ActivatePaid(w, s, now), s, s.end)
  <2> DEFINE y == ActivatePaid(w, s, now)
  <2>1. Sound(y) /\ y.row.end = s.end /\ ~y.row.cancel /\ To(y)
    BY <1>5
  <2> HIDE DEF y
  <2>2. To(x)
    BY <1>2, <1>8, <2>1 DEF y
  <2>3. QED
    BY <2>2
<1>9. QED
  BY <1>1, <1>3, <1>4, <1>6, <1>7, <1>8

LEMMA DeferredRow ==
  ASSUME NEW w, Sound(w), NEW s, w.row.sub = s.sub, NEW x \in ReconcileDeferred(w, s),
         s \in Answers(w.trial.ends), s.status = "trialing"
  PROVE  /\ x.row.sub = s.sub /\ x.row.status = "trialing"
         /\ w.row.status \notin Paying
<1>1. PICK d \in RecordDeferredStart(w, s) : x \in CancelToo(d, s, s.trialEnd)
  BY DEF ReconcileDeferred
<1>2. w \in Workspaces /\ w.row \in Rows
  BY Known
<1>3. Sound(d)
  BY DeferredKept DEF AllKept, Kept
<1> DEFINE r == [NoPending(w.row) EXCEPT
           !.status = "trialing", !.plan = s.plan, !.interval = s.interval,
           !.end = s.trialEnd, !.trialEnd = s.trialEnd, !.grace = NoTime,
           !.sub = s.sub, !.source = "stripe"]
<1>4. r.sub = s.sub /\ r.status = "trialing"
  BY <1>2 DEF NoPending, Rows
<1>5. \/ /\ d = [w EXCEPT !.row.sub = s.sub, !.row.source = "stripe"]
         /\ w.row.status = "trialing"
      \/ d = [w EXCEPT !.row = r] /\ w.row.status \notin Paying
  BY DEF RecordDeferredStart
<1> HIDE DEF r
<1>6. d.row.sub = s.sub /\ d.row.status = "trialing" /\ w.row.status \notin Paying
  <2>1. CASE /\ d = [w EXCEPT !.row.sub = s.sub, !.row.source = "stripe"]
             /\ w.row.status = "trialing"
    BY <1>2, <2>1 DEF Workspaces, Rows, Paying
  <2>2. CASE d = [w EXCEPT !.row = r] /\ w.row.status \notin Paying
    BY <1>2, <1>4, <2>2 DEF Workspaces
  <2>3. QED
    BY <1>5, <2>1, <2>2
<1>7. QED
  BY <1>1, <1>3, <1>6, TakenOver

LEMMA IdsRow ==
  ASSUME NEW w, Sound(w), NEW s, NEW x, x = WithIds(w, s)
  PROVE  /\ x.plan = w.plan /\ x.trial = w.trial
         /\ x.row.sub = s.sub /\ x.row.status = w.row.status /\ x.row.plan = w.row.plan
         /\ x.row.cancel = w.row.cancel /\ x.row.pendingPlan = w.row.pendingPlan
         /\ x.row.pendingAt = w.row.pendingAt /\ x.row.grace = w.row.grace
<1> DEFINE r == [w.row EXCEPT !.source = "stripe", !.sub = s.sub]
<1>1. w \in Workspaces /\ w.row \in Rows
  BY Known
<1>2. x.row = r /\ x.plan = w.plan /\ x.trial = w.trial
  BY <1>1 DEF WithIds, Workspaces, Rows
<1>3. /\ r.sub = s.sub /\ r.status = w.row.status /\ r.plan = w.row.plan
      /\ r.cancel = w.row.cancel /\ r.pendingPlan = w.row.pendingPlan
      /\ r.pendingAt = w.row.pendingAt /\ r.grace = w.row.grace
  BY <1>1 DEF Rows
<1>4. QED
  BY <1>2, <1>3

LEMMA RecoveredRow ==
  ASSUME NEW w, Sound(w)
  PROVE  LET x == MarkPaymentRecovered(w) IN
         /\ x.row.status = IF w.row.status = "past_due" THEN "active" ELSE w.row.status
         /\ x.row.sub = w.row.sub /\ x.row.plan = w.row.plan /\ x.plan = w.plan
         /\ x.row.cancel = w.row.cancel /\ x.row.pendingPlan = w.row.pendingPlan
         /\ x.row.pendingAt = w.row.pendingAt
BY Known DEF MarkPaymentRecovered, Workspaces, Rows

(* What an answer of Stripe makes of a row: whatever it makes of a row     *)
(* that is past due, it is the answer that ends it.                        *)
LEMMA ReconcileRow ==
  ASSUME NEW w, Sound(w), Graced(w), NEW s \in Answers(w.trial.ends), NEW now \in Nat,
         NEW x \in Reconcile(w, s, now)
  PROVE  /\ x.row.sub = s.sub /\ Graced(x)
         /\ w.row.status = "past_due" /\ x.row.status = "past_due" =>
              x.row.grace = w.row.grace
         /\ w.row.status = "past_due" /\ s.status # "canceled" =>
              /\ x.row.status \in Paying
              /\ x.row.status = "past_due" => /\ x.row.cancel = w.row.cancel
                                              /\ x.row.pendingAt = w.row.pendingAt
              /\ x.row.status = "active" /\ x.row.cancel => s.cancel /\ x.row.pendingAt = s.end
<1> DEFINE known == WithIds(w, s)
           recovered == MarkPaymentRecovered(known)
<1>1. Sound(known) /\ s \in Answers(known.trial.ends)
  BY WithIdsKept, SameTrial
<1>2. /\ known.row.sub = s.sub /\ known.row.status = w.row.status
      /\ known.row.cancel = w.row.cancel /\ known.row.pendingAt = w.row.pendingAt
      /\ known.row.grace = w.row.grace
  <2>1. known = WithIds(w, s)
    OBVIOUS
  <2> HIDE DEF known
  <2>2. QED
    BY <2>1, IdsRow
<1>3. CASE s.status = "canceled"
  <2>1. \/ x \in ScheduleCancellation(known, s.end)
        \/ x = FinalizeSubscriptionEnd(known, now)
    BY <1>3 DEF Reconcile, ReconcileEnded
  <2> HIDE DEF known
  <2>2. CASE x = FinalizeSubscriptionEnd(known, now)
    <3>1. x.row.sub = s.sub
      BY <1>1, <1>2, <2>2, Known DEF FinalizeSubscriptionEnd, Workspaces, Rows, NoPending
    <3>2. QED
      BY <1>1, <1>3, <2>2, <3>1, FinalRow DEF Graced, Live
  <2>3. CASE x \in ScheduleCancellation(known, s.end)
    <3>1. /\ x.row.status = known.row.status /\ x.row.sub = known.row.sub
          /\ x.row.grace = known.row.grace
      BY <1>1, <2>3, CancellationRow
    <3>2. QED
      BY <1>2, <1>3, <3>1 DEF Graced
  <2>4. QED
    BY <2>1, <2>2, <2>3
<1>4. CASE s.status = "past_due"
  <2>1. x \in MarkPaymentFailure(known, now)
    BY <1>4 DEF Reconcile
  <2> HIDE DEF known
  <2>2. Graced(known)
    BY <1>2 DEF Graced
  <2>3. /\ x.row.status = "past_due" /\ x.row.sub = s.sub /\ Graced(x)
        /\ known.row.status = "past_due" => x = known
    BY <1>1, <1>2, <2>1, <2>2, FailureGrace
  <2>4. QED
    BY <1>2, <2>3 DEF Paying
<1> DEFINE Good == s.status \in {"trialing", "active"}
<1>5. s.status \notin {"canceled", "past_due"} => Good
  BY DEF Answers, Snapshots, Live
<1>6. Sound(recovered) /\ s \in Answers(recovered.trial.ends)
  BY <1>1, RecoveredKept, SameTrial
<1>7. /\ recovered.row.sub = s.sub
      /\ recovered.row.status = IF w.row.status = "past_due" THEN "active" ELSE w.row.status
  BY <1>1, <1>2, RecoveredRow
<1>8. CASE s.status = "trialing"
  <2>1. x \in ReconcileDeferred(recovered, s)
    BY <1>8 DEF Reconcile
  <2> HIDE DEF recovered
  <2>2. x.row.sub = s.sub /\ x.row.status = "trialing" /\ recovered.row.status \notin Paying
    BY <1>6, <1>7, <1>8, <2>1, DeferredRow
  <2>3. QED
    BY <1>7, <2>2 DEF Graced, Paying
<1>9. CASE s.status = "active"
  <2>1. x \in ReconcileActive(recovered, s, now)
    BY <1>9 DEF Reconcile
  <2> HIDE DEF recovered
  <2>2. /\ x.row.sub = s.sub /\ x.row.status # "past_due"
        /\ recovered.row.status = "active" =>
             x.row.status = "active" /\ (x.row.cancel => s.cancel /\ x.row.pendingAt = s.end)
    BY <1>6, <1>7, <2>1, ActiveRow
  <2>3. QED
    BY <1>7, <2>2 DEF Graced, Paying
<1>10. QED
  BY <1>3, <1>4, <1>5, <1>8, <1>9

LEMMA FinalSub ==
  ASSUME NEW w, Sound(w), NEW now
  PROVE  FinalizeSubscriptionEnd(w, now).row.sub = w.row.sub
BY Known DEF FinalizeSubscriptionEnd, Workspaces, Rows, NoPending

(* What the owner puts off or takes back leaves the rest of the row alone. *)
LEMMA PutOffRow ==
  ASSUME NEW w, Sound(w), NEW plan, NEW interval,
         NEW x \in ScheduleBillingChange(w, plan, interval)
                   \cup ClearPendingCancellation(w) \cup ClearPendingScheduledChange(w)
  PROVE  x.row.status = w.row.status /\ x.row.sub = w.row.sub /\ x.row.grace = w.row.grace
<1>1. w \in Workspaces /\ w.row \in Rows
  BY Known
<1> DEFINE Same(y) == y.row.status = w.row.status /\ y.row.sub = w.row.sub
                      /\ y.row.grace = w.row.grace
<1>2. Same([w EXCEPT !.row.pendingPlan = plan, !.row.pendingInterval = interval,
                     !.row.pendingAt = w.row.end])
  BY <1>1 DEF Workspaces, Rows
<1>3. Same([w EXCEPT !.row.cancel = FALSE, !.row.pendingPlan = "none",
                     !.row.pendingAt = NoTime])
  BY <1>1 DEF Workspaces, Rows
<1>4. Same([w EXCEPT !.row.cancel = FALSE])
  BY <1>1 DEF Workspaces, Rows
<1>5. Same([w EXCEPT !.row = NoPending(w.row)])
  BY <1>1 DEF Workspaces, Rows, NoPending
<1>6. \/ x = w
      \/ x = [w EXCEPT !.row.pendingPlan = plan, !.row.pendingInterval = interval,
                       !.row.pendingAt = w.row.end]
      \/ x = [w EXCEPT !.row.cancel = FALSE, !.row.pendingPlan = "none",
                       !.row.pendingAt = NoTime]
      \/ x = [w EXCEPT !.row.cancel = FALSE]
      \/ x = [w EXCEPT !.row = NoPending(w.row)]
  <2>1. CASE x \in ScheduleBillingChange(w, plan, interval)
    BY <2>1 DEF ScheduleBillingChange
  <2>2. CASE x \in ClearPendingCancellation(w)
    BY <2>2 DEF ClearPendingCancellation
  <2>3. CASE x \in ClearPendingScheduledChange(w)
    <3>1. [w EXCEPT !.row = NoPending(@)] = [w EXCEPT !.row = NoPending(w.row)]
      BY <1>1 DEF Workspaces
    <3>2. QED
      BY <2>3, <3>1 DEF ClearPendingScheduledChange
  <2>4. QED
    BY <2>1, <2>2, <2>3
<1>7. Same(w)
  OBVIOUS
<1> HIDE DEF Same
<1>8. Same(x)
  BY <1>2, <1>3, <1>4, <1>5, <1>6, <1>7
<1>9. QED
  BY <1>8 DEF Same

LEMMA InPartRow ==
  ASSUME NEW w, Sound(w), Graced(w), NEW s \in Answers(w.trial.ends),
         NEW x \in ReconciledInPart(w, s)
  PROVE  /\ x.row.sub \in {w.row.sub, s.sub} /\ Graced(x)
         /\ \/ x.row.status = w.row.status
            \/ x.row.status = "active" /\ w.row.status = "past_due"
         /\ x.row.status = "past_due" => x.row.grace = w.row.grace
<1>1. PICK known : known = WithIds(w, s)
  OBVIOUS
<1>2. /\ Sound(known) /\ known.row.sub = s.sub /\ known.row.status = w.row.status
      /\ known.row.grace = w.row.grace
  BY <1>1, WithIdsKept, IdsRow DEF Kept
<1>3. PICK recovered : recovered = MarkPaymentRecovered(known)
  OBVIOUS
<1>4. /\ Sound(recovered) /\ recovered.row.sub = s.sub
      /\ recovered.row.status = IF w.row.status = "past_due" THEN "active" ELSE w.row.status
  BY <1>2, <1>3, RecoveredKept, RecoveredRow DEF Kept
<1>5. [recovered EXCEPT !.plan = "plus"].row = recovered.row
      /\ [known EXCEPT !.plan = "plus"].row = known.row
  BY <1>2, <1>4, Known DEF Workspaces
<1>6. x.row \in {w.row, known.row, recovered.row}
  BY <1>1, <1>3, <1>5 DEF ReconciledInPart
<1>7. QED
  BY <1>2, <1>4, <1>6 DEF Graced
-----------------------------------------------------------------------------
(* The plan of a row that is paid is the plan of the workspace.            *)
Plain(w, now) ==
  w.row.status \in Paying => now >= w.trial.ends /\ w.plan = w.row.plan

OnBusiness(r) == r.status \in Live /\ r.plan = "business"

(* The change of plan a row waits for, when it waits for one.              *)
Waits(x, w) ==
  x.row.pendingPlan \in PaidPlans =>
    /\ x.row.pendingPlan = w.row.pendingPlan /\ x.row.pendingAt = w.row.pendingAt
    /\ x.row.plan = w.row.plan
    /\ x.row.status \in Live => w.row.status \in Live

(* A change of plan the row waits for is due.                              *)
Due(r, p, now) ==
  /\ r.status \in Live /\ r.pendingPlan = p /\ r.plan # p
  /\ r.pendingAt # NoTime /\ r.pendingAt <= now

(* What an answer of Stripe may do to the plans of a workspace.            *)
Taken(x, w, s, now) ==
  /\ Waits(x, w)
  /\ OnBusiness(x.row) =>
       OnBusiness(w.row) \/ (s.status \in {"trialing", "active"} /\ s.plan = "business")
  /\ x.plan = "plus" /\ w.row.status \in Paying =>
       w.plan = "plus" \/ (s.status = "active" /\ s.plan = "plus")
  /\ Plain(w, now) => Plain(x, now)
  /\ w.row.status \in Paying => x.row.status # "trialing"

LEMMA FailureTaken ==
  ASSUME NEW w, Sound(w), NEW s, NEW now, NEW x \in MarkPaymentFailure(w, now)
  PROVE  Taken(x, w, s, now)
<1>1. w \in Workspaces /\ w.row \in Rows
  BY Known
<1> DEFINE r == [w.row EXCEPT !.status = "past_due", !.grace = now + Grace]
<1>2. w.row.status \in Paying /\ (x = w \/ x = [w EXCEPT !.row = r])
  BY <1>1 DEF MarkPaymentFailure, Workspaces
<1>3. /\ r.plan = w.row.plan /\ r.pendingPlan = w.row.pendingPlan
      /\ r.pendingAt = w.row.pendingAt /\ r.status = "past_due"
  BY <1>1 DEF Rows
<1> HIDE DEF r
<1>5. /\ x.plan = w.plan /\ x.trial = w.trial /\ (x.row = w.row \/ x.row = r)
  BY <1>1, <1>2 DEF Workspaces
<1>4. QED
  BY <1>2, <1>3, <1>5 DEF Taken, Waits, OnBusiness, Plain, Paying, Live

LEMMA FinalTaken ==
  ASSUME NEW w, Sound(w), NEW s, NEW now
  PROVE  Taken(FinalizeSubscriptionEnd(w, now), w, s, now)
<1> DEFINE x == FinalizeSubscriptionEnd(w, now)
<1>1. w \in Workspaces /\ w.row \in Rows
  BY Known
<1>2. x.plan \in {w.plan, "basic"} /\ x.row.pendingPlan \notin PaidPlans
  BY <1>1 DEF FinalizeSubscriptionEnd, PlanUnlessTrial, Workspaces, Rows, NoPending, PaidPlans
<1>3. x.row.status \notin Live
  BY FinalRow
<1> HIDE DEF x
<1>4. Taken(x, w, s, now)
  BY <1>2, <1>3 DEF Taken, Waits, OnBusiness, Plain, Paying, Live
<1>5. QED
  BY <1>4 DEF x

(* A cancellation takes the place of the change that was waited for.       *)
LEMMA CancellationTaken ==
  ASSUME NEW w, Sound(w), NEW s, NEW now, NEW when, NEW x \in ScheduleCancellation(w, when)
  PROVE  Taken(x, w, s, now)
<1>1. /\ x.row.status = w.row.status /\ x.row.plan = w.row.plan /\ x.plan = w.plan
      /\ x.row.pendingPlan = "basic" /\ x.trial = w.trial
  BY CancellationRow
<1>2. QED
  BY <1>1 DEF Taken, Waits, OnBusiness, Plain, Paying, PaidPlans

LEMMA CancelTooTaken ==
  ASSUME NEW w, NEW y, Sound(y), NEW s, NEW now, Taken(y, w, s, now),
         NEW t, NEW when, NEW x \in CancelToo(y, t, when)
  PROVE  Taken(x, w, s, now)
<1>1. x = y \/ x \in ScheduleCancellation(y, when)
  BY DEF CancelToo
<1>2. CASE x \in ScheduleCancellation(y, when)
  <2>1. /\ x.row.status = y.row.status /\ x.row.plan = y.row.plan /\ x.plan = y.plan
        /\ x.row.pendingPlan = "basic" /\ x.trial = y.trial
    BY <1>2, CancellationRow
  <2>2. QED
    BY <2>1 DEF Taken, Waits, OnBusiness, Plain, PaidPlans
<1>3. QED
  BY <1>1, <1>2

LEMMA ActivatedTaken ==
  ASSUME NEW w, Sound(w), NEW s \in Answers(w.trial.ends), NEW now \in Nat,
         s.status = "active", now >= w.trial.ends, w.row.sub = s.sub,
         NEW x, x = ActivatePaid(w, s, now)
  PROVE  Taken(x, w, s, now) /\ Plain(x, now)
<1>1. /\ x.row.status = "active" /\ x.row.plan = s.plan /\ x.row.pendingPlan = "none"
  BY ActivatedRow
<1>2. x.trial = w.trial
  BY ActivatedKept DEF Kept
<1>3. w \in Workspaces /\ w.trial.ends \in Nat
  BY Known
<1>4. x.plan = s.plan
  <2>1. ~TrialActive(w, now)
    BY <1>3 DEF TrialActive
  <2>2. QED
    BY <1>3, <2>1 DEF ActivatePaid, PlanUnlessTrial, Workspaces
<1>5. s.plan \in PaidPlans
  BY DEF Answers, Snapshots
<1>6. QED
  BY <1>1, <1>2, <1>4, <1>5 DEF Taken, Waits, OnBusiness, Plain, Paying, PaidPlans

LEMMA UpgradedTaken ==
  ASSUME NEW w, Sound(w), NEW s \in Answers(w.trial.ends), NEW now \in Nat,
         s.status = "active", now >= w.trial.ends, w.row.sub = s.sub, w.plan # s.plan,
         NEW x \in ApplyUpgrade(w, s)
  PROVE  Taken(x, w, s, now)
<1>1. /\ x.row.status = "active" /\ x.row.plan = s.plan /\ x.row.pendingPlan = "none"
  BY UpgradedRow
<1>2. w \in Workspaces
  BY Known
<1>3. x.trial = w.trial /\ x.plan = s.plan
  BY <1>2 DEF ApplyUpgrade, Workspaces
<1>4. s.plan \in PaidPlans
  BY DEF Answers, Snapshots
<1>5. QED
  BY <1>1, <1>3, <1>4 DEF Taken, Waits, OnBusiness, Plain, Paying, PaidPlans

LEMMA PeriodTaken ==
  ASSUME NEW w, Sound(w), NEW s, NEW now, NEW x, x = PeriodOnly(w, s)
  PROVE  Taken(x, w, s, now) /\ x.row.status = w.row.status
<1>1. /\ x.plan = w.plan /\ x.row.status = w.row.status /\ x.row.plan = w.row.plan
      /\ x.row.pendingPlan = w.row.pendingPlan /\ x.row.pendingAt = w.row.pendingAt
  BY PeriodRow
<1>2. x.trial = w.trial
  BY Known DEF PeriodOnly, Workspaces
<1>3. QED
  BY <1>1, <1>2 DEF Taken, Waits, OnBusiness, Plain, Paying

(* What is taken of an answer may come after a step that keeps the plans.  *)
LEMMA TakenAfter ==
  ASSUME NEW w, NEW v, NEW x, NEW s, NEW now, Taken(x, v, s, now),
         v.plan = w.plan, v.trial = w.trial, v.row.plan = w.row.plan,
         v.row.pendingPlan = w.row.pendingPlan, v.row.pendingAt = w.row.pendingAt,
         v.row.status \in Paying <=> w.row.status \in Paying,
         v.row.status \in Live <=> w.row.status \in Live
  PROVE  Taken(x, w, s, now)
BY DEF Taken, Waits, OnBusiness, Plain

LEMMA DeferredTaken ==
  ASSUME NEW w, Sound(w), NEW s \in Answers(w.trial.ends), s.status = "trialing",
         NEW now, NEW x \in ReconcileDeferred(w, s)
  PROVE  Taken(x, w, s, now)
<1>1. PICK d \in RecordDeferredStart(w, s) : x \in CancelToo(d, s, s.trialEnd)
  BY DEF ReconcileDeferred
<1>2. w \in Workspaces /\ w.row \in Rows
  BY Known
<1>3. Sound(d)
  BY <1>1, DeferredKept DEF AllKept, Kept
<1> DEFINE r == [NoPending(w.row) EXCEPT
           !.status = "trialing", !.plan = s.plan, !.interval = s.interval,
           !.end = s.trialEnd, !.trialEnd = s.trialEnd, !.grace = NoTime,
           !.sub = s.sub, !.source = "stripe"]
           q == [w.row EXCEPT !.sub = s.sub, !.source = "stripe"]
<1>4. r.pendingPlan = "none" /\ r.status = "trialing" /\ r.plan = s.plan
  BY <1>2 DEF NoPending, Rows
<1>5. /\ q.pendingPlan = w.row.pendingPlan /\ q.pendingAt = w.row.pendingAt
      /\ q.plan = w.row.plan /\ q.status = w.row.status
  BY <1>2 DEF Rows
<1>6. \/ d = [w EXCEPT !.row = q] /\ w.row.status = "trialing" 
      \/ d = [w EXCEPT !.row = r] /\ w.row.status \notin Paying
  BY <1>1, <1>2 DEF RecordDeferredStart, Workspaces
<1> HIDE DEF r, q
<1>7. \/ d.row = q /\ w.row.status = "trialing"
      \/ d.row = r /\ w.row.status \notin Paying
  BY <1>2, <1>6 DEF Workspaces
<1>8. Taken(d, w, s, now)
  BY <1>4, <1>5, <1>7 DEF Taken, Waits, OnBusiness, Plain, Paying, PaidPlans, Live
<1>9. QED
  BY <1>1, <1>3, <1>8, CancelTooTaken

LEMMA ActiveTaken ==
  ASSUME NEW w, Sound(w), NEW s \in Answers(w.trial.ends), s.status = "active",
         NEW now \in Nat, now >= w.trial.ends, w.row.sub = s.sub,
         NEW x \in ReconcileActive(w, s, now)
  PROVE  Taken(x, w, s, now)
<1> DEFINE p == [w EXCEPT !.plan = "plus"]
<1>1. \/ x \in CancelToo(PeriodOnly(w, s), s, s.end)
      \/ x = w
      \/ s.plan = "plus" /\ x = ActivatePaid(p, s, now)
      \/ x \in ApplyUpgrade(w, s) /\ w.plan # s.plan
      \/ x \in CancelToo(ActivatePaid(w, s, now), s, s.end)
  BY DEF ReconcileActive
<1>2. CASE x \in CancelToo(PeriodOnly(w, s), s, s.end)
  <2>1. PICK y : y = PeriodOnly(w, s)
    OBVIOUS
  <2>2. Sound(y) /\ Taken(y, w, s, now)
    BY <2>1, PeriodKept, PeriodTaken DEF Kept
  <2>3. QED
    BY <1>2, <2>1, <2>2, CancelTooTaken
<1>3. CASE x = w
  BY <1>3 DEF Taken, Waits, OnBusiness, Plain, Paying
<1>4. CASE s.plan = "plus" /\ x = ActivatePaid(p, s, now)
  <2>1. Sound(p) /\ p.trial = w.trial /\ p.row = w.row
    BY PlanSetFirst, Known DEF Workspaces
  <2> HIDE DEF p
  <2>2. Taken(x, p, s, now) /\ Plain(x, now)
    BY <1>4, <2>1, ActivatedTaken
  <2>3. QED
    BY <1>4, <2>1, <2>2 DEF Taken, Waits, OnBusiness
<1>5. CASE x \in ApplyUpgrade(w, s) /\ w.plan # s.plan
  BY <1>5, UpgradedTaken
<1>6. CASE x \in CancelToo(ActivatePaid(w, s, now), s, s.end)
  <2>1. PICK y : y = ActivatePaid(w, s, now)
    OBVIOUS
  <2>2. Sound(y) /\ Taken(y, w, s, now)
    BY <2>1, ActivatedKept, ActivatedTaken DEF Kept
  <2>3. QED
    BY <1>6, <2>1, <2>2, CancelTooTaken
<1>7. QED
  BY <1>1, <1>2, <1>3, <1>4, <1>5, <1>6

LEMMA ReconcileTaken ==
  ASSUME NEW w, Sound(w), NEW s \in Answers(w.trial.ends), NEW now \in Nat,
         s.status \in Paying => now >= w.trial.ends,
         NEW x \in Reconcile(w, s, now)
  PROVE  Taken(x, w, s, now)
<1>1. PICK known : known = WithIds(w, s)
  OBVIOUS
<1>2. /\ Sound(known) /\ known.plan = w.plan /\ known.trial = w.trial
      /\ known.row.sub = s.sub /\ known.row.status = w.row.status /\ known.row.plan = w.row.plan
      /\ known.row.pendingPlan = w.row.pendingPlan /\ known.row.pendingAt = w.row.pendingAt
  BY <1>1, WithIdsKept, IdsRow DEF Kept
<1>3. PICK recovered : recovered = MarkPaymentRecovered(known)
  OBVIOUS
<1>4. /\ Sound(recovered) /\ recovered.plan = w.plan /\ recovered.trial = w.trial
      /\ recovered.row.status = IF w.row.status = "past_due" THEN "active" ELSE w.row.status
      /\ recovered.row.sub = s.sub /\ recovered.row.plan = w.row.plan
      /\ recovered.row.pendingPlan = w.row.pendingPlan
      /\ recovered.row.pendingAt = w.row.pendingAt
  BY <1>2, <1>3, RecoveredKept, RecoveredRow DEF Kept
<1>5. ASSUME Taken(x, known, s, now) PROVE Taken(x, w, s, now)
  BY <1>2, <1>5, TakenAfter
<1>6. ASSUME Taken(x, recovered, s, now) PROVE Taken(x, w, s, now)
  BY <1>4, <1>6, TakenAfter DEF Paying, Live
<1>7. CASE s.status = "canceled"
  <2>1. x \in ScheduleCancellation(known, s.end) \/ x = FinalizeSubscriptionEnd(known, now)
    BY <1>1, <1>7 DEF Reconcile, ReconcileEnded
  <2>2. QED
    BY <1>2, <1>5, <2>1, CancellationTaken, FinalTaken
<1>8. CASE s.status = "past_due"
  BY <1>1, <1>2, <1>5, <1>8, FailureTaken DEF Reconcile
<1>9. CASE s.status = "trialing"
  BY <1>1, <1>3, <1>4, <1>6, <1>9, DeferredTaken DEF Reconcile
<1>10. CASE s.status = "active"
  BY <1>1, <1>3, <1>4, <1>6, <1>10, ActiveTaken DEF Reconcile, Paying
<1>11. QED
  BY <1>7, <1>8, <1>9, <1>10 DEF Answers, Snapshots, Live

(* What the dates do to the plans.                                         *)
LEMMA DueTaken ==
  ASSUME NEW w, Sound(w), NEW now \in Nat, NEW x, x = ApplyDueTransitions(w, now)
  PROVE  /\ Waits(x, w)
         /\ OnBusiness(x.row) => OnBusiness(w.row) \/ Due(w.row, "business", now)
         /\ x.plan = "plus" =>
              w.plan = "plus" \/ w.row.status = "trialing" \/ Due(w.row, "plus", now)
         /\ Plain(w, now) => Plain(x, now)
         /\ x.row.status = "trialing" => x = w
<1>1. w \in Workspaces /\ w.row \in Rows /\ RowDated(w.row, w.trial.ends)
      /\ w.trial.ends \in Nat /\ w.row.pendingAt \in Nat
  BY Known, Dates
<1>2. CASE x = FinalizeSubscriptionEnd(w, now)
  <2>1. x.plan \in {w.plan, "basic"} /\ x.row.pendingPlan \notin PaidPlans
    BY <1>1, <1>2 DEF FinalizeSubscriptionEnd, PlanUnlessTrial, Workspaces, Rows, NoPending,
                      PaidPlans
  <2>2. x.row.status \notin Live
    BY <1>2, FinalRow
  <2>3. QED
    BY <2>1, <2>2 DEF Waits, OnBusiness, Plain, Paying, Live
<1>3. CASE x = StartDeferred(w, now) /\ TrialOver(w.row, now)
  <2> DEFINE r == [NoPending(w.row) EXCEPT
               !.status = "active", !.plan = w.row.plan,
               !.end = IF w.row.end <= w.row.trialEnd THEN NoTime ELSE @,
               !.pendingInterval = w.row.pendingInterval]
  <2>1. w.row.status = "trialing" /\ now >= w.trial.ends /\ w.row.plan \in PaidPlans
    BY <1>1, <1>3 DEF TrialOver, RowDated, Live
  <2>2. x.row = r /\ x.plan = w.row.plan /\ x.trial = w.trial
    <3>1. ~TrialActive(w, now)
      BY <1>1, <2>1 DEF TrialActive
    <3>2. QED
      BY <1>1, <1>3, <2>1, <3>1 DEF StartDeferred, PlanUnlessTrial, Workspaces
  <2>3. r.status = "active" /\ r.plan = w.row.plan /\ r.pendingPlan = "none"
    BY <1>1 DEF NoPending, Rows
  <2> HIDE DEF r
  <2>4. QED
    BY <2>1, <2>2, <2>3 DEF Waits, OnBusiness, Plain, Paying, PaidPlans, Live
<1>4. CASE /\ x = StartScheduled(w) /\ PendingOver(w.row, now) /\ ~w.row.cancel
           /\ w.row.pendingPlan \notin {"none", "basic"} /\ ~TrialOver(w.row, now)
  <2> DEFINE r == [NoPending(w.row) EXCEPT
               !.status = "active", !.plan = w.row.pendingPlan,
               !.interval = IF w.row.pendingInterval = "none" THEN @
                            ELSE w.row.pendingInterval]
  <2>1. /\ w.row.status \in Live /\ w.row.pendingPlan \in PaidPlans
        /\ now >= w.trial.ends /\ w.row.status # "trialing"
        /\ w.row.pendingAt # NoTime /\ w.row.pendingAt <= now
    BY <1>1, <1>4 DEF Rows, RowDated, PaidPlans, PendingOver, TrialOver, Live
  <2>2. /\ x.row = r /\ x.trial = w.trial
        /\ x.plan = IF w.row.pendingPlan = w.row.plan THEN w.plan ELSE w.row.pendingPlan
    BY <1>1, <1>4 DEF StartScheduled, Workspaces
  <2>3. r.status = "active" /\ r.plan = w.row.pendingPlan /\ r.pendingPlan = "none"
    BY <1>1 DEF NoPending, Rows
  <2> HIDE DEF r
  <2>4. QED
    BY <2>1, <2>2, <2>3 DEF Waits, OnBusiness, Plain, Paying, PaidPlans, Live, Due
<1>5. CASE x = w
  BY <1>5 DEF Waits, OnBusiness, Plain, Paying
<1>6. QED
  BY <1>2, <1>3, <1>4, <1>5 DEF ApplyDueTransitions
-----------------------------------------------------------------------------
(* What an answer and the dates make of a workspace together.              *)
Becomes(x, w, s, now) ==
  /\ Waits(x, w)
  /\ OnBusiness(x.row) =>
       \/ OnBusiness(w.row) \/ Due(w.row, "business", now)
       \/ s.status \in {"trialing", "active"} /\ s.plan = "business"
  /\ x.plan = "plus" /\ w.row.status \in Paying =>
       \/ w.plan = "plus" \/ Due(w.row, "plus", now)
       \/ s.status = "active" /\ s.plan = "plus"
  /\ Plain(w, now) => Plain(x, now)

LEMMA TakenBecomes ==
  ASSUME NEW w, NEW s, NEW now, NEW y, Sound(y), Taken(y, w, s, now), now \in Nat,
         NEW x, x = y \/ x = ApplyDueTransitions(y, now)
  PROVE  Becomes(x, w, s, now)
<1>1. CASE x = y
  BY <1>1 DEF Becomes, Taken
<1>2. CASE x = ApplyDueTransitions(y, now)
  <2>1. /\ Waits(x, y)
        /\ OnBusiness(x.row) => OnBusiness(y.row) \/ Due(y.row, "business", now)
        /\ x.plan = "plus" =>
             y.plan = "plus" \/ y.row.status = "trialing" \/ Due(y.row, "plus", now)
        /\ Plain(y, now) => Plain(x, now)
    BY <1>2, DueTaken
  <2>2. ASSUME NEW p \in PaidPlans, Due(y.row, p, now) PROVE Due(w.row, p, now)
    BY <2>2 DEF Due, Taken, Waits
  <2>3. "business" \in PaidPlans /\ "plus" \in PaidPlans
    BY DEF PaidPlans
  <2>4. Waits(x, w)
    BY <2>1 DEF Taken, Waits
  <2>5. QED
    BY <2>1, <2>2, <2>3, <2>4 DEF Becomes, Taken
<1>3. QED
  BY <1>1, <1>2

(* Steps that follow and leave the plans alone, or end the row.            *)
Alike(x, w) ==
  /\ x.plan = w.plan /\ x.trial = w.trial /\ x.row.plan = w.row.plan
  /\ x.row.status \in Live <=> w.row.status \in Live
  /\ x.row.status \in Paying <=> w.row.status \in Paying
  /\ x.row.pendingPlan \in PaidPlans =>
       x.row.pendingPlan = w.row.pendingPlan /\ x.row.pendingAt = w.row.pendingAt

Closes(x, w) ==
  /\ x.row.status \notin Live /\ x.row.pendingPlan \notin PaidPlans
  /\ x.plan \in {w.plan, "basic"}

LEMMA BecomesAfter ==
  ASSUME NEW w, NEW s, NEW now, NEW y, Becomes(y, w, s, now),
         NEW x, Alike(x, y) \/ Closes(x, y)
  PROVE  Becomes(x, w, s, now)
<1>1. CASE Alike(x, y)
  BY <1>1 DEF Alike, Becomes, Waits, OnBusiness, Plain
<1>2. CASE Closes(x, y)
  BY <1>2 DEF Closes, Becomes, Waits, OnBusiness, Plain, Live, Paying
<1>3. QED
  BY <1>1, <1>2

LEMMA AlikeBecomes ==
  ASSUME NEW w, NEW s, NEW now, NEW x, Alike(x, w)
  PROVE  Becomes(x, w, s, now)
BY DEF Alike, Becomes, Waits, OnBusiness, Plain

LEMMA CancellationAlike ==
  ASSUME NEW w, Sound(w), NEW when, NEW x \in ScheduleCancellation(w, when)
  PROVE  Alike(x, w)
<1>1. /\ x.row.status = w.row.status /\ x.row.plan = w.row.plan /\ x.plan = w.plan
      /\ x.row.pendingPlan = "basic" /\ x.trial = w.trial
  BY CancellationRow
<1>2. QED
  BY <1>1 DEF Alike, PaidPlans

LEMMA FinalCloses ==
  ASSUME NEW w, Sound(w), NEW now, NEW x, x = FinalizeSubscriptionEnd(w, now)
  PROVE  Closes(x, w)
<1>1. w \in Workspaces /\ w.row \in Rows
  BY Known
<1>2. x.plan \in {w.plan, "basic"} /\ x.row.pendingPlan \notin PaidPlans
  BY <1>1 DEF FinalizeSubscriptionEnd, PlanUnlessTrial, Workspaces, Rows, NoPending, PaidPlans
<1>3. QED
  BY <1>2, FinalRow DEF Closes

(* The end of a subscription lowers no plan to Plus.                       *)
LEMMA EndedPlan ==
  ASSUME NEW w, Sound(w), NEW s \in Answers(w.trial.ends), s.status = "canceled", NEW now,
         NEW y \in Reconcile(w, s, now)
  PROVE  y.plan \in {w.plan, "basic"}
<1>1. PICK known : known = WithIds(w, s)
  OBVIOUS
<1>2. Sound(known) /\ known.plan = w.plan
  BY <1>1, WithIdsKept, IdsRow DEF Kept
<1>3. y \in ScheduleCancellation(known, s.end) \/ y = FinalizeSubscriptionEnd(known, now)
  BY <1>1 DEF Reconcile, ReconcileEnded
<1>4. QED
  BY <1>2, <1>3, CancellationAlike, FinalCloses DEF Alike, Closes

LEMMA ResumedAlike ==
  ASSUME NEW w, Sound(w), NEW x \in ClearPendingCancellation(w)
  PROVE  Alike(x, w)
<1> DEFINE r == [w.row EXCEPT !.cancel = FALSE, !.pendingPlan = "none", !.pendingAt = NoTime]
           q == [w.row EXCEPT !.cancel = FALSE]
<1>1. w \in Workspaces /\ w.row \in Rows
  BY Known
<1>2. x = w \/ x = [w EXCEPT !.row = r] \/ x = [w EXCEPT !.row = q]
  BY <1>1 DEF ClearPendingCancellation, Workspaces
<1>3. /\ r.plan = w.row.plan /\ r.status = w.row.status /\ r.pendingPlan = "none"
      /\ q.plan = w.row.plan /\ q.status = w.row.status
      /\ q.pendingPlan = w.row.pendingPlan /\ q.pendingAt = w.row.pendingAt
  BY <1>1 DEF Rows
<1> HIDE DEF r, q
<1>4. x.plan = w.plan /\ x.trial = w.trial /\ x.row \in {w.row, r, q}
  BY <1>1, <1>2 DEF Workspaces
<1>5. QED
  BY <1>3, <1>4 DEF Alike, PaidPlans

(* What is released is waited for no more.                                 *)
LEMMA ReleasedAlike ==
  ASSUME NEW w, Sound(w), NEW x \in ClearPendingScheduledChange(w)
  PROVE  /\ Alike(x, w)
         /\ x.row.pendingPlan \in PaidPlans /\ w.row.pendingAt # NoTime =>
              x.row.plan = x.row.pendingPlan
<1>1. w \in Workspaces /\ w.row \in Rows
  BY Known
<1>2. NoPending(w.row).plan = w.row.plan /\ NoPending(w.row).status = w.row.status
      /\ NoPending(w.row).pendingPlan = "none"
  BY <1>1 DEF NoPending, Rows
<1>3. \/ x = w /\ ~w.row.cancel /\ ~ScheduledChangePending(w.row)
      \/ x = [w EXCEPT !.row = NoPending(w.row)]
  BY <1>1 DEF ClearPendingScheduledChange, Workspaces
<1>4. x.plan = w.plan /\ x.trial = w.trial
      /\ \/ x.row = w.row /\ ~w.row.cancel /\ ~ScheduledChangePending(w.row)
         \/ x.row = NoPending(w.row)
  BY <1>1, <1>3 DEF Workspaces
<1>5. QED
  BY <1>2, <1>4 DEF Alike, PaidPlans, ScheduledChangePending

(* A change that is scheduled is one for the end of the row's period.      *)
LEMMA ScheduledChange ==
  ASSUME NEW w, Sound(w), NEW plan, NEW interval,
         NEW x \in ScheduleBillingChange(w, plan, interval)
  PROVE  x = w \/ (/\ x.plan = w.plan /\ x.trial = w.trial /\ x.row.plan = w.row.plan
                   /\ x.row.status = w.row.status /\ x.row.sub = w.row.sub
                   /\ w.row.status \in Live
                   /\ x.row.pendingPlan = plan /\ x.row.pendingAt = w.row.end
                   /\ w.row.end # NoTime)
<1> DEFINE r == [w.row EXCEPT !.pendingPlan = plan, !.pendingInterval = interval,
                              !.pendingAt = w.row.end]
<1>1. w \in Workspaces /\ w.row \in Rows
  BY Known
<1>2. x = w \/ (x = [w EXCEPT !.row = r] /\ w.row.status \in Live /\ w.row.end # NoTime)
  BY <1>1 DEF ScheduleBillingChange, Workspaces
<1>3. /\ r.plan = w.row.plan /\ r.status = w.row.status /\ r.sub = w.row.sub
      /\ r.pendingPlan = plan /\ r.pendingAt = w.row.end
  BY <1>1 DEF Rows
<1> HIDE DEF r
<1>4. x = w \/ (/\ x.plan = w.plan /\ x.trial = w.trial /\ x.row = r
                /\ w.row.status \in Live /\ w.row.end # NoTime)
  BY <1>1, <1>2 DEF Workspaces
<1>5. QED
  BY <1>3, <1>4

LEMMA InPartAlike ==
  ASSUME NEW w, Sound(w), NEW s \in Answers(w.trial.ends),
         NEW x \in ReconciledInPart(w, s), x.plan = w.plan
  PROVE  Alike(x, w)
<1>1. PICK known : known = WithIds(w, s)
  OBVIOUS
<1>2. PICK recovered : recovered = IF s.status \in {"trialing", "active"}
                                   THEN MarkPaymentRecovered(known) ELSE known
  OBVIOUS
<1>3. /\ Sound(known) /\ known.plan = w.plan /\ known.trial = w.trial
      /\ known.row.status = w.row.status /\ known.row.plan = w.row.plan
      /\ known.row.pendingPlan = w.row.pendingPlan /\ known.row.pendingAt = w.row.pendingAt
  BY <1>1, WithIdsKept, IdsRow DEF Kept
<1>4. Sound(recovered) /\ Alike(recovered, w)
  <2>1. PICK y : y = MarkPaymentRecovered(known)
    OBVIOUS
  <2>2. /\ Sound(y) /\ y.plan = w.plan /\ y.trial = w.trial
        /\ y.row.status = IF w.row.status = "past_due" THEN "active" ELSE w.row.status
        /\ y.row.plan = w.row.plan /\ y.row.pendingPlan = w.row.pendingPlan
        /\ y.row.pendingAt = w.row.pendingAt
    BY <1>3, <2>1, RecoveredKept, RecoveredRow DEF Kept
  <2>3. QED
    BY <1>2, <1>3, <2>1, <2>2 DEF Alike, Live, Paying
<1>5. x \in {w, known, recovered, [recovered EXCEPT !.plan = "plus"]}
  BY <1>1, <1>2 DEF ReconciledInPart
<1>6. CASE x = [recovered EXCEPT !.plan = "plus"]
  <2>1. x.row = recovered.row /\ x.trial = recovered.trial
    BY <1>4, <1>6, Known DEF Workspaces
  <2>2. QED
    BY <1>4, <2>1 DEF Alike
<1>7. QED
  BY <1>3, <1>4, <1>5, <1>6 DEF Alike
(* A trial that expires gives a paid row's plan to the workspace.          *)
LEMMA ExpiryPlans ==
  ASSUME NEW w, Sound(w), NEW now, ExpireDueTrial(w, now) # w
  PROVE  LET x == ExpireDueTrial(w, now) IN
         /\ x.row = w.row /\ x.trial.ends = w.trial.ends
         /\ w.row.status \in Paying => x.plan = w.row.plan
<1>1. /\ w \in Workspaces
      /\ w.row.status \in Live => w.row.plan \in PaidPlans
  BY Known DEF RowDated
<1>2. ASSUME NEW p PROVE  LET x == [w EXCEPT !.plan = p, !.trial.expired = TRUE] IN
                          x.row = w.row /\ x.trial.ends = w.trial.ends /\ x.plan = p
  BY <1>1 DEF Workspaces
<1>3. QED
  BY <1>1, <1>2 DEF ExpireDueTrial, Live, Paying
-----------------------------------------------------------------------------
(* What a transition makes of the plan a row names, of its status and of   *)
(* what is pending in it, as far as the agreement with Stripe depends on   *)
(* it.                                                                     *)

(* The plan a row names, the one it waits for, and whether it waits.       *)
Pair(r) == <<r.plan, r.interval>>
Target(r) == <<r.pendingPlan, r.pendingInterval>>
Awaiting(r) == ~r.cancel /\ r.pendingAt # NoTime

(* What is pending in a row: nothing, the end, or what was.                *)
NonePending(r) == ~r.cancel /\ r.pendingPlan = "none" /\ r.pendingAt = NoTime
Ending(r, at) == r.cancel /\ r.pendingPlan = "basic" /\ r.pendingAt = at
SamePending(r, q) ==
  /\ r.cancel = q.cancel /\ r.pendingPlan = q.pendingPlan
  /\ r.pendingInterval = q.pendingInterval /\ r.pendingAt = q.pendingAt
Leaves(x, w) ==
  \/ NonePending(x.row) \/ (x.row.cancel /\ x.row.pendingAt # NoTime)
  \/ SamePending(x.row, w.row) /\ Pair(x.row) = Pair(w.row)

(* A workspace that differs at most in its ids, its status, what is        *)
(* pending and the end of its period.                                      *)
Alone(x, w) ==
  /\ x.plan = w.plan /\ x.trial = w.trial
  /\ x.row.plan = w.row.plan /\ x.row.interval = w.row.interval

(* What holds of every workspace unless a flaw has occurred: only a row    *)
(* that is paid has Plus, and a date that is pending is that of an end or  *)
(* of a change, which is no upgrade.                                       *)
PlusIsPaid(w) == w.row.status \notin Paying => w.plan # "plus"
TidyRow(r) ==
  /\ r.cancel => r.pendingAt # NoTime
  /\ ~r.cancel /\ r.pendingAt = NoTime => r.pendingPlan \notin PaidPlans
  /\ Awaiting(r) =>
       /\ r.pendingPlan \in PaidPlans /\ r.pendingInterval \in Intervals
       /\ Target(r) # Pair(r)
       /\ r.plan = "plus" => Target(r) # <<"business", r.interval>>
Tidy(w) == PlusIsPaid(w) /\ TidyRow(w.row)

LEMMA TidyLeft ==
  ASSUME NEW w, NEW x, TidyRow(w.row), Leaves(x, w)
  PROVE  /\ TidyRow(x.row)
         /\ Awaiting(x.row) => /\ Awaiting(w.row) /\ Pair(x.row) = Pair(w.row)
                               /\ Target(x.row) = Target(w.row)
                               /\ x.row.pendingAt = w.row.pendingAt
<1>1. CASE NonePending(x.row) \/ (x.row.cancel /\ x.row.pendingAt # NoTime)
  BY <1>1 DEF NonePending, TidyRow, Awaiting, PaidPlans
<1>2. CASE SamePending(x.row, w.row) /\ Pair(x.row) = Pair(w.row)
  <2>1. x.row.plan = w.row.plan /\ x.row.interval = w.row.interval
    BY <1>2 DEF Pair
  <2>2. QED
    BY <1>2, <2>1 DEF SamePending, TidyRow, Awaiting, Target, Pair
<1>3. QED
  BY <1>1, <1>2 DEF Leaves

LEMMA LeavesAgain ==
  ASSUME NEW w, NEW x, NEW y, Leaves(x, w), Leaves(y, x)
  PROVE  Leaves(y, w)
<1>1. CASE SamePending(y.row, x.row) /\ Pair(y.row) = Pair(x.row)
  BY <1>1 DEF Leaves, SamePending, NonePending
<1>2. QED
  BY <1>1 DEF Leaves

(* A row that waits for a change is what the code calls one that does.     *)
LEMMA AwaitingPends ==
  ASSUME NEW w, TidyRow(w.row), "none" \notin Intervals
  PROVE  ScheduledChangePending(w.row) <=> Awaiting(w.row)
BY DEF TidyRow, Awaiting, ScheduledChangePending, PaidPlans

LEMMA FailureFields ==
  ASSUME NEW w, Sound(w), NEW now, NEW x \in MarkPaymentFailure(w, now)
  PROVE  /\ Alone(x, w) /\ SamePending(x.row, w.row) /\ x.row.end = w.row.end
         /\ w.row.status \in Paying /\ x.row.status = "past_due"
<1>1. w \in Workspaces /\ w.row \in Rows
  BY Known
<1> DEFINE r == [w.row EXCEPT !.status = "past_due", !.grace = now + Grace]
<1>2. w.row.status \in Paying /\ ((x = w /\ w.row.status = "past_due") \/ x = [w EXCEPT !.row = r])
  BY <1>1 DEF MarkPaymentFailure, Workspaces
<1>3. /\ SamePending(r, w.row) /\ r.plan = w.row.plan /\ r.interval = w.row.interval
      /\ r.end = w.row.end /\ r.status = "past_due"
  BY <1>1 DEF Rows, SamePending
<1> HIDE DEF r
<1>4. CASE x = w /\ w.row.status = "past_due"
  BY <1>2, <1>4 DEF Alone, SamePending
<1>5. CASE x = [w EXCEPT !.row = r]
  <2>1. x.row = r /\ x.plan = w.plan /\ x.trial = w.trial
    BY <1>1, <1>5 DEF Workspaces
  <2>2. QED
    BY <1>2, <1>3, <2>1 DEF Alone
<1>6. QED
  BY <1>2, <1>4, <1>5

(* The ids are stored and a payment that was missed has been made.         *)
RecoveredStatus(r) == IF r.status = "past_due" THEN "active" ELSE r.status

LEMMA IdsFields ==
  ASSUME NEW w, Sound(w), NEW s, NEW x, x = WithIds(w, s)
  PROVE  /\ Alone(x, w) /\ SamePending(x.row, w.row) /\ x.row.end = w.row.end
         /\ x.row.status = w.row.status /\ x.row.trialEnd = w.row.trialEnd /\ x.row.grace = w.row.grace
<1>1. w \in Workspaces /\ w.row \in Rows
  BY Known
<1> DEFINE r == [w.row EXCEPT !.source = "stripe", !.sub = s.sub]
<1>2. x.row = r /\ x.plan = w.plan /\ x.trial = w.trial
  BY <1>1 DEF WithIds, Workspaces, Rows
<1>3. /\ SamePending(r, w.row) /\ r.plan = w.row.plan /\ r.interval = w.row.interval
      /\ r.end = w.row.end /\ r.status = w.row.status /\ r.trialEnd = w.row.trialEnd
      /\ r.grace = w.row.grace
  BY <1>1 DEF Rows, SamePending
<1> HIDE DEF r
<1>4. QED
  BY <1>2, <1>3 DEF Alone

LEMMA RecoveredFields ==
  ASSUME NEW w, Sound(w), NEW x, x = MarkPaymentRecovered(w)
  PROVE  /\ Alone(x, w) /\ SamePending(x.row, w.row) /\ x.row.end = w.row.end
         /\ x.row.status = RecoveredStatus(w.row) /\ x.row.trialEnd = w.row.trialEnd
<1>1. w \in Workspaces /\ w.row \in Rows
  BY Known
<1> DEFINE r == [w.row EXCEPT !.status = "active", !.grace = NoTime]
<1>2. /\ SamePending(r, w.row) /\ r.plan = w.row.plan /\ r.interval = w.row.interval
      /\ r.end = w.row.end /\ r.status = "active" /\ r.trialEnd = w.row.trialEnd
  BY <1>1 DEF Rows, SamePending
<1> HIDE DEF r
<1>3. CASE w.row.status = "past_due"
  <2>1. x = [w EXCEPT !.row = r]
    BY <1>1, <1>3 DEF MarkPaymentRecovered, Workspaces, Rows, r
  <2>2. x.row = r /\ x.plan = w.plan /\ x.trial = w.trial
    BY <1>1, <2>1 DEF Workspaces
  <2>3. QED
    BY <1>2, <1>3, <2>2 DEF Alone, RecoveredStatus
<1>4. CASE w.row.status # "past_due"
  BY <1>4 DEF MarkPaymentRecovered, Alone, SamePending, RecoveredStatus
<1>5. QED
  BY <1>3, <1>4

(* A cancellation, with the date it was given.                             *)
LEMMA CancellationFields ==
  ASSUME NEW w, Sound(w), NEW when, NEW x \in ScheduleCancellation(w, when)
  PROVE  /\ Alone(x, w) /\ x.row.end = w.row.end /\ x.row.status = w.row.status
         /\ x.row.trialEnd = w.row.trialEnd /\ w.row.status \in Live
         /\ Ending(x.row, IF when = NoTime THEN AccessEnd(w.row) ELSE when)
         /\ x.row.pendingAt # NoTime
<1> DEFINE at == IF when = NoTime THEN AccessEnd(w.row) ELSE when
           r == [w.row EXCEPT !.cancel = TRUE, !.pendingPlan = "basic", !.pendingAt = at]
<1>1. w \in Workspaces /\ w.row \in Rows
  BY Known
<1>2. x.row = r /\ x.plan = w.plan /\ x.trial = w.trial /\ w.row.status \in Live /\ at # NoTime
  BY <1>1 DEF ScheduleCancellation, Workspaces, Rows
<1>3. /\ r.plan = w.row.plan /\ r.interval = w.row.interval /\ r.end = w.row.end
      /\ r.status = w.row.status /\ r.trialEnd = w.row.trialEnd
      /\ r.cancel /\ r.pendingPlan = "basic" /\ r.pendingAt = at
  BY <1>1 DEF Rows
<1> HIDE DEF r, at
<1>4. QED
  BY <1>2, <1>3 DEF Alone, Ending, at

LEMMA CancelTooFields ==
  ASSUME NEW w, Sound(w), NEW s, NEW when, NEW x \in CancelToo(w, s, when), when # NoTime
  PROVE  /\ Alone(x, w) /\ x.row.end = w.row.end /\ x.row.status = w.row.status
         /\ IF s.cancel THEN Ending(x.row, when) ELSE SamePending(x.row, w.row)
<1>1. CASE s.cancel
  BY <1>1, CancellationFields DEF CancelToo
<1>2. CASE ~s.cancel
  BY <1>2 DEF CancelToo, Alone, SamePending
<1>3. QED
  BY <1>1, <1>2

LEMMA PeriodFields ==
  ASSUME NEW w, Sound(w), NEW s, NEW x, x = PeriodOnly(w, s)
  PROVE  /\ Alone(x, w) /\ SamePending(x.row, w.row) /\ x.row.status = w.row.status
         /\ x.row.end = s.end
<1> DEFINE r == [w.row EXCEPT !.end = s.end]
<1>1. w \in Workspaces /\ w.row \in Rows
  BY Known
<1>2. x.row = r /\ x.plan = w.plan /\ x.trial = w.trial
  BY <1>1 DEF PeriodOnly, Workspaces, Rows
<1>3. /\ SamePending(r, w.row) /\ r.plan = w.row.plan /\ r.interval = w.row.interval
      /\ r.end = s.end /\ r.status = w.row.status
  BY <1>1 DEF Rows, SamePending
<1> HIDE DEF r
<1>4. QED
  BY <1>2, <1>3 DEF Alone

LEMMA ActivatedFields ==
  ASSUME NEW w, Sound(w), TidyRow(w.row), NEW s, NEW now, NEW x, x = ActivatePaid(w, s, now)
  PROVE  /\ Pair(x.row) = Pair(s) /\ x.row.status = "active" /\ x.row.end = s.end
         /\ x.plan = PlanUnlessTrial(w, s.plan, now) \/ x.plan = s.plan
         /\ x.trial = w.trial /\ NonePending(x.row)
<1>1. w \in Workspaces /\ w.row \in Rows
  BY Known
<1> DEFINE same == /\ w.row.status = "active"
                   /\ <<w.row.plan, w.row.interval>> = <<s.plan, s.interval>>
                   /\ w.plan = s.plan
                   /\ w.row.end = s.end
                   /\ ~w.row.cancel
                   /\ w.row.pendingPlan = "none"
<1>2. CASE same
  <2>1. x = w
    BY <1>2 DEF ActivatePaid
  <2>2. w.row.pendingAt = NoTime
    BY <1>2 DEF TidyRow, Awaiting, PaidPlans
  <2>3. QED
    BY <1>2, <2>1, <2>2 DEF Pair, NonePending
<1>3. CASE ~same
  <2> DEFINE r == [NoPending(w.row) EXCEPT
                   !.status = "active", !.plan = s.plan,
                   !.interval = s.interval, !.end = s.end,
                   !.grace = NoTime, !.sub = s.sub, !.source = "stripe"]
  <2>1. x.row = r /\ x.plan = PlanUnlessTrial(w, s.plan, now) /\ x.trial = w.trial
    BY <1>1, <1>3 DEF ActivatePaid, Workspaces
  <2>2. /\ r.status = "active" /\ r.plan = s.plan /\ r.interval = s.interval
        /\ r.end = s.end /\ ~r.cancel /\ r.pendingPlan = "none" /\ r.pendingAt = NoTime
    BY <1>1 DEF NoPending, Rows
  <2> HIDE DEF r
  <2>3. QED
    BY <2>1, <2>2 DEF Pair, NonePending
<1>4. QED
  BY <1>2, <1>3

LEMMA UpgradedFields ==
  ASSUME NEW w, Sound(w), NEW s, NEW x \in ApplyUpgrade(w, s), w.plan # s.plan
  PROVE  /\ Pair(x.row) = <<s.plan, w.row.interval>> /\ x.row.status = "active"
         /\ x.plan = s.plan /\ x.trial = w.trial /\ NonePending(x.row) /\ x.row.end = s.end
         /\ w.row.status \in Paying
<1>1. w \in Workspaces /\ w.row \in Rows
  BY Known
<1> DEFINE r == [NoPending(w.row) EXCEPT
                    !.status = "active", !.plan = s.plan, !.end = s.end,
                    !.grace = NoTime, !.sub = s.sub]
<1>2. x.row = r /\ x.plan = s.plan /\ x.trial = w.trial /\ w.row.status \in Paying
  BY <1>1 DEF ApplyUpgrade, Workspaces
<1>3. /\ r.status = "active" /\ r.plan = s.plan /\ r.interval = w.row.interval
      /\ r.end = s.end /\ ~r.cancel /\ r.pendingPlan = "none" /\ r.pendingAt = NoTime
  BY <1>1 DEF NoPending, Rows
<1> HIDE DEF r
<1>4. QED
  BY <1>2, <1>3 DEF Pair, NonePending

LEMMA DeferredFields ==
  ASSUME NEW w, Sound(w), NEW s, NEW x \in RecordDeferredStart(w, s)
  PROVE  /\ x.row.status = "trialing" /\ Pair(x.row) = Pair(s)
         /\ x.plan = w.plan /\ x.trial = w.trial /\ x.row.trialEnd = s.trialEnd
         /\ w.row.status \notin Paying /\ ~x.row.cancel
         /\ \/ /\ SamePending(x.row, w.row) /\ Pair(x.row) = Pair(w.row)
               /\ x.row.end = w.row.end /\ w.row.status = "trialing"
            \/ NonePending(x.row) /\ x.row.end = s.trialEnd
<1>1. w \in Workspaces /\ w.row \in Rows
  BY Known
<1> DEFINE same == /\ w.row.status = "trialing"
                   /\ <<w.row.plan, w.row.interval>> = <<s.plan, s.interval>>
                   /\ w.row.trialEnd = s.trialEnd
                   /\ ~w.row.cancel
           q == [w.row EXCEPT !.sub = s.sub, !.source = "stripe"]
           r == [NoPending(w.row) EXCEPT
                   !.status = "trialing", !.plan = s.plan, !.interval = s.interval,
                   !.end = s.trialEnd, !.trialEnd = s.trialEnd, !.grace = NoTime,
                   !.sub = s.sub, !.source = "stripe"]
<1>2. /\ SamePending(q, w.row) /\ q.status = w.row.status /\ q.plan = w.row.plan
      /\ q.interval = w.row.interval /\ q.end = w.row.end /\ q.trialEnd = w.row.trialEnd
  BY <1>1 DEF Rows, SamePending
<1>3. /\ r.status = "trialing" /\ r.plan = s.plan /\ r.interval = s.interval
      /\ r.end = s.trialEnd /\ r.trialEnd = s.trialEnd /\ NonePending(r)
  BY <1>1 DEF Rows, NoPending, NonePending
<1>4. CASE same
  <2>1. x.row = q /\ x.plan = w.plan /\ x.trial = w.trial
    BY <1>1, <1>4 DEF RecordDeferredStart, Workspaces, Rows
  <2> HIDE DEF q
  <2>2. x.row.cancel = w.row.cancel
    BY <1>2, <2>1 DEF SamePending
  <2>3. QED
    BY <1>2, <1>4, <2>1, <2>2 DEF Pair, Paying
<1>5. CASE ~same
  <2>1. x.row = r /\ x.plan = w.plan /\ x.trial = w.trial /\ w.row.status \notin Paying
    BY <1>1, <1>5 DEF RecordDeferredStart, Workspaces
  <2> HIDE DEF r
  <2>2. QED
    BY <1>3, <2>1 DEF Pair, NonePending
<1>6. QED
  BY <1>4, <1>5

LEMMA FinalFields ==
  ASSUME NEW w, Sound(w), NEW now, NEW x, x = FinalizeSubscriptionEnd(w, now)
  PROVE  /\ x.row.status \notin Live /\ Leaves(x, w) /\ x.trial = w.trial
         /\ x = w \/ (x.row.status = "canceled" /\ NonePending(x.row) /\ x.plan = PlanUnlessTrial(w, "basic", now))
<1>1. w \in Workspaces /\ w.row \in Rows
  BY Known
<1> DEFINE done == /\ w.row.status \in {"none", "canceled"}
                   /\ w.plan = "basic"
                   /\ ~w.row.cancel
                   /\ w.row.pendingPlan = "none"
           r == [NoPending(w.row) EXCEPT
                   !.status = "canceled", !.source = "none",
                   !.interval = "none", !.plan = "none", !.grace = NoTime]
<1>2. CASE done
  BY <1>2 DEF FinalizeSubscriptionEnd, Leaves, SamePending, Live
<1>3. CASE ~done
  <2>1. /\ x.row = r /\ x.trial = w.trial /\ x.plan = PlanUnlessTrial(w, "basic", now)
    BY <1>1, <1>3 DEF FinalizeSubscriptionEnd, Workspaces
  <2>2. r.status = "canceled" /\ NonePending(r)
    BY <1>1 DEF NoPending, Rows, NonePending
  <2>3. QED
    BY <2>1, <2>2 DEF Leaves, Live
<1>4. QED
  BY <1>2, <1>3

LEMMA ResumedFields ==
  ASSUME NEW w, Sound(w), NEW x \in ClearPendingCancellation(w)
  PROVE  /\ Alone(x, w) /\ x.row.status = w.row.status /\ x.row.end = w.row.end
         /\ ~x.row.cancel /\ Leaves(x, w)
         /\ (x = w /\ ~w.row.cancel) \/ (NonePending(x.row) /\ w.row.cancel)
<1>1. w \in Workspaces /\ w.row \in Rows /\ RowDated(w.row, w.trial.ends)
  BY Known
<1> DEFINE r == [w.row EXCEPT !.cancel = FALSE, !.pendingPlan = "none", !.pendingAt = NoTime]
<1>2. CASE ~w.row.cancel
  BY <1>2 DEF ClearPendingCancellation, Alone, Leaves, SamePending
<1>3. CASE w.row.cancel
  <2>1. w.row.pendingPlan = "basic"
    BY <1>1, <1>3 DEF RowDated
  <2>2. x.row = r /\ x.plan = w.plan /\ x.trial = w.trial
    BY <1>1, <1>3, <2>1 DEF ClearPendingCancellation, Workspaces, Rows
  <2>3. /\ r.status = w.row.status /\ r.end = w.row.end /\ NonePending(r)
        /\ r.plan = w.row.plan /\ r.interval = w.row.interval
    BY <1>1 DEF Rows, NonePending
  <2> HIDE DEF r
  <2>4. QED
    BY <1>3, <2>2, <2>3 DEF Alone, Leaves, NonePending
<1>4. QED
  BY <1>2, <1>3

LEMMA ReleasedFields ==
  ASSUME NEW w, Sound(w), TidyRow(w.row), "none" \notin Intervals,
         NEW x \in ClearPendingScheduledChange(w)
  PROVE  /\ Alone(x, w) /\ x.row.status = w.row.status /\ x.row.end = w.row.end
         /\ ~x.row.cancel /\ ~w.row.cancel /\ x.row.pendingAt = NoTime /\ Leaves(x, w)
<1>1. w \in Workspaces /\ w.row \in Rows
  BY Known
<1>2. ~w.row.cancel
  BY DEF ClearPendingScheduledChange
<1>3. CASE ~ScheduledChangePending(w.row)
  <2>1. x = w
    BY <1>2, <1>3 DEF ClearPendingScheduledChange
  <2>2. QED
    BY <1>2, <1>3, <2>1, AwaitingPends DEF Alone, Leaves, SamePending, Awaiting
<1>4. CASE ScheduledChangePending(w.row)
  <2> DEFINE r == NoPending(w.row)
  <2>1. x.row = r /\ x.plan = w.plan /\ x.trial = w.trial
    BY <1>1, <1>2, <1>4 DEF ClearPendingScheduledChange, Workspaces
  <2>2. /\ r.status = w.row.status /\ r.end = w.row.end /\ NonePending(r)
        /\ r.plan = w.row.plan /\ r.interval = w.row.interval
    BY <1>1 DEF Rows, NonePending, NoPending
  <2> HIDE DEF r
  <2>3. QED
    BY <1>2, <2>1, <2>2 DEF Alone, Leaves, NonePending
<1>5. QED
  BY <1>3, <1>4

LEMMA ScheduledFields ==
  ASSUME NEW w, Sound(w), NEW plan \in PaidPlans, NEW interval \in Intervals,
         NEW x \in ScheduleBillingChange(w, plan, interval)
  PROVE  /\ Alone(x, w) /\ x.row.status = w.row.status /\ x.row.end = w.row.end
         /\ w.row.status \in Live /\ ~w.row.cancel /\ ~x.row.cancel
         /\ Target(x.row) = <<plan, interval>> /\ x.row.pendingAt = w.row.end
         /\ w.row.end # NoTime /\ <<plan, interval>> # Pair(w.row) /\ TidyRow(x.row)
<1>1. w \in Workspaces /\ w.row \in Rows
  BY Known
<1> DEFINE r == [w.row EXCEPT !.pendingPlan = plan, !.pendingInterval = interval,
                              !.pendingAt = w.row.end]
           as == <<w.row.pendingPlan, w.row.pendingInterval, w.row.pendingAt>>
                   = <<plan, interval, w.row.end>>
<1>2. /\ w.row.status \in Live /\ ~w.row.cancel /\ w.row.end # NoTime
      /\ ~(plan = "business" /\ w.row.plan = "plus" /\ interval = w.row.interval)
      /\ <<plan, interval>> # Pair(w.row)
  BY DEF ScheduleBillingChange, Pair
<1>3. \/ x = w /\ as
      \/ x = [w EXCEPT !.row.pendingPlan = plan, !.row.pendingInterval = interval,
                      !.row.pendingAt = w.row.end]
  BY DEF ScheduleBillingChange
<1>4. /\ r.status = w.row.status /\ r.end = w.row.end /\ r.cancel = w.row.cancel
      /\ r.plan = w.row.plan /\ r.interval = w.row.interval
      /\ r.pendingPlan = plan /\ r.pendingInterval = interval /\ r.pendingAt = w.row.end
  BY <1>1 DEF Rows
<1>5. CASE x = w /\ as
  BY <1>2, <1>5 DEF Alone, Target, TidyRow, Awaiting, Pair
<1>6. CASE x = [w EXCEPT !.row.pendingPlan = plan, !.row.pendingInterval = interval,
                         !.row.pendingAt = w.row.end]
  <2>1. x.row = r /\ x.plan = w.plan /\ x.trial = w.trial
    BY <1>1, <1>6 DEF Workspaces, Rows
  <2> HIDE DEF r
  <2>2. QED
    BY <1>2, <1>4, <2>1 DEF Alone, Target, TidyRow, Awaiting, Pair
<1>7. QED
  BY <1>3, <1>5, <1>6

(* The ids stored and the payment recovered, as every answer begins.       *)
LEMMA RecoveredKnown ==
  ASSUME NEW w, Sound(w), NEW s \in Answers(w.trial.ends),
         NEW x, x = MarkPaymentRecovered(WithIds(w, s))
  PROVE  /\ Sound(x) /\ Alone(x, w) /\ SamePending(x.row, w.row) /\ x.row.end = w.row.end
         /\ x.row.status = RecoveredStatus(w.row) /\ x.row.trialEnd = w.row.trialEnd
         /\ Leaves(x, w)
<1>1. PICK known : known = WithIds(w, s)
  OBVIOUS
<1>2. /\ Sound(known) /\ Alone(known, w) /\ SamePending(known.row, w.row)
      /\ known.row.end = w.row.end /\ known.row.status = w.row.status
      /\ known.row.trialEnd = w.row.trialEnd
  BY <1>1, WithIdsKept, IdsFields DEF Kept
<1>3. x = MarkPaymentRecovered(known)
  BY <1>1
<1>4. /\ Sound(x) /\ Alone(x, known) /\ SamePending(x.row, known.row)
      /\ x.row.end = known.row.end /\ x.row.status = RecoveredStatus(known.row)
      /\ x.row.trialEnd = known.row.trialEnd
  BY <1>2, <1>3, RecoveredKept, RecoveredFields DEF Kept
<1>5. QED
  BY <1>2, <1>4 DEF Alone, SamePending, RecoveredStatus, Leaves, Pair

LEMMA InPartFields ==
  ASSUME NEW w, Sound(w), NEW s \in Answers(w.trial.ends),
         NEW x \in ReconciledInPart(w, s), x.plan = w.plan
  PROVE  /\ Alone(x, w) /\ x.row.end = w.row.end /\ SamePending(x.row, w.row)
         /\ \/ x.row.status = w.row.status
            \/ /\ x.row.status = RecoveredStatus(w.row)
               /\ s.status \in {"trialing", "active"}
<1>1. PICK known : known = WithIds(w, s)
  OBVIOUS
<1>2. PICK y : y = MarkPaymentRecovered(known)
  OBVIOUS
<1>3. /\ Alone(known, w) /\ SamePending(known.row, w.row) /\ known.row.end = w.row.end
      /\ known.row.status = w.row.status
  BY <1>1, IdsFields
<1>4. /\ Sound(y) /\ Alone(y, w) /\ SamePending(y.row, w.row) /\ y.row.end = w.row.end
      /\ y.row.status = RecoveredStatus(w.row)
  BY <1>1, <1>2, RecoveredKnown
<1>5. \/ x \in {w, known}
      \/ s.status \in {"trialing", "active"} /\ x \in {y, [y EXCEPT !.plan = "plus"]}
  BY <1>1, <1>2 DEF ReconciledInPart
<1>6. CASE x = [y EXCEPT !.plan = "plus"]
  <2>1. x.row = y.row /\ x.trial = y.trial
    BY <1>4, <1>6, Known DEF Workspaces
  <2>2. CASE s.status \in {"trialing", "active"}
    BY <1>4, <2>1, <2>2 DEF Alone
  <2>3. CASE s.status \notin {"trialing", "active"}
    BY <1>3, <1>5, <2>3 DEF Alone, SamePending
  <2>4. QED
    BY <2>2, <2>3
<1>7. QED
  BY <1>3, <1>4, <1>5, <1>6 DEF Alone, SamePending

(* What an active answer makes of a row: one that waits for a change keeps *)
(* waiting while the answer is of its plan, and ignores a third plan; the  *)
(* end of a period that is over may be noted; else the answer is adopted.  *)
Noted(x, s, w) == IF s.cancel THEN Ending(x.row, s.end) ELSE SamePending(x.row, w.row)
Waited(x, w, s, now) ==
  /\ Awaiting(w.row) /\ s.end > now /\ Pair(s) = Pair(w.row)
  /\ Alone(x, w) /\ x.row.status = RecoveredStatus(w.row) /\ x.row.end = s.end
  /\ Noted(x, s, w)
Ignored(x, w, s, now) ==
  /\ Awaiting(w.row) /\ s.end > now /\ Pair(s) \notin {Pair(w.row), Target(w.row)}
  /\ Alone(x, w) /\ x.row.status = RecoveredStatus(w.row) /\ x.row.end = w.row.end
  /\ SamePending(x.row, w.row)
Shortened(x, w, s, now) ==
  /\ Awaiting(w.row) /\ ~(s.end > now) /\ s.plan = "business" /\ w.row.pendingPlan = "plus"
  /\ Alone(x, w) /\ x.row.status = RecoveredStatus(w.row) /\ x.row.end = s.end
  /\ Noted(x, s, w)
Adopted(x, w, s, now) ==
  /\ ~(Awaiting(w.row) /\ s.end > now) \/ Pair(s) = Target(w.row)
  /\ x.row.status = "active" /\ x.row.plan = s.plan /\ x.row.end = s.end /\ x.trial = w.trial
  /\ x.plan = s.plan \/ x.plan = PlanUnlessTrial(w, s.plan, now)
  /\ \/ x.row.interval = s.interval
     \/ w.plan = "plus" /\ s.plan = "business" /\ x.row.interval = w.row.interval
  /\ \/ s.cancel /\ Ending(x.row, s.end)
     \/ NonePending(x.row) /\ (s.cancel => w.plan # s.plan /\ w.plan \in PaidPlans)

LEMMA ActiveFields ==
  ASSUME NEW w, Sound(w), TidyRow(w.row), "none" \notin Intervals,
         w.row.status # "past_due", NEW s \in Answers(w.trial.ends), NEW now \in Nat, s.end # NoTime,
         NEW x \in ReconcileActive(w, s, now)
  PROVE  \/ Waited(x, w, s, now) \/ Ignored(x, w, s, now)
         \/ Shortened(x, w, s, now) \/ Adopted(x, w, s, now)
<1> DEFINE bought == <<s.plan, s.interval>>
           target == <<IF w.row.pendingPlan = "none" THEN w.row.plan ELSE w.row.pendingPlan,
                       IF w.row.pendingInterval = "none" THEN w.row.interval
                       ELSE w.row.pendingInterval>>
           awaited == ScheduledChangePending(w.row) /\ s.end > now
           downgrade == /\ w.row.pendingPlan = "plus" /\ w.row.plan = "business"
                        /\ target[2] = w.row.interval /\ ~w.row.cancel
           period == PeriodOnly(w, s)
           lower == awaited => bought = target
<1>1. /\ ScheduledChangePending(w.row) <=> Awaiting(w.row)
      /\ Awaiting(w.row) => target = Target(w.row)
      /\ RecoveredStatus(w.row) = w.row.status /\ bought = Pair(s)
  BY AwaitingPends DEF TidyRow, Target, PaidPlans, RecoveredStatus, Pair
<1>2. s \in Answers(w.trial.ends) /\ s.plan \in PaidPlans /\ w.plan \in PaidPlans \cup {"basic"}
  BY Known DEF Answers, Snapshots
<1>3. ASSUME NEW y \in CancelToo(period, s, s.end)
      PROVE  /\ Alone(y, w) /\ y.row.status = w.row.status /\ y.row.end = s.end /\ Noted(y, s, w)
  <2>1. PICK z : z = period
    OBVIOUS
  <2>2. /\ Sound(z) /\ Alone(z, w) /\ SamePending(z.row, w.row) /\ z.row.status = w.row.status
        /\ z.row.end = s.end
    BY <2>1, PeriodKept, PeriodFields DEF Kept
  <2>3. y \in CancelToo(z, s, s.end)
    BY <1>3, <2>1
  <2>4. /\ Alone(y, z) /\ y.row.end = z.row.end /\ y.row.status = z.row.status
        /\ IF s.cancel THEN Ending(y.row, s.end) ELSE SamePending(y.row, z.row)
    BY <2>2, <2>3, CancelTooFields
  <2>5. QED
    BY <2>2, <2>4 DEF Alone, Noted, SamePending
<1>4. CASE awaited /\ bought = <<w.row.plan, w.row.interval>>
  <2>1. x \in CancelToo(period, s, s.end)
    BY <1>4 DEF ReconcileActive
  <2>2. Waited(x, w, s, now)
    BY <1>1, <1>3, <1>4, <2>1 DEF Waited, Pair
  <2>3. QED
    BY <2>2
<1>5. CASE awaited /\ bought # <<w.row.plan, w.row.interval>> /\ bought # target
  <2>1. x = w
    BY <1>5 DEF ReconcileActive
  <2>2. Ignored(x, w, s, now)
    BY <1>1, <1>5, <2>1 DEF Ignored, Pair, Alone, SamePending
  <2>3. QED
    BY <2>2
<1>6. CASE lower /\ ~(awaited /\ bought = <<w.row.plan, w.row.interval>>)
  <2>1. ~(Awaiting(w.row) /\ s.end > now) \/ Pair(s) = Target(w.row)
    BY <1>1, <1>6
  <2>2. CASE s.plan = "plus" /\ w.plan = "business"
    <3>1. PICK z : z = [w EXCEPT !.plan = "plus"]
      OBVIOUS
    <3>2. Sound(z) /\ z.row = w.row /\ z.trial = w.trial /\ z.plan = "plus"
      BY <3>1, PlanSetFirst, Known DEF Workspaces
    <3>3. x = ActivatePaid(z, s, now)
      BY <1>6, <2>2, <3>1 DEF ReconcileActive
    <3>4. /\ Pair(x.row) = Pair(s) /\ x.row.status = "active" /\ x.row.end = s.end
          /\ x.plan = PlanUnlessTrial(z, s.plan, now) \/ x.plan = s.plan
          /\ x.trial = z.trial /\ NonePending(x.row)
      BY <3>2, <3>3, ActivatedFields
    <3>5. PlanUnlessTrial(z, s.plan, now) = "plus"
      BY <2>2, <3>2 DEF PlanUnlessTrial
    <3>6. x.row.plan = s.plan /\ x.row.interval = s.interval
      BY <3>4 DEF Pair
    <3>7. Adopted(x, w, s, now)
      BY <2>1, <2>2, <3>2, <3>4, <3>5, <3>6 DEF Adopted, PaidPlans
    <3>8. QED
      BY <3>7
  <2>3. CASE s.plan = "business" /\ w.plan = "plus"
    <3>1. x \in ApplyUpgrade(w, s) /\ w.plan # s.plan
      BY <1>6, <2>3 DEF ReconcileActive
    <3>2. /\ Pair(x.row) = <<s.plan, w.row.interval>> /\ x.row.status = "active"
          /\ x.plan = s.plan /\ x.trial = w.trial /\ NonePending(x.row) /\ x.row.end = s.end
      BY <3>1, UpgradedFields
    <3>3. x.row.plan = s.plan /\ x.row.interval = w.row.interval
      BY <3>2 DEF Pair
    <3>4. Adopted(x, w, s, now)
      BY <2>1, <2>3, <3>2, <3>3 DEF Adopted, PaidPlans
    <3>5. QED
      BY <3>4
  <2>4. CASE /\ ~(s.plan = "plus" /\ w.plan = "business") /\ ~(s.plan = "business" /\ w.plan = "plus")
             /\ downgrade /\ s.plan = "business"
    <3>1. x \in CancelToo(period, s, s.end)
      BY <1>6, <2>4 DEF ReconcileActive
    <3>2. Awaiting(w.row)
      BY <2>4 DEF TidyRow, Awaiting, PaidPlans
    <3>3. ~(s.end > now)
      BY <1>1, <2>1, <2>4, <3>2 DEF Target, Pair
    <3>4. Shortened(x, w, s, now)
      BY <1>1, <1>3, <2>4, <3>1, <3>2, <3>3 DEF Shortened
    <3>5. QED
      BY <3>4
  <2>5. CASE /\ ~(s.plan = "plus" /\ w.plan = "business") /\ ~(s.plan = "business" /\ w.plan = "plus")
             /\ ~(downgrade /\ s.plan = "business")
    <3>1. PICK z : z = ActivatePaid(w, s, now)
      OBVIOUS
    <3>2. Sound(z)
      BY <3>1, ActivatedKept DEF Kept
    <3>3. /\ Pair(z.row) = Pair(s) /\ z.row.status = "active" /\ z.row.end = s.end
          /\ z.plan = PlanUnlessTrial(w, s.plan, now) \/ z.plan = s.plan
          /\ z.trial = w.trial /\ NonePending(z.row)
      BY <3>1, ActivatedFields
    <3>4. x \in CancelToo(z, s, s.end)
      BY <1>6, <2>5, <3>1 DEF ReconcileActive
    <3>5. /\ Alone(x, z) /\ x.row.end = z.row.end /\ x.row.status = z.row.status
          /\ IF s.cancel THEN Ending(x.row, s.end) ELSE SamePending(x.row, z.row)
      BY <3>2, <3>4, CancelTooFields
    <3>6. /\ x.row.plan = s.plan /\ x.row.interval = s.interval /\ x.trial = w.trial
          /\ x.plan = PlanUnlessTrial(w, s.plan, now) \/ x.plan = s.plan
          /\ x.row.status = "active" /\ x.row.end = s.end
      BY <3>3, <3>5 DEF Alone, Pair
    <3>7. (s.cancel /\ Ending(x.row, s.end)) \/ (NonePending(x.row) /\ ~s.cancel)
      BY <3>3, <3>5 DEF SamePending, NonePending
    <3>8. Adopted(x, w, s, now)
      BY <2>1, <3>6, <3>7 DEF Adopted
    <3>9. QED
      BY <3>8
  <2>6. QED
    BY <2>2, <2>3, <2>4, <2>5
<1>7. QED
  BY <1>4, <1>5, <1>6

LEMMA ActiveAnswer ==
  ASSUME NEW w, Sound(w), TidyRow(w.row), "none" \notin Intervals,
         NEW s \in Answers(w.trial.ends), NEW now \in Nat, s.end # NoTime,
         s.status = "active", NEW x \in Reconcile(w, s, now)
  PROVE  \/ Waited(x, w, s, now) \/ Ignored(x, w, s, now)
         \/ Shortened(x, w, s, now) \/ Adopted(x, w, s, now)
<1>1. PICK y : y = MarkPaymentRecovered(WithIds(w, s))
  OBVIOUS
<1>2. /\ Sound(y) /\ Alone(y, w) /\ SamePending(y.row, w.row) /\ y.row.end = w.row.end
      /\ y.row.status = RecoveredStatus(w.row) /\ Leaves(y, w)
  BY <1>1, RecoveredKnown
<1>3. /\ Pair(y.row) = Pair(w.row) /\ Target(y.row) = Target(w.row)
      /\ Awaiting(y.row) <=> Awaiting(w.row)
      /\ y.plan = w.plan /\ y.trial = w.trial /\ y.row.interval = w.row.interval
      /\ y.row.pendingPlan = w.row.pendingPlan /\ y.row.status # "past_due"
      /\ RecoveredStatus(y.row) = RecoveredStatus(w.row) /\ TidyRow(y.row)
  BY <1>2, TidyLeft DEF Alone, SamePending, Pair, Target, Awaiting, RecoveredStatus
<1>4. x \in ReconcileActive(y, s, now) /\ s \in Answers(y.trial.ends)
  BY <1>1, <1>3 DEF Reconcile
<1>5. \/ Waited(x, y, s, now) \/ Ignored(x, y, s, now)
      \/ Shortened(x, y, s, now) \/ Adopted(x, y, s, now)
  BY <1>2, <1>3, <1>4, ActiveFields
<1>6. /\ Alone(x, y) => Alone(x, w)
      /\ SamePending(x.row, y.row) => SamePending(x.row, w.row)
      /\ Noted(x, s, y) => Noted(x, s, w)
      /\ PlanUnlessTrial(y, s.plan, now) = PlanUnlessTrial(w, s.plan, now)
  BY <1>2, <1>3 DEF Alone, SamePending, Noted, PlanUnlessTrial, TrialActive
<1>7. CASE Waited(x, y, s, now)
  BY <1>3, <1>6, <1>7 DEF Waited
<1>8. CASE Ignored(x, y, s, now)
  BY <1>2, <1>3, <1>6, <1>8 DEF Ignored
<1>9. CASE Shortened(x, y, s, now)
  BY <1>3, <1>6, <1>9 DEF Shortened
<1>10. CASE Adopted(x, y, s, now)
  BY <1>3, <1>6, <1>10 DEF Adopted
<1>11. QED
  BY <1>5, <1>7, <1>8, <1>9, <1>10

LEMMA TrialingAnswer ==
  ASSUME NEW w, Sound(w), NEW s \in Answers(w.trial.ends), NEW now,
         s.status = "trialing", NEW x \in Reconcile(w, s, now)
  PROVE  /\ x.row.status = "trialing" /\ Pair(x.row) = Pair(s)
         /\ x.plan = w.plan /\ x.trial = w.trial /\ w.row.status \notin Paying
         /\ x.row.trialEnd = w.trial.ends /\ Leaves(x, w)
         /\ s.cancel => Ending(x.row, w.trial.ends)
         /\ ~s.cancel => ~x.row.cancel
         /\ \/ w.row.status = "trialing" /\ x.row.end = w.row.end
            \/ x.row.end = w.trial.ends /\ (~s.cancel => NonePending(x.row))
<1>1. PICK y : y = MarkPaymentRecovered(WithIds(w, s))
  OBVIOUS
<1>2. /\ Sound(y) /\ Alone(y, w) /\ SamePending(y.row, w.row) /\ y.row.end = w.row.end
      /\ y.row.status = RecoveredStatus(w.row)
  BY <1>1, RecoveredKnown
<1>3. s.trialEnd = w.trial.ends /\ w.trial.ends # NoTime
  BY DEF Answers
<1>4. PICK d \in RecordDeferredStart(y, s) : x \in CancelToo(d, s, s.trialEnd)
  <2>1. x \in ReconcileDeferred(y, s)
    BY <1>1 DEF Reconcile
  <2>2. QED
    BY <2>1 DEF ReconcileDeferred
<1>5. /\ d.row.status = "trialing" /\ Pair(d.row) = Pair(s)
      /\ d.plan = y.plan /\ d.trial = y.trial /\ d.row.trialEnd = s.trialEnd
      /\ y.row.status \notin Paying /\ ~d.row.cancel
      /\ \/ /\ SamePending(d.row, y.row) /\ Pair(d.row) = Pair(y.row)
            /\ d.row.end = y.row.end /\ y.row.status = "trialing"
         \/ NonePending(d.row) /\ d.row.end = s.trialEnd
  BY <1>2, <1>4, DeferredFields
<1>6. Sound(d)
  <2>1. s \in Answers(y.trial.ends)
    BY <1>2 DEF Alone
  <2>2. QED
    BY <1>2, <1>4, <2>1, DeferredKept DEF AllKept, Kept
<1>7. /\ Alone(x, d) /\ x.row.end = d.row.end /\ x.row.status = d.row.status
      /\ IF s.cancel THEN Ending(x.row, s.trialEnd) ELSE SamePending(x.row, d.row)
  BY <1>3, <1>4, <1>6, CancelTooFields
<1>8. x.row.trialEnd = d.row.trialEnd
  <2>1. CASE s.cancel
    BY <1>4, <1>6, <2>1, CancellationFields DEF CancelToo
  <2>2. CASE ~s.cancel
    BY <1>4, <2>2 DEF CancelToo
  <2>3. QED
    BY <2>1, <2>2
<1>9. /\ x.plan = w.plan /\ x.trial = w.trial /\ Pair(x.row) = Pair(d.row)
      /\ w.row.status \notin Paying
      /\ y.row.status = "trialing" => w.row.status = "trialing"
      /\ Pair(y.row) = Pair(w.row)
  BY <1>2, <1>5, <1>7 DEF Alone, Pair, RecoveredStatus, Paying
<1>10. CASE s.cancel
  BY <1>2, <1>3, <1>5, <1>7, <1>8, <1>9, <1>10 DEF Ending, Leaves
<1>11. CASE ~s.cancel
  <2>1. SamePending(x.row, d.row)
    BY <1>7, <1>11
  <2>2. /\ NonePending(d.row) => NonePending(x.row)
        /\ SamePending(d.row, y.row) => SamePending(x.row, w.row)
        /\ ~x.row.cancel
    BY <1>2, <1>5, <2>1 DEF SamePending, NonePending
  <2>3. QED
    BY <1>2, <1>3, <1>5, <1>7, <1>8, <1>9, <1>11, <2>2 DEF Leaves
<1>12. QED
  BY <1>10, <1>11

LEMMA FailedAnswer ==
  ASSUME NEW w, Sound(w), NEW s \in Answers(w.trial.ends), NEW now,
         s.status = "past_due", NEW x \in Reconcile(w, s, now)
  PROVE  /\ Alone(x, w) /\ SamePending(x.row, w.row) /\ x.row.end = w.row.end
         /\ w.row.status \in Paying /\ x.row.status = "past_due"
<1>1. PICK y : y = WithIds(w, s)
  OBVIOUS
<1>2. /\ Sound(y) /\ Alone(y, w) /\ SamePending(y.row, w.row) /\ y.row.end = w.row.end
      /\ y.row.status = w.row.status
  BY <1>1, WithIdsKept, IdsFields DEF Kept
<1>3. x \in MarkPaymentFailure(y, now)
  BY <1>1 DEF Reconcile
<1>4. /\ Alone(x, y) /\ SamePending(x.row, y.row) /\ x.row.end = y.row.end
      /\ y.row.status \in Paying /\ x.row.status = "past_due"
  BY <1>2, <1>3, FailureFields
<1>5. QED
  BY <1>2, <1>4 DEF Alone, SamePending

LEMMA EndedAnswer ==
  ASSUME NEW w, Sound(w), NEW s \in Answers(w.trial.ends), NEW now,
         s.status = "canceled", NEW x \in Reconcile(w, s, now)
  PROVE  /\ Leaves(x, w) /\ x.trial = w.trial
         /\ \/ x.plan = w.plan /\ x.row.status = w.row.status
            \/ x.row.status \notin Live /\ x.plan = PlanUnlessTrial(w, "basic", now)
<1>1. PICK y : y = WithIds(w, s)
  OBVIOUS
<1>2. /\ Sound(y) /\ Alone(y, w) /\ SamePending(y.row, w.row) /\ y.row.status = w.row.status
  BY <1>1, WithIdsKept, IdsFields DEF Kept
<1>3. Leaves(y, w)
  BY <1>2 DEF Leaves, Alone, Pair
<1>4. x \in ReconcileEnded(y, s, now)
  BY <1>1 DEF Reconcile
<1>5. CASE s.cancel /\ s.end > now
  <2>1. x \in ScheduleCancellation(y, s.end)
    BY <1>4, <1>5 DEF ReconcileEnded
  <2>2. QED
    BY <1>2, <2>1, CancellationFields DEF Alone, Leaves, Ending
<1>6. CASE ~(s.cancel /\ s.end > now)
  <2>1. x = FinalizeSubscriptionEnd(y, now)
    BY <1>4, <1>6 DEF ReconcileEnded
  <2>2. /\ x.row.status \notin Live /\ Leaves(x, y) /\ x.trial = y.trial
        /\ x = y \/ x.plan = PlanUnlessTrial(y, "basic", now)
    BY <1>2, <2>1, FinalFields
  <2>3. y.plan = w.plan /\ PlanUnlessTrial(y, "basic", now) = PlanUnlessTrial(w, "basic", now)
    BY <1>2 DEF Alone, PlanUnlessTrial, TrialActive
  <2>4. QED
    BY <1>2, <1>3, <2>2, <2>3, LeavesAgain DEF Alone
<1>7. QED
  BY <1>5, <1>6

(* Whatever the answer, the workspace stays tidy, and what a row waits for *)
(* it has waited for before.                                               *)
LEMMA BasicPlus ==
  ASSUME NEW w, NEW now \in Nat, PlusIsPaid(w), Plain(w, now), NEW x,
         x.plan = PlanUnlessTrial(w, "basic", now), w.trial.ends \in Nat
  PROVE  PlusIsPaid(x)
BY DEF PlusIsPaid, Plain, PlanUnlessTrial, TrialActive

LEMMA AnswerTidies ==
  ASSUME NEW w, Sound(w), Tidy(w), "none" \notin Intervals, NEW now \in Nat, Plain(w, now),
         NEW s \in Answers(w.trial.ends), s.status = "active" => s.end # NoTime,
         NEW x \in Reconcile(w, s, now)
  PROVE  Leaves(x, w) /\ PlusIsPaid(x)
<1>1. s.status \in {"trialing", "active", "past_due", "canceled"}
  BY DEF Answers, Snapshots, Live
<1>2. TidyRow(w.row) /\ PlusIsPaid(w) /\ w.trial.ends \in Nat
  BY Known DEF Tidy
<1>3. RecoveredStatus(w.row) \in Paying <=> w.row.status \in Paying
  BY DEF RecoveredStatus, Paying
<1>4. CASE s.status = "active"
  <2>1. CASE Waited(x, w, s, now) \/ Ignored(x, w, s, now) \/ Shortened(x, w, s, now)
    <3>1. /\ Alone(x, w) /\ x.row.status = RecoveredStatus(w.row)
          /\ Ending(x.row, s.end) \/ SamePending(x.row, w.row)
      BY <2>1 DEF Waited, Ignored, Shortened, Noted
    <3>2. QED
      BY <1>2, <1>3, <1>4, <3>1 DEF Leaves, PlusIsPaid, Alone, Pair, Ending
  <2>2. CASE Adopted(x, w, s, now)
    BY <1>4, <2>2 DEF Adopted, Leaves, PlusIsPaid, Ending, Paying
  <2>3. QED
    BY <1>2, <1>4, <2>1, <2>2, ActiveAnswer
<1>5. CASE s.status = "trialing"
  BY <1>2, <1>5, TrialingAnswer DEF PlusIsPaid
<1>6. CASE s.status = "past_due"
  BY <1>6, FailedAnswer DEF PlusIsPaid, Alone, Leaves, Pair, Paying
<1>7. CASE s.status = "canceled"
  <2>1. /\ Leaves(x, w)
        /\ \/ x.plan = w.plan /\ x.row.status = w.row.status
           \/ x.plan = PlanUnlessTrial(w, "basic", now)
    BY <1>7, EndedAnswer
  <2>2. QED
    BY <1>2, <2>1, BasicPlus DEF PlusIsPaid
<1>8. QED
  BY <1>1, <1>4, <1>5, <1>6, <1>7

(* What the dates do: they end a row, start a deferred one, switch to the  *)
(* change that was waited for, or nothing.                                 *)
EndsRow(x, w, now) ==
  /\ x.row.status \notin Live
  /\ x = w \/ (x.row.status = "canceled" /\ NonePending(x.row) /\ x.plan = PlanUnlessTrial(w, "basic", now))
  /\ \/ GraceOver(w.row, now) \/ TrialOver(w.row, now)
     \/ w.row.cancel /\ PendingOver(w.row, now)
StartsRow(x, w, now) ==
  /\ TrialOver(w.row, now) /\ ~w.row.cancel
  /\ x.row.status = "active" /\ NonePending(x.row) /\ x.row.plan = w.row.plan
Switches(x, w, now) ==
  /\ Awaiting(w.row) /\ w.row.pendingAt <= now /\ w.row.status \in Paying
  /\ x.row.status = "active" /\ NonePending(x.row) /\ Pair(x.row) = Target(w.row)

LEMMA DueFields ==
  ASSUME NEW w, Sound(w), TidyRow(w.row), "none" \notin Intervals, NEW now \in Nat,
         NEW x, x = ApplyDueTransitions(w, now)
  PROVE  /\ Leaves(x, w)
         /\ x = w \/ EndsRow(x, w, now) \/ StartsRow(x, w, now) \/ Switches(x, w, now)
<1>1. /\ w \in Workspaces /\ w.row \in Rows /\ RowDated(w.row, w.trial.ends)
      /\ w.trial.ends \in Nat /\ w.row.pendingAt \in Nat
  BY Known, Dates
<1>2. CASE /\ x = FinalizeSubscriptionEnd(w, now)
           /\ \/ GraceOver(w.row, now)
              \/ TrialOver(w.row, now) /\ w.row.cancel
              \/ ~TrialOver(w.row, now) /\ w.row.cancel /\ PendingOver(w.row, now)
  BY <1>2, FinalFields DEF EndsRow
<1>3. CASE x = StartDeferred(w, now) /\ TrialOver(w.row, now) /\ ~w.row.cancel
  <2> DEFINE r == [NoPending(w.row) EXCEPT
               !.status = "active", !.plan = w.row.plan,
               !.end = IF w.row.end <= w.row.trialEnd THEN NoTime ELSE @,
               !.pendingInterval = w.row.pendingInterval]
  <2>1. w.row.plan \in PaidPlans
    BY <1>1, <1>3 DEF TrialOver, RowDated, Live
  <2>2. x.row = r
    BY <1>1, <1>3, <2>1 DEF StartDeferred, Workspaces
  <2>3. r.status = "active" /\ r.plan = w.row.plan /\ NonePending(r)
    BY <1>1 DEF NoPending, Rows, NonePending
  <2> HIDE DEF r
  <2>4. QED
    BY <1>3, <2>2, <2>3 DEF Leaves, StartsRow
<1>4. CASE /\ x = StartScheduled(w) /\ PendingOver(w.row, now) /\ ~w.row.cancel
           /\ w.row.pendingPlan \notin {"none", "basic"} /\ ~TrialOver(w.row, now)
  <2> DEFINE r == [NoPending(w.row) EXCEPT
               !.status = "active", !.plan = w.row.pendingPlan,
               !.interval = IF w.row.pendingInterval = "none" THEN @
                            ELSE w.row.pendingInterval]
  <2>1. Awaiting(w.row) /\ w.row.pendingAt <= now
    BY <1>1, <1>4 DEF Awaiting, PendingOver
  <2>2. w.row.pendingPlan \in PaidPlans /\ w.row.pendingInterval \in Intervals
    BY <2>1 DEF TidyRow
  <2>3. w.row.status \in Paying
    BY <1>1, <1>4, <2>1, <2>2 DEF RowDated, TrialOver, Live, Paying, PaidPlans, Awaiting
  <2>4. x.row = r
    BY <1>1, <1>4 DEF StartScheduled, Workspaces
  <2>5. /\ r.status = "active" /\ r.plan = w.row.pendingPlan /\ NonePending(r)
        /\ r.interval = w.row.pendingInterval
    BY <1>1, <2>2 DEF NoPending, Rows, NonePending
  <2> HIDE DEF r
  <2>6. QED
    BY <2>1, <2>3, <2>4, <2>5 DEF Leaves, Switches, Pair, Target
<1>5. CASE x = w
  BY <1>5 DEF Leaves, SamePending
<1>6. QED
  BY <1>2, <1>3, <1>4, <1>5 DEF ApplyDueTransitions

LEMMA DueTidies ==
  ASSUME NEW w, Sound(w), Tidy(w), "none" \notin Intervals, NEW now \in Nat, Plain(w, now),
         NEW x, x = ApplyDueTransitions(w, now)
  PROVE  Tidy(x) /\ Leaves(x, w)
<1>1. TidyRow(w.row) /\ PlusIsPaid(w) /\ w.trial.ends \in Nat
  BY Known DEF Tidy
<1>2. Leaves(x, w) /\ (x = w \/ EndsRow(x, w, now) \/ x.row.status = "active")
  BY <1>1, DueFields DEF StartsRow, Switches
<1>3. PlusIsPaid(x)
  BY <1>1, <1>2, BasicPlus DEF PlusIsPaid, EndsRow, Paying
<1>4. QED
  BY <1>1, <1>2, <1>3, TidyLeft DEF Tidy

LEMMA DueNothing ==
  ASSUME NEW w, NEW now, ~PendingOver(w.row, now), ~TrialOver(w.row, now), ~GraceOver(w.row, now)
  PROVE  ApplyDueTransitions(w, now) = w
BY DEF ApplyDueTransitions
-----------------------------------------------------------------------------
(* A row says what Stripe says of a subscription; and what one answer does *)
(* not suffice for: a deferred row whose cancellation is still to come, a  *)
(* plan that is raised or lowered before the rest is taken over.           *)
Matches(r, t) ==
  /\ r.status = t.status /\ Pair(r) = Pair(t) /\ r.cancel = t.cancel
  /\ r.cancel => r.pendingAt = t.end
Twice(w, t) ==
  \/ w.row.status = "trialing"
  \/ w.plan = "business" /\ t.plan = "plus" /\ t.cancel
  \/ w.plan = "plus" /\ t.plan = "business" /\ (w.row.interval # t.interval \/ t.cancel)

(* An answer that fits what the row waits for.                             *)
FitsWait(w, s) ==
  Awaiting(w.row) =>
    /\ s.end = w.row.pendingAt => Pair(s) = Pair(w.row) /\ w.row.status # "trialing"
    /\ s.end # w.row.pendingAt => Pair(s) = Target(w.row)

LEMMA ActiveAgrees ==
  ASSUME NEW w, Sound(w), Tidy(w), "none" \notin Intervals, NEW now \in Nat, Plain(w, now),
         NEW s \in Answers(w.trial.ends), s.status = "active", now >= w.trial.ends, s.end > now,
         FitsWait(w, s), NEW x \in Reconcile(w, s, now)
  PROVE  /\ x.row.status = "active" /\ x.row.plan = s.plan /\ x.plan = s.plan
         /\ Matches(x.row, s) \/ Twice(w, s)
         /\ ApplyDueTransitions(x, now) = x
<1>1. /\ s.end \in Nat /\ w.trial.ends \in Nat /\ TidyRow(w.row)
      /\ w \in Workspaces /\ w.row \in Rows /\ RowDated(w.row, w.trial.ends)
      /\ w.row.pendingAt \in Nat
  BY Answered, Known, Dates DEF Tidy
<1>2. s.end # NoTime
  BY <1>1 DEF NoTime
<1>3. \/ Waited(x, w, s, now) \/ Ignored(x, w, s, now)
      \/ Shortened(x, w, s, now) \/ Adopted(x, w, s, now)
  BY <1>1, <1>2, ActiveAnswer
<1>4. ASSUME x.row.status = "active", x.row.cancel => x.row.pendingAt = s.end,
             ~x.row.cancel => x.row.pendingAt \in {NoTime, s.end}
      PROVE  ApplyDueTransitions(x, now) = x
  <2>1. x.row.pendingAt \in {NoTime, s.end} /\ ~PendingOver(x.row, now)
    BY <1>1, <1>4 DEF PendingOver
  <2>2. QED
    BY <1>4, <2>1, DueNothing DEF TrialOver, GraceOver
<1>5. CASE Waited(x, w, s, now)
  <2>1. /\ Awaiting(w.row) /\ Pair(s) = Pair(w.row) /\ Alone(x, w)
        /\ x.row.status = RecoveredStatus(w.row) /\ Noted(x, s, w)
    BY <1>5 DEF Waited
  <2>2. s.end = w.row.pendingAt /\ w.row.status # "trialing"
    BY <1>1, <2>1 DEF FitsWait, TidyRow
  <2>3. w.row.status \in Paying
    BY <1>1, <2>1, <2>2 DEF TidyRow, RowDated, Live, Paying, PaidPlans
  <2>4. x.row.status = "active" /\ x.plan = w.row.plan
    BY <2>1, <2>3 DEF RecoveredStatus, Paying, Plain, Alone
  <2>5. /\ x.row.cancel <=> s.cancel
        /\ x.row.pendingAt = s.end
    <3>1. CASE s.cancel
      BY <2>1, <3>1 DEF Noted, Ending
    <3>2. CASE ~s.cancel
      BY <2>1, <2>2, <3>2 DEF Noted, SamePending, Awaiting
    <3>3. QED
      BY <3>1, <3>2
  <2>6. x.row.plan = s.plan /\ x.row.interval = s.interval /\ w.row.plan = s.plan
    BY <2>1 DEF Alone, Pair
  <2>7. x.row.cancel \in BOOLEAN /\ s.cancel \in BOOLEAN
    <3>1. Sound(x)
      BY ReconcileKept DEF AllKept, Kept
    <3>2. QED
      BY <3>1, Known DEF Rows, Answers, Snapshots
  <2>8. QED
    BY <1>4, <2>4, <2>5, <2>6, <2>7 DEF Matches, Pair
<1>6. CASE Ignored(x, w, s, now)
  BY <1>6 DEF Ignored, FitsWait
<1>7. CASE Shortened(x, w, s, now)
  BY <1>7 DEF Shortened
<1>8. CASE Adopted(x, w, s, now)
  <2>1. /\ x.row.status = "active" /\ x.row.plan = s.plan
        /\ x.plan = s.plan \/ x.plan = PlanUnlessTrial(w, s.plan, now)
    BY <1>8 DEF Adopted
  <2>2. x.plan = s.plan
    BY <1>1, <2>1 DEF PlanUnlessTrial, TrialActive
  <2>3. /\ \/ x.row.interval = s.interval
           \/ w.plan = "plus" /\ s.plan = "business" /\ x.row.interval = w.row.interval
        /\ \/ s.cancel /\ Ending(x.row, s.end)
           \/ NonePending(x.row) /\ (s.cancel => w.plan # s.plan /\ w.plan \in PaidPlans)
    BY <1>8 DEF Adopted
  <2>4. s.plan \in PaidPlans
    BY DEF Answers, Snapshots
  <2>5. x.row.cancel \in BOOLEAN /\ s.cancel \in BOOLEAN
    <3>1. Sound(x)
      BY ReconcileKept DEF AllKept, Kept
    <3>2. QED
      BY <3>1, Known DEF Rows, Answers, Snapshots
  <2>6. Matches(x.row, s) \/ Twice(w, s)
    BY <1>8, <2>1, <2>3, <2>4, <2>5 DEF Matches, Twice, Pair, Ending, NonePending, PaidPlans
  <2>7. ApplyDueTransitions(x, now) = x
    BY <1>4, <2>1, <2>3 DEF Ending, NonePending
  <2>8. QED
    BY <2>1, <2>2, <2>6, <2>7
<1>9. QED
  BY <1>3, <1>5, <1>6, <1>7, <1>8

LEMMA TrialAgrees ==
  ASSUME NEW w, Sound(w), TidyRow(w.row), NEW now \in Nat, now < w.trial.ends,
         w.row.pendingPlan \notin PaidPlans,
         NEW s \in Answers(w.trial.ends), s.status = "trialing", ~s.cancel,
         NEW x \in Reconcile(w, s, now)
  PROVE  Matches(x.row, s) /\ ApplyDueTransitions(x, now) = x
<1>1. /\ x.row.status = "trialing" /\ Pair(x.row) = Pair(s) /\ ~x.row.cancel
      /\ x.row.trialEnd = w.trial.ends /\ Leaves(x, w)
  BY TrialingAnswer
<1>2. ~Awaiting(w.row)
  BY DEF TidyRow
<1>3. x.row.pendingAt = NoTime
  BY <1>1, <1>2, TidyLeft DEF Awaiting
<1>4. w.trial.ends \in Nat
  BY Known
<1>5. ApplyDueTransitions(x, now) = x
  BY <1>1, <1>3, <1>4, DueNothing DEF PendingOver, TrialOver, GraceOver
<1>6. s.cancel \in BOOLEAN /\ x.row.cancel \in BOOLEAN
  <2>1. Sound(x)
    BY ReconcileKept DEF AllKept, Kept
  <2>2. QED
    BY <2>1, Known DEF Rows, Answers, Snapshots
<1>7. QED
  BY <1>1, <1>5, <1>6 DEF Matches
-----------------------------------------------------------------------------
(* A workspace in accord with a subscription at Stripe: it agrees with it, *)
(* or the reports that are still to be applied bring it there.             *)

(* What is reported of a subscription and still to be applied: the slots   *)
(* of events and their kinds.                                              *)
Reports == {"checkout", "paid", "subscription"}
Has(K, kinds) == \E k \in K : k.kind \in kinds
HasTwo(K) == \E j, k \in K : j # k /\ j.kind \in Reports /\ k.kind \in Reports

(* A workspace w agrees with the subscription t or will when what is still *)
(* to be applied has been.                                                 *)
ActiveAccord(w, t, K) ==
  /\ Matches(w.row, t) \/ Has(K, Reports)
  /\ Twice(w, t) => HasTwo(K)
PastDueAccord(w, K, now) ==
  /\ w.row.status \in {"past_due", "canceled"} \/ K # {}
  /\ Awaiting(w.row) /\ w.row.pendingAt <= now =>
       Has(K, {"failed"}) /\ Has(K, {"subscription"})
  /\ w.row.status \in Live /\ w.row.cancel /\ w.row.pendingAt <= now =>
       Has(K, {"failed", "subscription"})
Accord(w, t, K, now) ==
  /\ t.status = "active" => ActiveAccord(w, t, K)
  /\ t.status = "trialing" => Matches(w.row, t) \/ Has(K, Reports)
  /\ t.status = "past_due" => PastDueAccord(w, K, now)

LEMMA HasMore ==
  ASSUME NEW K, NEW L, K \subseteq L, NEW kinds, Has(K, kinds)
  PROVE  Has(L, kinds)
BY DEF Has
LEMMA TwoMore ==
  ASSUME NEW K, NEW L, K \subseteq L, HasTwo(K)
  PROVE  HasTwo(L)
BY DEF HasTwo
LEMMA TwoAreOne ==
  ASSUME NEW K, HasTwo(K)
  PROVE  Has(K, Reports) /\ K # {}
BY DEF HasTwo, Has
LEMMA OneMore ==
  ASSUME NEW K, NEW L, K \subseteq L, Has(K, Reports),
         NEW j \in L, j \notin K, j.kind \in Reports
  PROVE  HasTwo(L)
BY DEF HasTwo, Has

LEMMA AccordMore ==
  ASSUME NEW w, NEW t, NEW K, NEW now, Accord(w, t, K, now), NEW L, K \subseteq L
  PROVE  Accord(w, t, L, now)
<1>1. /\ Has(K, Reports) => Has(L, Reports)
      /\ Has(K, {"failed"}) => Has(L, {"failed"})
      /\ Has(K, {"subscription"}) => Has(L, {"subscription"})
      /\ Has(K, {"failed", "subscription"}) => Has(L, {"failed", "subscription"})
      /\ HasTwo(K) => HasTwo(L) /\ (K # {} => L # {})
  BY HasMore, TwoMore
<1>2. QED
  BY <1>1 DEF Accord, ActiveAccord, PastDueAccord

(* Reported events enough for whatever becomes of the row.                 *)
LEMMA AccordEnough ==
  ASSUME NEW x, NEW t, NEW L, NEW now,
         t.status = "active" => HasTwo(L),
         t.status = "trialing" => Has(L, Reports),
         t.status = "past_due" => Has(L, {"failed"}) /\ Has(L, {"subscription"})
  PROVE  Accord(x, t, L, now)
<1>1. HasTwo(L) => Has(L, Reports)
  BY TwoAreOne
<1>2. Has(L, {"subscription"}) => Has(L, {"failed", "subscription"}) /\ L # {}
  BY DEF Has
<1>3. QED
  BY <1>1, <1>2 DEF Accord, ActiveAccord, PastDueAccord

(* A row that is paid and matches is not one that an answer does not       *)
(* suffice for.                                                            *)
LEMMA MatchedOnce ==
  ASSUME NEW w, NEW t, NEW now, Plain(w, now), Matches(w.row, t), t.status = "active"
  PROVE  w.plan = t.plan /\ w.row.interval = t.interval /\ ~Twice(w, t)
BY DEF Plain, Matches, Twice, Pair, Paying

(* A workspace that keeps its plan, its row's plan and its status.         *)
LEMMA AccordWritten ==
  ASSUME NEW w, NEW x, NEW t, NEW K, NEW now, Accord(w, t, K, now),
         Alone(x, w), x.row.status = w.row.status,
         Matches(w.row, t) => Matches(x.row, t) \/ Has(K, Reports),
         t.status = "past_due" /\ Awaiting(x.row) /\ x.row.pendingAt <= now =>
           \/ Awaiting(w.row) /\ x.row.pendingAt = w.row.pendingAt
           \/ Has(K, {"failed"}) /\ Has(K, {"subscription"}),
         t.status = "past_due" /\ x.row.cancel /\ x.row.pendingAt <= now =>
           \/ w.row.cancel /\ x.row.pendingAt = w.row.pendingAt
           \/ Has(K, {"failed", "subscription"})
  PROVE  Accord(x, t, K, now)
<1>1. Twice(x, t) <=> Twice(w, t)
  BY DEF Alone, Twice
<1>2. ASSUME t.status = "past_due"
      PROVE  PastDueAccord(x, K, now)
  BY <1>2 DEF Accord, PastDueAccord
<1>3. QED
  BY <1>1, <1>2 DEF Accord, ActiveAccord

LEMMA AccordAlone ==
  ASSUME NEW w, NEW x, NEW t, NEW K, NEW now, Accord(w, t, K, now),
         Alone(x, w), x.row.status = w.row.status, SamePending(x.row, w.row)
  PROVE  Accord(x, t, K, now)
<1>1. Matches(w.row, t) => Matches(x.row, t)
  BY DEF Alone, Matches, Pair, SamePending
<1>2. x.row.pendingAt = w.row.pendingAt /\ (x.row.cancel <=> w.row.cancel)
  BY DEF SamePending
<1>3. Awaiting(x.row) => Awaiting(w.row)
  BY <1>2 DEF Awaiting
<1>4. QED
  BY <1>1, <1>2, <1>3, AccordWritten

(* A payment that was missed has been made, as far as the row knows.       *)
LEMMA AccordRecovered ==
  ASSUME NEW w, NEW x, NEW t, NEW K, NEW now, Accord(w, t, K, now),
         Alone(x, w), SamePending(x.row, w.row),
         w.row.status = "past_due", x.row.status = "active",
         t.status = "past_due" => K # {}
  PROVE  Accord(x, t, K, now)
<1>1. Twice(x, t) => Twice(w, t)
  BY DEF Alone, Twice
<1>2. t.status # "past_due" => ~Matches(w.row, t)
  BY DEF Matches
<1>3. ASSUME t.status = "past_due"
      PROVE  PastDueAccord(x, K, now)
  <2>1. x.row.pendingAt = w.row.pendingAt /\ (x.row.cancel <=> w.row.cancel)
    BY DEF SamePending
  <2>2. Awaiting(x.row) => Awaiting(w.row)
    BY <2>1 DEF Awaiting
  <2>3. QED
    BY <1>3, <2>1, <2>2 DEF Accord, PastDueAccord, Live
<1>4. QED
  BY <1>1, <1>2, <1>3 DEF Accord, ActiveAccord

LEMMA AccordExpired ==
  ASSUME NEW w, NEW x, NEW t, NEW K, NEW now, Accord(w, t, K, now), Plain(w, now),
         x.row = w.row, x.plan = w.plan \/ x.plan = "basic"
  PROVE  Accord(x, t, K, now)
<1>1. Twice(x, t) => Twice(w, t)
  BY DEF Twice
<1>2. QED
  BY <1>1 DEF Accord, ActiveAccord, PastDueAccord

(* Stripe, told to end the subscription, to go on or to change it when the *)
(* period ends, reports it; the row may have been told, too.               *)
LEMMA AccordTold ==
  ASSUME NEW w, NEW now, Plain(w, now), NEW t, NEW K, Accord(w, t, K, now),
         NEW q, q.status = t.status, Pair(q) = Pair(t),
         NEW L, K \subseteq L, NEW j \in L, j \notin K, j.kind = "subscription",
         NEW x, Alone(x, w), x.row.status = w.row.status,
         Awaiting(x.row) => Awaiting(w.row) /\ x.row.pendingAt = w.row.pendingAt
  PROVE  Accord(x, q, L, now)
<1>1. /\ Has(L, Reports) /\ Has(L, {"failed", "subscription"})
      /\ Has(L, {"subscription"}) /\ L # {}
  BY DEF Has, Reports
<1>2. ASSUME t.status = "active", Twice(x, q)
      PROVE  HasTwo(L)
  <2>1. q.plan = t.plan /\ q.interval = t.interval
    BY DEF Pair
  <2>2. CASE Matches(w.row, t)
    BY <1>2, <2>1, <2>2, MatchedOnce DEF Twice, Alone, Matches
  <2>3. CASE Has(K, Reports)
    BY <2>3, OneMore DEF Reports
  <2>4. QED
    BY <1>2, <2>2, <2>3 DEF Accord, ActiveAccord
<1>3. ASSUME t.status = "past_due"
      PROVE  PastDueAccord(x, L, now)
  <2>1. Has(K, {"failed"}) => Has(L, {"failed"})
    BY HasMore
  <2>2. QED
    BY <1>1, <1>3, <2>1 DEF Accord, PastDueAccord
<1>4. QED
  BY <1>1, <1>2, <1>3 DEF Accord, ActiveAccord

(* Two reports are enough for a plan that is changed at once.              *)
LEMMA AccordPaid ==
  ASSUME NEW w, NEW t, NEW K, NEW now, Accord(w, t, K, now),
         NEW q, q.status = t.status, NEW L, K \subseteq L, HasTwo(L)
  PROVE  Accord(w, q, L, now)
<1>1. Accord(w, t, L, now) /\ Has(L, Reports)
  BY AccordMore, TwoAreOne
<1>2. QED
  BY <1>1 DEF Accord, ActiveAccord

LEMMA AccordSubscribed ==
  ASSUME NEW w, PlusIsPaid(w), w.row.status \notin Live, NEW now,
         NEW q, q.status \in {"trialing", "active"}, ~q.cancel, NEW L, Has(L, Reports)
  PROVE  Accord(w, q, L, now)
BY DEF PlusIsPaid, Accord, ActiveAccord, Twice, Live, Paying

(* The answer of an active subscription, taken in.                         *)
LEMMA AccordActive ==
  ASSUME NEW w, Sound(w), Tidy(w), "none" \notin Intervals, NEW now \in Nat, Plain(w, now),
         NEW t, t.status = "active", NEW K, Accord(w, t, K, now), NEW L,
         HasTwo(K) => Has(L, Reports),
         NEW s \in Answers(w.trial.ends), s.status = "active", now >= w.trial.ends, s.end > now,
         FitsWait(w, s), Pair(s) = Pair(t), s.end = t.end,
         s.cancel = t.cancel \/ Has(L, Reports),
         NEW x \in Reconcile(w, s, now), NEW y, y = x \/ y = ApplyDueTransitions(x, now)
  PROVE  Accord(y, t, L, now)
<1>1. /\ x.row.status = "active" /\ x.row.plan = s.plan /\ x.plan = s.plan
      /\ Matches(x.row, s) \/ Twice(w, s)
      /\ y = x
  BY ActiveAgrees
<1>2. s.plan = t.plan /\ s.interval = t.interval
  BY DEF Pair
<1>3. ~Twice(x, t)
  BY <1>1, <1>2 DEF Twice
<1>4. Matches(x.row, t) \/ Has(L, Reports)
  <2>1. SUFFICES ASSUME s.cancel = t.cancel
                 PROVE  Matches(x.row, t) \/ Has(L, Reports)
    OBVIOUS
  <2>2. CASE Matches(x.row, s)
    BY <1>1, <1>2, <2>1, <2>2 DEF Matches
  <2>3. CASE Twice(w, s)
    BY <1>2, <2>1, <2>3 DEF Twice, Accord, ActiveAccord
  <2>4. QED
    BY <1>1, <2>2, <2>3
<1>5. QED
  BY <1>1, <1>3, <1>4 DEF Accord, ActiveAccord

LEMMA AccordTrial ==
  ASSUME NEW w, Sound(w), TidyRow(w.row), NEW now \in Nat, now < w.trial.ends,
         w.row.pendingPlan \notin PaidPlans,
         NEW t, t.status = "trialing", NEW L,
         NEW s \in Answers(w.trial.ends), s.status = "trialing", ~s.cancel,
         Has(L, Reports) \/ (Pair(s) = Pair(t) /\ s.cancel = t.cancel /\ s.end = t.end),
         NEW x \in Reconcile(w, s, now), NEW y, y = x \/ y = ApplyDueTransitions(x, now)
  PROVE  Accord(y, t, L, now)
<1>1. Matches(x.row, s) /\ y = x
  BY TrialAgrees
<1>2. Has(L, Reports) \/ Matches(x.row, t)
  BY <1>1 DEF Matches
<1>3. QED
  BY <1>1, <1>2 DEF Accord

(* The dates leave nothing pending that is due.                            *)
LEMMA DueIsPast ==
  ASSUME NEW w, Sound(w), TidyRow(w.row), w.row.status = "past_due", NEW now \in Nat,
         "none" \notin Intervals, NEW x, x = ApplyDueTransitions(w, now)
  PROVE  \/ x = w /\ ~PendingOver(w.row, now)
         \/ x.row.status = "canceled" /\ NonePending(x.row)
         \/ Switches(x, w, now)
<1>1. x = w \/ EndsRow(x, w, now) \/ StartsRow(x, w, now) \/ Switches(x, w, now)
  BY DueFields
<1>2. ~StartsRow(x, w, now)
  BY DEF StartsRow, TrialOver
<1>3. EndsRow(x, w, now) => x.row.status = "canceled" /\ NonePending(x.row)
  BY DEF EndsRow, Live
<1>4. ASSUME PendingOver(w.row, now)
      PROVE  x.row.status # "past_due"
  <2>1. CASE w.row.cancel \/ GraceOver(w.row, now)
    <3>1. x = FinalizeSubscriptionEnd(w, now)
      BY <1>4, <2>1 DEF ApplyDueTransitions, TrialOver
    <3>2. QED
      BY <3>1, FinalFields DEF Live
  <2>2. CASE ~w.row.cancel /\ ~GraceOver(w.row, now)
    <3>1. w.row.pendingPlan \in PaidPlans
      BY <1>4, <2>2 DEF TidyRow, Awaiting, PendingOver
    <3>2. x = StartScheduled(w)
      BY <1>4, <2>2, <3>1 DEF ApplyDueTransitions, TrialOver, PaidPlans
    <3>3. w \in Workspaces /\ w.row \in Rows
      BY Known
    <3> DEFINE r == [NoPending(w.row) EXCEPT
                 !.status = "active", !.plan = w.row.pendingPlan,
                 !.interval = IF w.row.pendingInterval = "none" THEN @
                              ELSE w.row.pendingInterval]
    <3>4. x.row = r
      BY <3>2, <3>3 DEF StartScheduled, Workspaces
    <3>5. r.status = "active"
      BY <3>3 DEF NoPending, Rows
    <3> HIDE DEF r
    <3>6. QED
      BY <3>4, <3>5
  <2>3. QED
    BY <2>1, <2>2
<1>5. QED
  BY <1>1, <1>2, <1>3, <1>4

(* A payment that failed, and what the dates make of the row then.         *)
LEMMA AccordFailed ==
  ASSUME NEW w, Sound(w), TidyRow(w.row), NEW now \in Nat, "none" \notin Intervals,
         NEW t, t.status = "past_due", NEW K, NEW L, Accord(w, t, K, now),
         NEW x, Sound(x), Alone(x, w), SamePending(x.row, w.row),
         w.row.status \in Paying, x.row.status = "past_due",
         NEW y,
         \/ /\ y = x
            /\ Has(K, {"failed"}) => Has(L, {"failed"})
            /\ Has(K, {"subscription"}) => Has(L, {"subscription"})
         \/ /\ y = ApplyDueTransitions(x, now)
            /\ Has(K, {"failed"}) /\ Has(K, {"subscription"}) => L # {}
  PROVE  Accord(y, t, L, now)
<1>1. /\ Awaiting(x.row) <=> Awaiting(w.row)
      /\ x.row.pendingAt = w.row.pendingAt /\ x.row.cancel = w.row.cancel
      /\ PastDueAccord(w, K, now) /\ w.row.status \in Live
      /\ x.row.pendingAt \in Nat
  BY Known, Dates DEF SamePending, Awaiting, Accord, Paying, Live
<1>2. CASE /\ y = x
           /\ Has(K, {"failed"}) => Has(L, {"failed"})
           /\ Has(K, {"subscription"}) => Has(L, {"subscription"})
  <2>1. Has(K, {"failed", "subscription"}) => Has(L, {"failed", "subscription"})
    BY <1>2 DEF Has
  <2>2. QED
    BY <1>1, <1>2, <2>1 DEF Accord, PastDueAccord
<1>3. CASE /\ y = ApplyDueTransitions(x, now)
           /\ Has(K, {"failed"}) /\ Has(K, {"subscription"}) => L # {}
  <2>1. TidyRow(x.row)
    BY TidyLeft DEF Leaves, Alone, Pair
  <2>2. CASE y = x /\ ~PendingOver(x.row, now)
    <3>1. ~(x.row.pendingAt # NoTime /\ x.row.pendingAt <= now)
      BY <1>1, <2>2 DEF PendingOver
    <3>2. ~(Awaiting(x.row) /\ x.row.pendingAt <= now)
      BY <3>1 DEF Awaiting
    <3>3. ~(x.row.cancel /\ x.row.pendingAt <= now)
      <4>1. x.row.cancel => x.row.pendingAt # NoTime
        BY <2>1 DEF TidyRow
      <4>2. QED
        BY <3>1, <4>1
    <3>4. QED
      BY <2>2, <3>2, <3>3 DEF Accord, PastDueAccord
  <2>3. CASE y.row.status = "canceled" /\ NonePending(y.row)
    BY <2>3 DEF Accord, PastDueAccord, NonePending, Awaiting, Live
  <2>4. CASE Switches(y, x, now)
    <3>1. L # {}
      BY <1>1, <1>3, <2>4 DEF Switches, PastDueAccord
    <3>2. QED
      BY <2>4, <3>1 DEF Accord, PastDueAccord, NonePending, Awaiting, Switches
  <2>5. QED
    BY <1>3, <2>1, <2>2, <2>3, <2>4, DueIsPast
<1>4. QED
  BY <1>2, <1>3

(* The dates that come, while Stripe stays as it is.                       *)
LEMMA AccordDue ==
  ASSUME NEW w, Sound(w), Tidy(w), "none" \notin Intervals, NEW now \in Nat, Plain(w, now),
         NEW t, t.end > now, t.end \in Nat, NEW K, Accord(w, t, K, now),
         t.status = "active" =>
           /\ now >= w.trial.ends
           /\ Awaiting(w.row) /\ w.row.pendingAt <= now =>
                Pair(t) = Target(w.row) \/ HasTwo(K),
         t.status = "trialing" => now < w.trial.ends /\ w.row.pendingPlan \notin PaidPlans,
         NEW x, x = ApplyDueTransitions(w, now)
  PROVE  Accord(x, t, K, now)
<1>1. /\ TidyRow(w.row) /\ w.trial.ends \in Nat /\ w.row.pendingAt \in Nat
      /\ w \in Workspaces /\ w.row \in Rows /\ RowDated(w.row, w.trial.ends)
      /\ w.row.trialEnd \in Nat
  BY Known, Dates DEF Tidy
<1>2. x = w \/ EndsRow(x, w, now) \/ StartsRow(x, w, now) \/ Switches(x, w, now)
  BY <1>1, DueFields
<1>3. CASE x = w
  BY <1>3
<1>4. CASE t.status = "past_due"
  <2>1. CASE EndsRow(x, w, now) /\ x # w
    BY <1>4, <2>1 DEF Accord, PastDueAccord, EndsRow, NonePending, Awaiting
  <2>2. CASE StartsRow(x, w, now)
    <3>1. K # {}
      BY <1>4, <2>2 DEF StartsRow, TrialOver, Accord, PastDueAccord
    <3>2. QED
      BY <1>4, <2>2, <3>1 DEF Accord, PastDueAccord, StartsRow, NonePending, Awaiting
  <2>3. CASE Switches(x, w, now)
    <3>1. K # {}
      BY <1>4, <2>3 DEF Switches, Accord, PastDueAccord, Has
    <3>2. QED
      BY <1>4, <2>3, <3>1 DEF Accord, PastDueAccord, Switches, NonePending, Awaiting
  <2>4. QED
    BY <1>2, <1>3, <2>1, <2>2, <2>3
<1>5. CASE t.status = "trialing" /\ x # w
  <2>1. w.row.status = "trialing" => ~TrialOver(w.row, now)
    BY <1>1, <1>5 DEF TrialOver, RowDated
  <2>2. ~Awaiting(w.row)
    BY <1>1, <1>5 DEF TidyRow
  <2>3. ~Matches(w.row, t)
    <3>1. SUFFICES ASSUME Matches(w.row, t)
                   PROVE  FALSE
      OBVIOUS
    <3>2. w.row.status = "trialing" /\ (w.row.cancel => w.row.pendingAt = t.end)
      BY <1>5, <3>1 DEF Matches
    <3>3. EndsRow(x, w, now)
      BY <1>2, <1>5, <2>1, <2>2, <3>2 DEF StartsRow, Switches
    <3>4. QED
      BY <1>1, <2>1, <3>2, <3>3 DEF EndsRow, GraceOver, PendingOver
  <2>4. QED
    BY <1>5, <2>3 DEF Accord
<1>6. CASE t.status = "active" /\ x # w
  <2>1. Plain(x, now) /\ (x.plan = "plus" => x.row.status \in Paying)
    BY DueTidies, DueTaken DEF Tidy, PlusIsPaid
  <2>2. CASE EndsRow(x, w, now)
    <3>1. ~Matches(w.row, t)
      BY <1>1, <1>6, <2>2 DEF EndsRow, GraceOver, TrialOver, PendingOver, Matches
    <3>2. x.plan = "basic" /\ x.row.status = "canceled"
      BY <1>1, <1>6, <2>2 DEF EndsRow, PlanUnlessTrial, TrialActive
    <3>3. QED
      BY <1>6, <3>1, <3>2 DEF Accord, ActiveAccord, Twice
  <2>3. CASE StartsRow(x, w, now)
    <3>1. HasTwo(K)
      BY <1>6, <2>3 DEF StartsRow, TrialOver, Twice, Accord, ActiveAccord
    <3>2. QED
      BY <1>6, <3>1, AccordEnough
  <2>4. CASE Switches(x, w, now)
    <3>1. CASE HasTwo(K)
      BY <1>6, <3>1, AccordEnough
    <3>2. CASE Pair(t) = Target(w.row)
      <4>1. Target(w.row) # Pair(w.row)
        BY <1>1, <2>4 DEF TidyRow, Switches
      <4>2. Has(K, Reports)
        BY <1>6, <3>2, <4>1 DEF Accord, ActiveAccord, Matches
      <4>3. /\ Pair(x.row) = Pair(t) /\ x.row.status = "active"
            /\ x.plan = x.row.plan
        BY <2>1, <2>4, <3>2 DEF Switches, Plain, Paying
      <4>4. x.row.plan = t.plan /\ x.row.interval = t.interval
        BY <4>3 DEF Pair
      <4>5. QED
        BY <1>6, <4>2, <4>3, <4>4 DEF Accord, ActiveAccord, Twice
    <3>3. QED
      BY <1>6, <2>4, <3>1, <3>2 DEF Switches
  <2>5. QED
    BY <1>2, <1>6, <2>2, <2>3, <2>4
<1>7. QED
  BY <1>3, <1>4, <1>5, <1>6 DEF Accord

(* A row that is to end, or is over, stays so when nothing is left to be   *)
(* applied but the answer that says what Stripe says.                      *)
Going(w) == w.row.status \in Live /\ ~w.row.cancel
LEMMA AnswerStops ==
  ASSUME NEW w, Sound(w), Tidy(w), "none" \notin Intervals, NEW now \in Nat, Plain(w, now),
         NEW t, t.end > now, t.status \in Live, Accord(w, t, {}, now), ~Going(w),
         NEW s \in Answers(w.trial.ends), s.status = t.status, Pair(s) = Pair(t),
         s.end = t.end, s.cancel = t.cancel,
         s.status = "active" => now >= w.trial.ends /\ FitsWait(w, s),
         s.status = "trialing" => ~s.cancel,
         NEW x \in Reconcile(w, s, now)
  PROVE  ~Going(x)
<1>1. ~Has({}, Reports) /\ ~HasTwo({})
  BY DEF Has, HasTwo
<1>2. CASE s.status = "active"
  <2>1. Matches(w.row, t) /\ ~Twice(w, t)
    BY <1>1, <1>2 DEF Accord, ActiveAccord
  <2>2. t.cancel
    BY <1>2, <2>1 DEF Matches, Going, Live
  <2>3. s.plan = t.plan /\ s.interval = t.interval
    BY DEF Pair
  <2>4. ~Twice(w, s)
    BY <2>1, <2>3 DEF Twice
  <2>5. Matches(x.row, s)
    BY <1>2, <2>4, ActiveAgrees
  <2>6. QED
    BY <2>2, <2>5 DEF Matches, Going
<1>3. CASE s.status = "trialing"
  BY <1>1, <1>3 DEF Accord, Matches, Going, Live
<1>4. CASE s.status = "past_due"
  BY <1>4, FailedAnswer DEF Going, SamePending, Paying, Live
<1>5. QED
  BY <1>2, <1>3, <1>4 DEF Live

(* What an answer s leaves of the dates of a row: what was pending, or the *)
(* end of what was answered for; and a deferred row ends with the free     *)
(* week, or when it did.                                                   *)
MovesBy(x, w, s) ==
  /\ Leaves(x, w)
  /\ x.row.status \in Live =>
       \/ x.row.pendingAt = NoTime
       \/ w.row.status \in Live /\ x.row.pendingAt = w.row.pendingAt
       \/ s.status = "active" /\ x.row.pendingAt = s.end
       \/ s.status = "trialing" /\ s.cancel /\ x.row.pendingAt = w.trial.ends
  /\ x.row.status = "trialing" =>
       \/ w.row.status = "trialing" /\ x.row.end = w.row.end
       \/ x.row.end = w.trial.ends /\ ~Awaiting(x.row)

LEMMA AwaitsLive ==
  ASSUME NEW w, Sound(w), TidyRow(w.row), Awaiting(w.row)
  PROVE  w.row.status \in Live
BY DEF Sound, RowDated, TidyRow, PaidPlans

LEMMA AnswerMoves ==
  ASSUME NEW w, Sound(w), Tidy(w), "none" \notin Intervals, NEW now \in Nat, Plain(w, now),
         NEW s \in Answers(w.trial.ends), s.status \in Live,
         s.status = "active" => s.end # NoTime /\ (w.row.status = "trialing" => FitsWait(w, s)),
         NEW x \in Reconcile(w, s, now)
  PROVE  MovesBy(x, w, s)
<1>1. Leaves(x, w) /\ TidyRow(w.row)
  BY AnswerTidies DEF Tidy
<1>2. CASE s.status = "active"
  <2>1. CASE Waited(x, w, s, now)
    <3>1. w.row.status \in Live /\ Target(w.row) # Pair(w.row)
      BY <1>1, <2>1, AwaitsLive DEF Waited, TidyRow
    <3>2. x.row.status # "trialing"
      BY <1>2, <2>1, <3>1 DEF Waited, RecoveredStatus, FitsWait
    <3>3. x.row.pendingAt \in {s.end, w.row.pendingAt}
      BY <2>1 DEF Waited, Noted, Ending, SamePending
    <3>4. QED
      BY <1>1, <1>2, <3>1, <3>2, <3>3 DEF MovesBy
  <2>2. CASE Ignored(x, w, s, now)
    <3>1. w.row.status \in Live /\ x.row.pendingAt = w.row.pendingAt
      BY <1>1, <2>2, AwaitsLive DEF Ignored, SamePending
    <3>2. x.row.end = w.row.end /\ (x.row.status = "trialing" => w.row.status = "trialing")
      BY <2>2 DEF Ignored, RecoveredStatus
    <3>3. QED
      BY <1>1, <3>1, <3>2 DEF MovesBy
  <2>3. CASE Shortened(x, w, s, now)
    <3>1. w.row.status \in Live
      BY <1>1, <2>3, AwaitsLive DEF Shortened
    <3>2. x.row.status # "trialing"
      <4>1. SUFFICES ASSUME x.row.status = "trialing"
                     PROVE  FALSE
        OBVIOUS
      <4>2. w.row.status = "trialing" /\ FitsWait(w, s) /\ Awaiting(w.row)
        BY <1>2, <2>3, <4>1 DEF Shortened, RecoveredStatus
      <4>3. Pair(s) = Target(w.row)
        BY <4>2 DEF FitsWait
      <4>4. QED
        BY <2>3, <4>3 DEF Shortened, Pair, Target
    <3>3. x.row.pendingAt \in {s.end, w.row.pendingAt}
      BY <2>3 DEF Shortened, Noted, Ending, SamePending
    <3>4. QED
      BY <1>1, <1>2, <3>1, <3>2, <3>3 DEF MovesBy
  <2>4. CASE Adopted(x, w, s, now)
    <3>1. x.row.status = "active" /\ x.row.pendingAt \in {s.end, NoTime}
      BY <2>4 DEF Adopted, Ending, NonePending
    <3>2. QED
      BY <1>1, <1>2, <3>1 DEF MovesBy
  <2>5. QED
    BY <1>1, <1>2, <2>1, <2>2, <2>3, <2>4, ActiveAnswer
<1>3. CASE s.status = "trialing"
  <2>1. /\ x.row.status = "trialing"
        /\ s.cancel => Ending(x.row, w.trial.ends)
        /\ ~s.cancel => ~x.row.cancel
        /\ \/ w.row.status = "trialing" /\ x.row.end = w.row.end
           \/ x.row.end = w.trial.ends /\ (~s.cancel => NonePending(x.row))
    BY <1>3, TrialingAnswer
  <2>2. CASE s.cancel
    BY <1>1, <1>3, <2>1, <2>2 DEF MovesBy, Ending, Awaiting
  <2>3. CASE ~s.cancel /\ NonePending(x.row)
    BY <1>1, <2>1, <2>3 DEF MovesBy, NonePending, Awaiting
  <2>4. CASE ~s.cancel /\ ~NonePending(x.row)
    BY <1>1, <2>1, <2>4 DEF MovesBy, Leaves, SamePending, Live
  <2>5. QED
    BY <2>2, <2>3, <2>4
<1>4. CASE s.status = "past_due"
  BY <1>1, <1>4, FailedAnswer DEF MovesBy, SamePending, Paying, Live
<1>5. QED
  BY <1>2, <1>3, <1>4 DEF Live

LEMMA DueMoves ==
  ASSUME NEW w, NEW s, NEW y, Sound(y), TidyRow(y.row), "none" \notin Intervals, NEW now \in Nat,
         MovesBy(y, w, s), NEW x, x = y \/ x = ApplyDueTransitions(y, now)
  PROVE  MovesBy(x, w, s)
<1>1. CASE x = y
  BY <1>1
<1>2. CASE x = ApplyDueTransitions(y, now) /\ x # y
  <2>1. /\ Leaves(x, y)
        /\ x.row.status \notin Live \/ (x.row.status = "active" /\ NonePending(x.row))
    BY <1>2, DueFields DEF EndsRow, StartsRow, Switches
  <2>2. Leaves(x, w)
    BY <2>1, LeavesAgain DEF MovesBy
  <2>3. QED
    BY <2>1, <2>2 DEF MovesBy, NonePending, Live
<1>3. QED
  BY <1>1, <1>2

(* A workspace whose row rests, or loses no more than its status.          *)
LEMMA RestMoves ==
  ASSUME NEW w, NEW s, NEW x, Alone(x, w), SamePending(x.row, w.row), x.row.end = w.row.end,
         x.row.status \in Live => w.row.status \in Live,
         x.row.status = "trialing" => w.row.status = "trialing"
  PROVE  MovesBy(x, w, s)
BY DEF MovesBy, Leaves, Alone, Pair, SamePending
=============================================================================
