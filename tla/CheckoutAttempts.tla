-------------------------- MODULE CheckoutAttempts --------------------------
(***************************************************************************)
(* Durable Stripe Checkout of one workspace (billing/checkout_attempts):   *)
(* a request claims the workspace's single active attempt in a short       *)
(* transaction, talks to Stripe without a lock, and stores the result in a *)
(* second transaction.  Requests overlap, Stripe calls fail, a session is  *)
(* paid or expires at any moment, and the webhook that reports a payment   *)
(* arrives whenever it arrives.                                            *)
(*                                                                         *)
(* A Stripe session is named after the attempt whose idempotency key       *)
(* created it: Stripe answers every create with that key with the same     *)
(* session, and refuses one whose parameters differ.  plan stands for the  *)
(* whole identity of a checkout: plan, interval, market and coupon.        *)
(***************************************************************************)
CONSTANTS
  Ids,        \* attempt ids (bound: how many attempts are ever created)
  Plans,
  Requests,   \* concurrent checkout calls of the workspace's owner
  NoId

ASSUME CheckoutAssumption == NoId \notin Ids

VARIABLES
  attempt,    \* WorkspaceCheckoutAttempt rows
  session,    \* Checkout Sessions at Stripe, by idempotency key
  handed,     \* checkout URLs returned, with the plan that was asked for
  billing,    \* the session whose subscription WorkspaceSubscription follows
  request,
  overlapped, \* history: two requests have been in progress together
  replaced,   \* history: an attempt whose session may be open was given up
  dropped     \* history: a completed attempt was left without reconciliation

vars == <<attempt, session, handed, billing, request,
          overlapped, replaced, dropped>>
history == <<overlapped, replaced, dropped>>

NoAttempt == [status |-> "none", plan |-> NoId, known |-> FALSE]
NoSession == [status |-> "none", plan |-> NoId]
NoRequest == [pc |-> "idle", plan |-> NoId, cur |-> NoId]

Init ==
  /\ attempt = [a \in Ids |-> NoAttempt]
  /\ session = [a \in Ids |-> NoSession]
  /\ handed = {}
  /\ billing = NoId
  /\ request = [r \in Requests |-> NoRequest]
  /\ overlapped = FALSE
  /\ replaced = FALSE
  /\ dropped = FALSE

Active == {a \in Ids : attempt[a].status \in {"pending", "open"}}
Fresh  == {a \in Ids : attempt[a].status = "none"}
Pending(p) == [status |-> "pending", plan |-> p, known |-> FALSE]

Goto(r, step) == request' = [request EXCEPT ![r].pc = step]
Hold(r, p, a, step) ==
  request' = [request EXCEPT ![r] = [pc |-> step, plan |-> p, cur |-> a]]
End(r) == request' = [request EXCEPT ![r] = NoRequest]

(* Mutant: a status the database's check constraint does not know.         *)
MarkAsClosed(a, status) ==
  attempt' = IF a \in Active THEN [attempt EXCEPT ![a].status = "closed"]
                             ELSE attempt

MarkIfActive(a, status) ==
  attempt' = IF a \in Active THEN [attempt EXCEPT ![a].status = status]
                             ELSE attempt
-----------------------------------------------------------------------------
(* claim_checkout_attempt without an active attempt to reuse.              *)
ClaimNew(r, p) ==
  /\ Active = {}
  /\ \E a \in Fresh :
       /\ attempt' = [attempt EXCEPT ![a] = Pending(p)]
       /\ Hold(r, p, a, "create")

(* Mutant: an attempt is resumed whatever plan it was made for.            *)
RouteAnyPlan(p, a) == IF attempt[a].known THEN "resume" ELSE "create"

(* What create_or_resume_checkout_session does with the claimed attempt;   *)
(* both choices rest on the row as it was read at the claim.               *)
Route(p, a) ==
  CASE attempt[a].plan # p -> IF attempt[a].known THEN "change" ELSE "replace"
    [] attempt[a].plan = p -> IF attempt[a].known THEN "resume" ELSE "create"

Start(r, p) ==
  /\ request[r].pc = "idle"
  /\ billing = NoId
  /\ \/ ClaimNew(r, p)
     \/ \E a \in Active : Hold(r, p, a, Route(p, a)) /\ UNCHANGED attempt
  /\ overlapped' = (overlapped \/ \E q \in Requests : request[q].pc # "idle")
  /\ UNCHANGED <<session, handed, billing, replaced, dropped>>

(* Mutant: a session that cannot be retrieved is taken for expired.        *)
ResumeGivesUp(r) ==
  LET a == request[r].cur IN
  /\ request[r].pc = "resume"
  /\ session[a].status # "complete"
  /\ MarkIfActive(a, "expired")
  /\ Goto(r, "reclaim")
  /\ UNCHANGED <<session, handed, billing, history>>

(* Same plan, session on file: ask Stripe what became of it.               *)
Resume(r) ==
  LET a == request[r].cur IN
  /\ request[r].pc = "resume"
  /\ \/ Goto(r, "create") /\ UNCHANGED <<attempt, handed>>   \* Stripe unreachable
     \/ /\ session[a].status = "complete"
        /\ Goto(r, "complete")
        /\ UNCHANGED <<attempt, handed>>
     \/ /\ session[a].status = "expired"
        /\ MarkIfActive(a, "expired")
        /\ Goto(r, "reclaim")
        /\ UNCHANGED handed
     \/ /\ session[a].status = "open"
        /\ handed' = handed \cup {<<request[r].plan, a>>}
        /\ End(r)
        /\ UNCHANGED attempt
  /\ UNCHANGED <<session, billing, history>>

(* The second claim, after an expired session: no identity check.          *)
Reclaim(r) ==
  /\ request[r].pc = "reclaim"
  /\ \/ billing # NoId /\ End(r) /\ UNCHANGED attempt
     \/ billing = NoId /\ ClaimNew(r, request[r].plan)
     \/ /\ billing = NoId
        /\ \E a \in Active : Hold(r, request[r].plan, a, "create") /\ UNCHANGED attempt
  /\ UNCHANGED <<session, handed, billing, history>>

(* _create_stripe_session_for_attempt up to Stripe's answer, which may be  *)
(* an error before or after the session exists.                            *)
Create(r) ==
  LET a == request[r].cur
      p == request[r].plan
      made == IF session[a].status = "none"
                THEN [session EXCEPT ![a] = [status |-> "open", plan |-> p]]
                ELSE session
  IN
  /\ request[r].pc = "create"
  /\ \/ made[a].plan = p /\ session' = made /\ Goto(r, "persist")
     \/ made[a].plan = p /\ session' = made /\ End(r)
     \/ End(r) /\ UNCHANGED session
  /\ UNCHANGED <<attempt, handed, billing, history>>

(* Mutant: the row is overwritten whatever became of it meanwhile.         *)
PersistAnyStatus(r) ==
  LET a == request[r].cur IN
  /\ request[r].pc = "persist"
  /\ Active \subseteq {a}
  /\ attempt' = [attempt EXCEPT ![a].status = "open", ![a].known = TRUE]
  /\ handed' = handed \cup {<<request[r].plan, a>>}
  /\ End(r)
  /\ UNCHANGED <<session, billing, history>>

(* _persist_open_session under the row lock.  Reopening an expired attempt *)
(* beside an active one violates billing_one_active_checkout_attempt.      *)
Persist(r) ==
  LET a == request[r].cur
      reopens == attempt[a].status \in {"pending", "open", "expired"}
                 /\ Active \subseteq {a}
  IN
  /\ request[r].pc = "persist"
  /\ attempt' = IF reopens
                  THEN [attempt EXCEPT ![a].status = "open", ![a].known = TRUE]
                  ELSE attempt
  /\ handed' = IF reopens \/ attempt[a].status = "completed"
                 THEN handed \cup {<<request[r].plan, a>>}
                 ELSE handed
  /\ End(r)
  /\ UNCHANGED <<session, billing, history>>

(* Mutant: a session that cannot be retrieved is taken for expired.        *)
ChangeGivesUp(r) ==
  /\ request[r].pc = "change"
  /\ MarkIfActive(request[r].cur, "expired")
  /\ Goto(r, "replace")
  /\ UNCHANGED <<session, handed, billing, history>>

(* _handle_plan_change, session on file: what Stripe says of it.  A failed *)
(* retrieve counts as open.                                                *)
Change(r) ==
  LET a == request[r].cur IN
  /\ request[r].pc = "change"
  /\ \/ Goto(r, "expire") /\ UNCHANGED attempt         \* open, or Stripe unreachable
     \/ /\ session[a].status = "complete"
        /\ Goto(r, "complete")
        /\ UNCHANGED attempt
     \/ /\ session[a].status = "expired"
        /\ MarkIfActive(a, "expired")
        /\ Goto(r, "replace")
  /\ UNCHANGED <<session, handed, billing, history>>

(* Best effort: Stripe refuses to expire a paid session, and every error   *)
(* is swallowed.                                                           *)
Expire(r) ==
  LET a == request[r].cur IN
  /\ request[r].pc = "expire"
  /\ \/ /\ session[a].status = "open"
        /\ session' = [session EXCEPT ![a].status = "expired"]
     \/ UNCHANGED session
  /\ Goto(r, "replace")
  /\ UNCHANGED <<attempt, handed, billing, history>>

(* replace_active_attempt: the insert fails if another request put its own *)
(* active attempt in the place of the one given up, and that one is used.  *)
Replace(r) ==
  LET old == request[r].cur
      p == request[r].plan
      others == Active \ {old}
      marked == IF old \in Active
                  THEN [attempt EXCEPT ![old].status = "replaced"] ELSE attempt
  IN
  /\ request[r].pc = "replace"
  /\ \/ /\ billing # NoId
        /\ End(r)
        /\ UNCHANGED <<attempt, replaced>>
     \/ /\ billing = NoId
        /\ IF others = {}
             THEN \E a \in Fresh :
                    /\ attempt' = [marked EXCEPT ![a] = Pending(p)]
                    /\ Hold(r, p, a, "create")
             ELSE \E a \in others :
                    attempt' = marked /\ Hold(r, p, a, "create")
        /\ replaced' = (replaced \/ session[old].status \in {"open", "complete"})
  /\ UNCHANGED <<session, handed, billing, overlapped, dropped>>

(* _handle_completed_attempt, first half: committed before the workspace   *)
(* learns of the subscription.                                             *)
Complete(r) ==
  /\ request[r].pc = "complete"
  /\ attempt' = [attempt EXCEPT ![request[r].cur].status = "completed"]
  /\ Goto(r, "reconcile")
  /\ UNCHANGED <<session, handed, billing, history>>

(* Second half: the subscription is retrieved and applied, or it is not    *)
(* ready, or Stripe cannot be reached.                                     *)
Reconcile(r) ==
  /\ request[r].pc = "reconcile"
  /\ \/ billing' = request[r].cur /\ UNCHANGED dropped
     \/ dropped' = TRUE /\ UNCHANGED billing
  /\ End(r)
  /\ UNCHANGED <<attempt, session, handed, overlapped, replaced>>

(* The process serving the request dies.                                   *)
Crash(r) ==
  /\ request[r].pc # "idle"
  /\ End(r)
  /\ dropped' = (dropped \/ request[r].pc = "reconcile")
  /\ UNCHANGED <<attempt, session, handed, billing, overlapped, replaced>>
-----------------------------------------------------------------------------
(* _dispatch of checkout.session.completed: reconcile, then the attempt    *)
(* row is completed if it names the session and is still active.           *)
SessionCompleted(a) ==
  /\ session[a].status = "complete"
  /\ billing' = a
  /\ IF attempt[a].known THEN MarkIfActive(a, "completed") ELSE UNCHANGED attempt
  /\ UNCHANGED <<session, handed, request, history>>

(* _dispatch of customer.subscription.created and .updated.                *)
SubscriptionChanged(a) ==
  /\ session[a].status = "complete"
  /\ billing' = a
  /\ UNCHANGED <<attempt, session, handed, request, history>>

(* Stripe: the owner pays a session whose URL was returned; a session left *)
(* open expires.                                                           *)
Pay(a) ==
  /\ session[a].status = "open"
  /\ \E p \in Plans : <<p, a>> \in handed
  /\ session' = [session EXCEPT ![a].status = "complete"]
  /\ UNCHANGED <<attempt, handed, billing, request, history>>

SessionExpires(a) ==
  /\ session[a].status = "open"
  /\ session' = [session EXCEPT ![a].status = "expired"]
  /\ UNCHANGED <<attempt, handed, billing, request, history>>

Step(r) ==
  \/ \E p \in Plans : Start(r, p)
  \/ Resume(r) \/ Reclaim(r) \/ Create(r) \/ Persist(r)
  \/ Change(r) \/ Expire(r) \/ Replace(r)
  \/ Complete(r) \/ Reconcile(r) \/ Crash(r)

Next ==
  \/ \E r \in Requests : Step(r)
  \/ \E a \in Ids : SessionCompleted(a) \/ SubscriptionChanged(a)
                    \/ Pay(a) \/ SessionExpires(a)

Spec == Init /\ [][Next]_vars
-----------------------------------------------------------------------------
AttemptStatuses == {"none", "pending", "open", "completed", "expired", "replaced"}
Steps == {"idle", "resume", "reclaim", "create", "persist", "change", "expire",
          "replace", "complete", "reconcile"}

(* Rows, sessions and requests are well formed.                            *)
TypeOK ==
  /\ attempt \in [Ids -> [status : AttemptStatuses, plan : Plans \cup {NoId},
                          known : BOOLEAN]]
  /\ session \in [Ids -> [status : {"none", "open", "complete", "expired"},
                          plan : Plans \cup {NoId}]]
  /\ handed \subseteq Plans \X Ids
  /\ billing \in Ids \cup {NoId}
  /\ request \in [Requests -> [pc : Steps, plan : Plans \cup {NoId},
                               cur : Ids \cup {NoId}]]
  /\ overlapped \in BOOLEAN /\ replaced \in BOOLEAN /\ dropped \in BOOLEAN

(* A row's terminal status agrees with Stripe although it is written after *)
(* the answer was read and the lock was released: completed only what was  *)
(* paid, expired only what can no longer be paid, and the subscription     *)
(* followed belongs to a paid session (the status branches of _resume_...  *)
(* and _handle_plan_change, _handle_completed_attempt, _dispatch).         *)
RowsAgreeWithStripe ==
  /\ \A a \in Ids :
       /\ attempt[a].status = "completed" => session[a].status = "complete"
       /\ attempt[a].status = "expired" => session[a].status = "expired"
  /\ billing # NoId => session[billing].status = "complete"

(* Concluded attempts stay concluded although a slower request still holds *)
(* them in memory: completed is final and replaced becomes nothing but     *)
(* completed (_persist_open_session's early returns).                      *)
ConcludedStays ==
  [][\A a \in Ids :
       /\ attempt[a].status = "completed" => attempt'[a].status = "completed"
       /\ attempt[a].status = "replaced"
            => attempt'[a].status \in {"replaced", "completed"}]_vars

Paid == {a \in Ids : session[a].status = "complete"}

(* A workspace never pays for two subscriptions: "completed session,       *)
(* delayed webhook does not create second checkout"                        *)
(* (tests_checkout_concurrency.py).                                        *)
OneSubscription == \A a, b \in Paid : a = b

(* The same claim as the test words it, for its own setting - one request  *)
(* after the other, no open session given up: once one is paid no other    *)
(* is created (_handle_completed_attempt, claim_checkout_attempt).         *)
NoSecondCheckout ==
  [][~overlapped' /\ ~replaced' /\ Paid # {}
       => \A a \in Ids : session[a].status = "none" => session'[a] = session[a]]_vars

(* What the code does ensure of it: as long as requests come one after the *)
(* other, none gave up a session that may be open and no completed attempt *)
(* was left unreconciled, whatever Stripe calls fail and however late the  *)
(* webhook is.                                                             *)
OneSubscriptionUndisturbed ==
  ~overlapped /\ ~replaced /\ ~dropped => OneSubscription

(* "Different plan/interval/market/coupon: expire/replace rather than      *)
(* reuse": a returned checkout URL sells what was asked for.  Kept as long *)
(* as requests do not overlap, through crashes, lost answers and expiry    *)
(* (create_or_resume_checkout_session, _handle_plan_change).               *)
HandsWhatWasAsked == \A h \in handed : session[h[2]].plan = h[1]
HandsWhatWasAskedAlone == ~overlapped => HandsWhatWasAsked
=============================================================================
