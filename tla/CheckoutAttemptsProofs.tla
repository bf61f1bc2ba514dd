----------------------- MODULE CheckoutAttemptsProofs -----------------------
(***************************************************************************)
(* For any number of attempts, plans and concurrent requests: the state is *)
(* well typed, the rows never contradict Stripe, and a concluded attempt   *)
(* stays concluded.                                                        *)
(*                                                                         *)
(* RowsAgreeWithStripe is not inductive: a request marks a row on an       *)
(* answer it read steps before.  CarriesPaid says that the answer is still *)
(* true, which rests on Stripe's side: a paid session stays paid and an    *)
(* expired one stays expired (SessionStep).                                *)
(***************************************************************************)
EXTENDS CheckoutAttempts, TLAPS

Attempts == [status : AttemptStatuses, plan : Plans \cup {NoId}, known : BOOLEAN]
Sessions == [status : {"none", "open", "complete", "expired"}, plan : Plans \cup {NoId}]
RequestStates == [pc : Steps, plan : Plans \cup {NoId}, cur : Ids \cup {NoId}]

(* A request that read "complete" from Stripe is about a paid session.     *)
CarriesPaid ==
  \A r \in Requests :
    request[r].pc \in {"complete", "reconcile"} =>
      session[request[r].cur].status = "complete"

(* A request in progress holds one of the workspace's attempts.            *)
HoldsAttempt ==
  \A r \in Requests : request[r].pc # "idle" =>
    request[r].cur \in Ids /\ request[r].plan \in Plans

IInv == TypeOK /\ HoldsAttempt /\ CarriesPaid /\ RowsAgreeWithStripe

(* What a step may do to a row, and to a session.                          *)
RowStep ==
  \A a \in Ids :
    \/ attempt'[a].status = attempt[a].status
    \/ attempt[a].status = "none" /\ attempt'[a].status = "pending"
    \/ attempt[a].status \in {"pending", "open", "expired"} /\ attempt'[a].status = "open"
    \/ attempt[a].status \in {"pending", "open"} /\ attempt'[a].status = "replaced"
    \/ /\ attempt[a].status \in {"pending", "open"}
       /\ attempt'[a].status = "expired"
       /\ session[a].status = "expired"
    \/ attempt'[a].status = "completed" /\ session[a].status = "complete"

SessionStep ==
  \A a \in Ids : session[a].status \in {"complete", "expired"}
                   => session'[a].status = session[a].status

(* What every step keeps; the invariant follows from it.                   *)
Kept ==
  /\ TypeOK'
  /\ HoldsAttempt'
  /\ CarriesPaid'
  /\ RowStep
  /\ SessionStep
  /\ billing' # billing => billing' \in Ids /\ session[billing'].status = "complete"
-----------------------------------------------------------------------------
(* Initially nothing has been claimed.                                     *)
LEMMA InitInv == Init => IInv
<1> SUFFICES ASSUME Init PROVE IInv
  OBVIOUS
<1>1. /\ NoAttempt \in Attempts
      /\ NoSession \in Sessions
      /\ NoRequest \in RequestStates
  BY DEF NoAttempt, NoSession, NoRequest, Attempts, Sessions, RequestStates,
     AttemptStatuses, Steps
<1>2. TypeOK
  BY <1>1 DEF Init, TypeOK, Attempts, Sessions, RequestStates
<1>3. HoldsAttempt /\ CarriesPaid
  BY DEF Init, HoldsAttempt, CarriesPaid, NoRequest
<1>4. RowsAgreeWithStripe
  BY DEF Init, RowsAgreeWithStripe, NoAttempt
<1>5. QED
  BY <1>2, <1>3, <1>4 DEF IInv

(* A step that keeps what it must keep preserves the invariant.            *)
LEMMA KeptKeeps == ASSUME IInv, Kept PROVE IInv'
<1>1. ASSUME NEW a \in Ids PROVE
        /\ attempt'[a].status = "completed" => session'[a].status = "complete"
        /\ attempt'[a].status = "expired" => session'[a].status = "expired"
  BY <1>1 DEF IInv, Kept, RowStep, SessionStep, RowsAgreeWithStripe
<1>2. billing' # NoId => session'[billing'].status = "complete"
  BY DEF IInv, Kept, TypeOK, SessionStep, RowsAgreeWithStripe
<1>3. QED
  BY <1>1, <1>2 DEF IInv, Kept, RowsAgreeWithStripe

(* The three ways a request moves.                                         *)
LEMMA GotoStep ==
  ASSUME TypeOK, HoldsAttempt, NEW r \in Requests, request[r].pc # "idle",
         NEW s \in Steps, Goto(r, s)
  PROVE  /\ request' \in [Requests -> RequestStates]
         /\ HoldsAttempt'
         /\ request'[r].pc = s /\ request'[r].cur = request[r].cur
         /\ request'[r].plan = request[r].plan
         /\ \A q \in Requests \ {r} : request'[q] = request[q]
  BY DEF TypeOK, RequestStates, HoldsAttempt, Goto

LEMMA HoldStep ==
  ASSUME TypeOK, HoldsAttempt, NEW r \in Requests, NEW p \in Plans, NEW a \in Ids,
         NEW s \in Steps, Hold(r, p, a, s)
  PROVE  /\ request' \in [Requests -> RequestStates]
         /\ HoldsAttempt'
         /\ request'[r].pc = s /\ request'[r].cur = a /\ request'[r].plan = p
         /\ \A q \in Requests \ {r} : request'[q] = request[q]
  BY DEF TypeOK, RequestStates, HoldsAttempt, Hold

LEMMA EndStep ==
  ASSUME TypeOK, HoldsAttempt, NEW r \in Requests, End(r)
  PROVE  /\ request' \in [Requests -> RequestStates]
         /\ HoldsAttempt'
         /\ request'[r].pc = "idle"
         /\ \A q \in Requests \ {r} : request'[q] = request[q]
  BY DEF TypeOK, RequestStates, HoldsAttempt, End, NoRequest, Steps

(* The conditional mark of a row that is still active.                     *)
LEMMA MarkStep ==
  ASSUME TypeOK, NEW a \in Ids, NEW s \in {"expired", "completed"},
         s = "expired" => session[a].status = "expired",
         s = "completed" => session[a].status = "complete",
         MarkIfActive(a, s)
  PROVE  attempt' \in [Ids -> Attempts] /\ RowStep
  BY DEF TypeOK, Attempts, MarkIfActive, Active, RowStep, AttemptStatuses

(* A claim creates a row or takes the active one, and holds it.            *)
LEMMA FreshStep ==
  ASSUME TypeOK, NEW p \in Plans, NEW a \in Fresh,
         attempt' = [attempt EXCEPT ![a] = Pending(p)]
  PROVE  attempt' \in [Ids -> Attempts] /\ RowStep
  BY DEF TypeOK, Attempts, Fresh, Pending, RowStep, AttemptStatuses

(* Whatever the caller does next, a claim keeps the rows and the requests  *)
(* typed and carries no answer of Stripe's.                                *)
LEMMA StartKept ==
  ASSUME IInv, NEW r \in Requests, NEW p \in Plans, Start(r, p) PROVE Kept
<1> USE DEF IInv
<1>1. UNCHANGED <<session, billing>> /\ <<overlapped, replaced, dropped>>' \in BOOLEAN \X BOOLEAN \X BOOLEAN
  BY DEF Start, TypeOK
<1>2. CASE Active = {}
  <2>1. PICK a \in Fresh : attempt' = [attempt EXCEPT ![a] = Pending(p)] /\ Hold(r, p, a, "create")
    BY <1>2 DEF Start, ClaimNew
  <2>2. attempt' \in [Ids -> Attempts] /\ RowStep
    BY <2>1, FreshStep
  <2>3. /\ request' \in [Requests -> RequestStates] /\ HoldsAttempt'
        /\ request'[r].pc = "create"
        /\ \A q \in Requests \ {r} : request'[q] = request[q]
    BY <2>1, HoldStep, "create" \in Steps DEF Fresh, Steps
  <2>4. CarriesPaid'
    BY <1>1, <2>3 DEF CarriesPaid
  <2>5. TypeOK'
    BY <1>1, <2>2, <2>3 DEF TypeOK, Start, Attempts, RequestStates
  <2>6. QED
    BY <1>1, <2>2, <2>3, <2>4, <2>5 DEF Kept, SessionStep
<1>3. CASE Active # {}
  <2>1. PICK a \in Active : Hold(r, p, a, Route(p, a)) /\ UNCHANGED attempt
    BY <1>3 DEF Start, ClaimNew
  <2>2. Route(p, a) \in {"change", "replace", "resume", "create"} /\ a \in Ids
    BY DEF Route, Active
  <2>3. Route(p, a) \in Steps
    BY <2>2 DEF Steps
  <2>4. /\ request' \in [Requests -> RequestStates] /\ HoldsAttempt'
        /\ request'[r].pc = Route(p, a)
        /\ \A q \in Requests \ {r} : request'[q] = request[q]
    BY <2>1, <2>2, <2>3, HoldStep
  <2>5. CarriesPaid'
    BY <1>1, <2>2, <2>4 DEF CarriesPaid
  <2>6. QED
    BY <1>1, <2>1, <2>4, <2>5 DEF Kept, RowStep, SessionStep, TypeOK, Start, RequestStates
<1>4. QED
  BY <1>2, <1>3

LEMMA ReclaimKept ==
  ASSUME IInv, NEW r \in Requests, Reclaim(r) PROVE Kept
<1> USE DEF IInv
<1> DEFINE p == request[r].plan
<1>1. UNCHANGED <<session, billing, handed, overlapped, replaced, dropped>> /\ p \in Plans
  BY DEF Reclaim, HoldsAttempt, history
<1>2. CASE billing # NoId
  <2>1. End(r) /\ UNCHANGED attempt
    BY <1>2 DEF Reclaim
  <2>2. QED
    BY <1>1, <2>1, EndStep DEF Kept, CarriesPaid, RowStep, SessionStep, TypeOK, RequestStates
<1>3. CASE billing = NoId /\ Active = {}
  <2>1. PICK a \in Fresh : attempt' = [attempt EXCEPT ![a] = Pending(p)] /\ Hold(r, p, a, "create")
    BY <1>3 DEF Reclaim, ClaimNew
  <2>2. attempt' \in [Ids -> Attempts] /\ RowStep
    BY <1>1, <2>1, FreshStep
  <2>3. /\ request' \in [Requests -> RequestStates] /\ HoldsAttempt'
        /\ request'[r].pc = "create"
        /\ \A q \in Requests \ {r} : request'[q] = request[q]
    BY <1>1, <2>1, HoldStep, "create" \in Steps DEF Fresh, Steps
  <2>4. QED
    BY <1>1, <2>2, <2>3 DEF Kept, CarriesPaid, SessionStep, TypeOK, Attempts, RequestStates
<1>4. CASE billing = NoId /\ Active # {}
  <2>1. PICK a \in Active : Hold(r, p, a, "create") /\ UNCHANGED attempt
    BY <1>4 DEF Reclaim, ClaimNew
  <2>2. /\ request' \in [Requests -> RequestStates] /\ HoldsAttempt'
        /\ request'[r].pc = "create"
        /\ \A q \in Requests \ {r} : request'[q] = request[q]
    BY <1>1, <2>1, HoldStep, "create" \in Steps DEF Active, Steps
  <2>3. QED
    BY <1>1, <2>1, <2>2 DEF Kept, CarriesPaid, RowStep, SessionStep, TypeOK, RequestStates
<1>5. QED
  BY <1>2, <1>3, <1>4

(* The answer "complete" is carried on, "expired" marks an active row.     *)
LEMMA ResumeKept ==
  ASSUME IInv, NEW r \in Requests, Resume(r) PROVE Kept
<1> USE DEF IInv
<1> DEFINE a == request[r].cur
<1>1. /\ UNCHANGED <<session, billing, overlapped, replaced, dropped>>
      /\ a \in Ids /\ request[r].plan \in Plans /\ request[r].pc # "idle"
      /\ {"create", "complete", "reclaim"} \subseteq Steps
  BY DEF Resume, HoldsAttempt, history, Steps
<1>2. CASE Goto(r, "create") /\ UNCHANGED <<attempt, handed>>
  <2>1. /\ request' \in [Requests -> RequestStates] /\ HoldsAttempt'
        /\ request'[r].pc = "create"
        /\ \A q \in Requests \ {r} : request'[q] = request[q]
    BY <1>1, <1>2, GotoStep
  <2>2. CarriesPaid'
    BY <1>1, <2>1 DEF CarriesPaid
  <2>3. QED
    BY <1>1, <1>2, <2>1, <2>2 DEF Kept, RowStep, SessionStep, TypeOK, RequestStates
<1>3. CASE session[a].status = "complete" /\ Goto(r, "complete") /\ UNCHANGED <<attempt, handed>>
  BY <1>1, <1>3, GotoStep DEF Kept, CarriesPaid, RowStep, SessionStep, TypeOK, RequestStates
<1>4. CASE /\ session[a].status = "expired" /\ MarkIfActive(a, "expired")
           /\ Goto(r, "reclaim") /\ UNCHANGED handed
  <2>1. attempt' \in [Ids -> Attempts] /\ RowStep
    BY <1>1, <1>4, MarkStep
  <2>2. /\ request' \in [Requests -> RequestStates] /\ HoldsAttempt'
        /\ request'[r].pc = "reclaim"
        /\ \A q \in Requests \ {r} : request'[q] = request[q]
    BY <1>1, <1>4, GotoStep
  <2>3. CarriesPaid'
    BY <1>1, <2>2 DEF CarriesPaid
  <2>4. TypeOK'
    BY <1>1, <1>4, <2>1, <2>2 DEF TypeOK, RequestStates, Attempts
  <2>5. QED
    BY <1>1, <2>1, <2>2, <2>3, <2>4 DEF Kept, SessionStep
<1>5. CASE handed' = handed \cup {<<request[r].plan, a>>} /\ End(r) /\ UNCHANGED attempt
  BY <1>1, <1>5, EndStep DEF Kept, CarriesPaid, RowStep, SessionStep, TypeOK, RequestStates
<1>6. QED
  BY <1>2, <1>3, <1>4, <1>5 DEF Resume

(* A session that exists is left as it is by a create with its key.        *)
LEMMA CreateKept ==
  ASSUME IInv, NEW r \in Requests, Create(r) PROVE Kept
<1> USE DEF IInv
<1> DEFINE a == request[r].cur
           made == IF session[a].status = "none"
                     THEN [session EXCEPT ![a] = [status |-> "open", plan |-> request[r].plan]]
                     ELSE session
<1>1. /\ UNCHANGED <<attempt, handed, billing, overlapped, replaced, dropped>>
      /\ a \in Ids /\ request[r].plan \in Plans /\ request[r].pc # "idle"
      /\ "persist" \in Steps
      /\ session' = made \/ session' = session
      /\ Goto(r, "persist") \/ End(r)
  BY DEF Create, HoldsAttempt, history, Steps
<1>2. session' \in [Ids -> Sessions] /\ SessionStep
  BY <1>1 DEF TypeOK, Sessions, SessionStep
<1>3. /\ request' \in [Requests -> RequestStates] /\ HoldsAttempt'
      /\ request'[r].pc \in {"persist", "idle"}
      /\ \A q \in Requests \ {r} : request'[q] = request[q]
  BY <1>1, GotoStep, EndStep
<1>4. CarriesPaid'
  <2> SUFFICES ASSUME NEW q \in Requests, request'[q].pc \in {"complete", "reconcile"}
               PROVE  session'[request'[q].cur].status = "complete"
    BY DEF CarriesPaid
  <2>1. request'[q] = request[q] /\ request[q].cur \in Ids
    BY <1>3 DEF HoldsAttempt
  <2>2. QED
    BY <1>2, <2>1 DEF CarriesPaid, SessionStep
<1>5. QED
  BY <1>1, <1>2, <1>3, <1>4 DEF Kept, RowStep, TypeOK, RequestStates, Sessions

LEMMA PersistKept ==
  ASSUME IInv, NEW r \in Requests, Persist(r) PROVE Kept
<1> USE DEF IInv
<1> DEFINE a == request[r].cur
<1>1. /\ UNCHANGED <<session, billing, overlapped, replaced, dropped>>
      /\ a \in Ids /\ request[r].plan \in Plans
      /\ End(r)
      /\ handed' \subseteq handed \cup {<<request[r].plan, a>>}
      /\ \/ UNCHANGED attempt
         \/ /\ attempt[a].status \in {"pending", "open", "expired"}
            /\ attempt' = [attempt EXCEPT ![a].status = "open", ![a].known = TRUE]
  BY DEF Persist, HoldsAttempt, history
<1>2. attempt' \in [Ids -> Attempts] /\ RowStep
  BY <1>1 DEF TypeOK, Attempts, RowStep, AttemptStatuses
<1>3. QED
  BY <1>1, <1>2, EndStep DEF Kept, CarriesPaid, SessionStep, TypeOK, RequestStates, Attempts

LEMMA ChangeKept ==
  ASSUME IInv, NEW r \in Requests, Change(r) PROVE Kept
<1> USE DEF IInv
<1> DEFINE a == request[r].cur
<1>1. /\ UNCHANGED <<session, handed, billing, overlapped, replaced, dropped>>
      /\ a \in Ids /\ request[r].pc # "idle"
      /\ {"expire", "complete", "replace"} \subseteq Steps
  BY DEF Change, HoldsAttempt, history, Steps
<1>2. CASE Goto(r, "expire") /\ UNCHANGED attempt
  <2>1. /\ request' \in [Requests -> RequestStates] /\ HoldsAttempt'
        /\ request'[r].pc = "expire"
        /\ \A q \in Requests \ {r} : request'[q] = request[q]
    BY <1>1, <1>2, GotoStep
  <2>2. CarriesPaid'
    BY <1>1, <2>1 DEF CarriesPaid
  <2>3. QED
    BY <1>1, <1>2, <2>1, <2>2 DEF Kept, RowStep, SessionStep, TypeOK, RequestStates
<1>3. CASE session[a].status = "complete" /\ Goto(r, "complete") /\ UNCHANGED attempt
  BY <1>1, <1>3, GotoStep DEF Kept, CarriesPaid, RowStep, SessionStep, TypeOK, RequestStates
<1>4. CASE session[a].status = "expired" /\ MarkIfActive(a, "expired") /\ Goto(r, "replace")
  <2>1. attempt' \in [Ids -> Attempts] /\ RowStep
    BY <1>1, <1>4, MarkStep
  <2>2. /\ request' \in [Requests -> RequestStates] /\ HoldsAttempt'
        /\ request'[r].pc = "replace"
        /\ \A q \in Requests \ {r} : request'[q] = request[q]
    BY <1>1, <1>4, GotoStep
  <2>3. CarriesPaid'
    BY <1>1, <2>2 DEF CarriesPaid
  <2>4. TypeOK'
    BY <1>1, <1>4, <2>1, <2>2 DEF TypeOK, RequestStates, Attempts
  <2>5. QED
    BY <1>1, <2>1, <2>2, <2>3, <2>4 DEF Kept, SessionStep
<1>5. QED
  BY <1>2, <1>3, <1>4 DEF Change

LEMMA ExpireKept ==
  ASSUME IInv, NEW r \in Requests, Expire(r) PROVE Kept
<1> USE DEF IInv
<1> DEFINE a == request[r].cur
<1>1. /\ UNCHANGED <<attempt, handed, billing, overlapped, replaced, dropped>>
      /\ a \in Ids /\ request[r].pc # "idle" /\ "replace" \in Steps
      /\ \/ session' = session
         \/ session[a].status = "open" /\ session' = [session EXCEPT ![a].status = "expired"]
      /\ Goto(r, "replace")
  BY DEF Expire, HoldsAttempt, history, Steps
<1>2. session' \in [Ids -> Sessions] /\ SessionStep
  BY SMTT(30), <1>1 DEF TypeOK, Sessions, SessionStep
<1>3. /\ request' \in [Requests -> RequestStates] /\ HoldsAttempt'
      /\ request'[r].pc = "replace"
      /\ \A q \in Requests \ {r} : request'[q] = request[q]
  BY <1>1, GotoStep
<1>4. CarriesPaid'
  <2> SUFFICES ASSUME NEW q \in Requests, request'[q].pc \in {"complete", "reconcile"}
               PROVE  session'[request'[q].cur].status = "complete"
    BY DEF CarriesPaid
  <2>1. request'[q] = request[q] /\ request[q].cur \in Ids
    BY <1>3 DEF HoldsAttempt
  <2>2. QED
    BY <1>2, <2>1 DEF CarriesPaid, SessionStep
<1>5. QED
  BY <1>1, <1>2, <1>3, <1>4 DEF Kept, RowStep, TypeOK, RequestStates, Sessions

(* The attempt given up is marked only if it is still active, and the new  *)
(* row, if one is inserted, is another one.                                *)
LEMMA ReplaceKept ==
  ASSUME IInv, NEW r \in Requests, Replace(r) PROVE Kept
<1> USE DEF IInv
<1> DEFINE old == request[r].cur
           p == request[r].plan
           others == Active \ {old}
           marked == IF old \in Active
                       THEN [attempt EXCEPT ![old].status = "replaced"] ELSE attempt
<1>1. /\ UNCHANGED <<session, handed, billing, overlapped, dropped>>
      /\ old \in Ids /\ p \in Plans /\ replaced' \in BOOLEAN
  BY DEF Replace, HoldsAttempt, TypeOK
<1>2. CASE billing # NoId
  <2>1. End(r) /\ UNCHANGED attempt
    BY <1>2 DEF Replace
  <2>2. QED
    BY <1>1, <2>1, EndStep DEF Kept, CarriesPaid, RowStep, SessionStep, TypeOK, RequestStates
<1>3. CASE billing = NoId
  <2>1. PICK a \in Ids : Hold(r, p, a, "create")
                         /\ (attempt' = marked \/ (a \in Fresh /\ attempt' = [marked EXCEPT ![a] = Pending(p)]))
    BY <1>3 DEF Replace, Fresh, Active
  <2>2. attempt' \in [Ids -> Attempts] /\ RowStep
    <3>1. /\ marked \in [Ids -> Attempts]
          /\ \A b \in Ids \ {old} : marked[b] = attempt[b]
          /\ \/ marked[old] = attempt[old]
             \/ /\ attempt[old].status \in {"pending", "open"}
                /\ marked[old].status = "replaced"
      BY <1>1 DEF TypeOK, Attempts, Active, AttemptStatuses
    <3>2. CASE attempt' = marked
      BY <1>1, <3>1, <3>2 DEF RowStep
    <3>3. CASE a \in Fresh /\ attempt' = [marked EXCEPT ![a] = Pending(p)]
      <4>1. Pending(p) \in Attempts /\ Pending(p).status = "pending"
        BY <1>1 DEF Pending, Attempts, AttemptStatuses
      <4>2. attempt' \in [Ids -> Attempts] /\ attempt'[a].status = "pending"
            /\ \A b \in Ids \ {a} : attempt'[b] = marked[b]
        BY <3>1, <3>3, <4>1
      <4>3. attempt[a].status = "none"
        BY <3>3 DEF Fresh
      <4>4. QED
        BY <1>1, <3>1, <4>2, <4>3 DEF RowStep
    <3>4. QED
      BY <2>1, <3>2, <3>3
  <2>3. /\ request' \in [Requests -> RequestStates] /\ HoldsAttempt'
        /\ request'[r].pc = "create"
        /\ \A q \in Requests \ {r} : request'[q] = request[q]
    BY <1>1, <2>1, HoldStep, "create" \in Steps DEF Steps
  <2>4. CarriesPaid'
    BY <1>1, <2>3 DEF CarriesPaid
  <2>5. TypeOK'
    BY <1>1, <2>2, <2>3 DEF TypeOK, Attempts, RequestStates
  <2>6. QED
    BY <1>1, <2>2, <2>3, <2>4, <2>5 DEF Kept, SessionStep
<1>4. QED
  BY <1>2, <1>3

(* The mark is unconditional: it rests on the answer the request carries.  *)
LEMMA CompleteKept ==
  ASSUME IInv, NEW r \in Requests, Complete(r) PROVE Kept
<1> USE DEF IInv
<1> DEFINE a == request[r].cur
<1>1. /\ UNCHANGED <<session, handed, billing, overlapped, replaced, dropped>>
      /\ a \in Ids /\ request[r].pc # "idle" /\ "reconcile" \in Steps
      /\ session[a].status = "complete"
      /\ attempt' = [attempt EXCEPT ![a].status = "completed"]
      /\ Goto(r, "reconcile")
  BY DEF Complete, HoldsAttempt, CarriesPaid, history, Steps
<1>2. attempt' \in [Ids -> Attempts] /\ RowStep
  BY SMTT(30), <1>1 DEF TypeOK, Attempts, RowStep, AttemptStatuses
<1>3. /\ request' \in [Requests -> RequestStates] /\ HoldsAttempt'
      /\ request'[r].pc = "reconcile" /\ request'[r].cur = a
      /\ \A q \in Requests \ {r} : request'[q] = request[q]
  BY <1>1, GotoStep
<1>4. CarriesPaid'
  BY <1>1, <1>3 DEF CarriesPaid
<1>5. TypeOK'
  BY <1>1, <1>2, <1>3 DEF TypeOK, Attempts, RequestStates
<1>6. QED
  BY <1>1, <1>2, <1>3, <1>4, <1>5 DEF Kept, SessionStep

LEMMA ReconcileKept ==
  ASSUME IInv, NEW r \in Requests, Reconcile(r) PROVE Kept
<1> USE DEF IInv
<1>1. /\ UNCHANGED <<attempt, session, handed, overlapped, replaced>>
      /\ dropped' \in BOOLEAN
      /\ billing' = billing \/ (billing' = request[r].cur /\ request[r].cur \in Ids
                                /\ session[request[r].cur].status = "complete")
      /\ End(r)
  BY DEF Reconcile, TypeOK, HoldsAttempt, CarriesPaid
<1>2. QED
  BY <1>1, EndStep DEF Kept, CarriesPaid, RowStep, SessionStep, TypeOK, RequestStates

LEMMA CrashKept ==
  ASSUME IInv, NEW r \in Requests, Crash(r) PROVE Kept
<1> USE DEF IInv
<1>1. /\ UNCHANGED <<attempt, session, handed, billing, overlapped, replaced>>
      /\ dropped' \in BOOLEAN /\ End(r)
  BY DEF Crash, TypeOK
<1>2. QED
  BY <1>1, EndStep DEF Kept, CarriesPaid, RowStep, SessionStep, TypeOK, RequestStates

(* Events only report paid sessions; Stripe only concludes open ones.      *)
LEMMA EventKept ==
  ASSUME IInv, NEW a \in Ids, SessionCompleted(a) \/ SubscriptionChanged(a) PROVE Kept
<1> USE DEF IInv
<1>1. /\ UNCHANGED <<session, handed, request, overlapped, replaced, dropped>>
      /\ billing' = a /\ session[a].status = "complete"
      /\ UNCHANGED attempt \/ MarkIfActive(a, "completed")
  BY DEF SessionCompleted, SubscriptionChanged, history
<1>2. attempt' \in [Ids -> Attempts] /\ RowStep
  <2>1. CASE UNCHANGED attempt
    BY <2>1 DEF TypeOK, Attempts, RowStep
  <2>2. CASE MarkIfActive(a, "completed")
    BY <1>1, <2>2, MarkStep
  <2>3. QED
    BY <1>1, <2>1, <2>2
<1>3. QED
  BY <1>1, <1>2 DEF Kept, CarriesPaid, HoldsAttempt, SessionStep, TypeOK, Attempts

LEMMA StripeKept ==
  ASSUME IInv, NEW a \in Ids, Pay(a) \/ SessionExpires(a) PROVE Kept
<1> USE DEF IInv
<1>1. /\ UNCHANGED <<attempt, handed, billing, request, overlapped, replaced, dropped>>
      /\ session[a].status = "open"
      /\ \/ session' = [session EXCEPT ![a].status = "complete"]
         \/ session' = [session EXCEPT ![a].status = "expired"]
  BY DEF Pay, SessionExpires, history
<1>2. session' \in [Ids -> Sessions] /\ SessionStep
  BY SMTT(30), <1>1 DEF TypeOK, Sessions, SessionStep
<1>3. CarriesPaid'
  BY <1>1, <1>2 DEF CarriesPaid, SessionStep, HoldsAttempt
<1>4. QED
  BY <1>1, <1>2, <1>3 DEF Kept, HoldsAttempt, RowStep, TypeOK, Sessions
-----------------------------------------------------------------------------
(* Every step, one lemma per action.                                       *)
LEMMA NextKept == ASSUME IInv, Next PROVE Kept
<1>1. CASE \E r \in Requests : Step(r)
  <2>1. PICK r \in Requests : Step(r)
    BY <1>1
  <2>2. QED
    BY <2>1, StartKept, ResumeKept, ReclaimKept, CreateKept, PersistKept, ChangeKept,
       ExpireKept, ReplaceKept, CompleteKept, ReconcileKept, CrashKept DEF Step
<1>2. CASE \E a \in Ids : SessionCompleted(a) \/ SubscriptionChanged(a)
                          \/ Pay(a) \/ SessionExpires(a)
  BY <1>2, EventKept, StripeKept
<1>3. QED
  BY <1>1, <1>2 DEF Next

LEMMA StutterKept == ASSUME IInv, UNCHANGED vars PROVE IInv' /\ RowStep
  BY DEF IInv, TypeOK, HoldsAttempt, CarriesPaid, RowsAgreeWithStripe, RowStep, vars

(* The inductive invariant.                                                *)
THEOREM Invariance == Spec => []IInv
<1>1. IInv /\ [Next]_vars => IInv'
  BY NextKept, KeptKeeps, StutterKept
<1>2. QED
  BY InitInv, <1>1, PTL DEF Spec

(* The state is well typed in every reachable state.                       *)
THEOREM TypeCorrect == Spec => []TypeOK
<1>1. IInv => TypeOK
  BY DEF IInv
<1>2. QED
  BY Invariance, <1>1, PTL

(* Whatever requests overlap, fail or crash, no attempt is completed that  *)
(* was not paid, none expired that can still be paid, and the workspace    *)
(* follows the subscription of a paid session.                             *)
THEOREM RowsAgree == Spec => []RowsAgreeWithStripe
<1>1. IInv => RowsAgreeWithStripe
  BY DEF IInv
<1>2. QED
  BY Invariance, <1>1, PTL

(* No request that was slower reopens a concluded attempt.                 *)
THEOREM ConcludedIsFinal == Spec => ConcludedStays
<1>1. ASSUME IInv, [Next]_vars
      PROVE  [\A a \in Ids :
               /\ attempt[a].status = "completed" => attempt'[a].status = "completed"
               /\ attempt[a].status = "replaced"
                    => attempt'[a].status \in {"replaced", "completed"}]_vars
  <2>1. RowStep
    BY <1>1, NextKept, StutterKept DEF Kept
  <2>2. QED
    BY <2>1 DEF RowStep
<1>2. QED
  BY Invariance, <1>1, PTL DEF Spec, ConcludedStays
-----------------------------------------------------------------------------
(***************************************************************************)
(* Requests that come one after the other: a returned checkout URL sells   *)
(* what was asked for, and as long as no open session was given up and no  *)
(* completed attempt left unreconciled, one subscription is ever paid.     *)
(*                                                                         *)
(* Both rest on more than they say.  Alone: the one request in progress    *)
(* holds the only active attempt, and a session sells what the attempt     *)
(* whose key created it was claimed for.  OnePays: of the sessions that    *)
(* are or can be paid there is one, the request in progress holds it, and  *)
(* until its attempt is concluded it blocks the next claim; afterwards     *)
(* the subscription that the workspace follows does.                       *)
(***************************************************************************)
Busy(r) == request[r].pc # "idle"

(* What the request in progress knows of the attempt it holds.             *)
Follows(r) ==
  LET a == request[r].cur IN
  /\ attempt[a].status \notin {"none", "replaced"}
  /\ Active \subseteq {a}
  /\ request[r].pc = "reclaim" => Active = {}
  /\ request[r].pc \in {"resume", "create", "persist"} => attempt[a].plan = request[r].plan
  /\ request[r].pc = "persist" => session[a].status # "none"

OneBusy   == \A q, r \in Requests : Busy(q) /\ Busy(r) => q = r
OneActive == \A a, b \in Active : a = b
SessionsMatch ==
  \A a \in Ids : session[a].status # "none" =>
    attempt[a].status # "none" /\ session[a].plan = attempt[a].plan
HandedMatch ==
  \A h \in handed : session[h[2]].status # "none" /\ session[h[2]].plan = h[1]
AllFollow == \A r \in Requests : Busy(r) => Follows(r)

Alone    == OneBusy /\ OneActive /\ SessionsMatch /\ HandedMatch /\ AllFollow
AloneInv == ~overlapped => Alone

Payable     == {a \in Ids : session[a].status \in {"open", "complete"}}
Undisturbed == ~overlapped /\ ~replaced /\ ~dropped

OnePayable == \A a, b \in Payable : a = b
BusyHolds  ==
  \A r \in Requests : Busy(r) =>
    /\ Payable \subseteq {request[r].cur}
    /\ request[r].pc = "reclaim" => Payable = {}
Covered ==
  \A a \in Payable :
    \/ a \in Active
    \/ billing # NoId
    \/ \E r \in Requests : request[r].pc = "reconcile" /\ request[r].cur = a

OnePays == OnePayable /\ BusyHolds /\ Covered
PaysInv == Undisturbed => OnePays

(* What no step does to a row or a session: an attempt keeps its plan and  *)
(* a session what it sells.                                                *)
PlanStep ==
  \A a \in Ids : attempt[a].status # "none" =>
    attempt'[a].status # "none" /\ attempt'[a].plan = attempt[a].plan
SaleStep ==
  \A a \in Ids : session[a].status # "none" =>
    session'[a].status # "none" /\ session'[a].plan = session[a].plan
-----------------------------------------------------------------------------
(* The request in progress moves on with the attempt it holds, or ends.    *)
LEMMA AloneMoves ==
  ASSUME IInv, Alone, NEW r \in Requests, NEW a \in Ids,
         Busy(r), a = request[r].cur, handed' \subseteq Plans \X Ids,
         \A q \in Requests \ {r} : request'[q] = request[q],
         PlanStep, SaleStep, Active' \subseteq {a}, attempt'[a].status # "replaced",
         \A b \in Ids : session'[b].status # "none" =>
           \/ session[b].status # "none"
           \/ b = a /\ session'[b].plan = attempt[b].plan,
         \/ handed' = handed
         \/ /\ handed' = handed \cup {<<request[r].plan, a>>}
            /\ session'[a].status # "none" /\ session'[a].plan = request[r].plan,
         \/ request'[r].pc = "idle"
         \/ /\ request'[r].cur = a /\ request'[r].plan = request[r].plan
            /\ request'[r].pc = "reclaim" => Active' = {}
            /\ request'[r].pc \in {"resume", "create", "persist"}
                 => attempt[a].plan = request[r].plan
            /\ request'[r].pc = "persist" => session'[a].status # "none"
  PROVE  Alone'
<1>1. \A q \in Requests \ {r} : ~Busy(q) /\ ~Busy(q)'
  BY DEF Alone, OneBusy, Busy
<1>2. OneBusy' /\ OneActive'
  BY <1>1 DEF OneBusy, OneActive
<1>3. attempt[a].status # "none"
  BY DEF Alone, AllFollow, Follows
<1>4. SessionsMatch'
  BY <1>3 DEF Alone, SessionsMatch, PlanStep, SaleStep
<1>5. HandedMatch'
  <2>1. \A h \in handed : h[2] \in Ids
    BY DEF IInv, TypeOK
  <2>2. QED
    BY <2>1 DEF Alone, HandedMatch, SaleStep
<1>6. Busy(r)' => Follows(r)'
  BY <1>3 DEF Busy, Follows, PlanStep
<1>7. QED
  BY <1>1, <1>2, <1>4, <1>5, <1>6 DEF Alone, AllFollow

LEMMA PaysMoves ==
  ASSUME OnePays, NEW r \in Requests, NEW a \in Ids,
         OneBusy, Busy(r), a = request[r].cur,
         \A q \in Requests \ {r} : request'[q] = request[q],
         Payable' \subseteq Payable \cup {a},
         request'[r].pc = "idle" \/ request'[r].cur = a,
         request'[r].pc = "reclaim" => Payable' = {},
         a \in Payable' =>
           \/ a \in Active' \/ billing' # NoId \/ request'[r].pc = "reconcile"
  PROVE  OnePays'
<1>1. Payable' \subseteq {a}
  BY DEF OnePays, BusyHolds
<1>2. \A q \in Requests \ {r} : ~Busy(q)'
  BY DEF OneBusy, Busy
<1>3. BusyHolds'
  BY <1>1, <1>2 DEF BusyHolds, Busy
<1>4. Covered'
  BY <1>1 DEF Covered
<1>5. QED
  BY <1>1, <1>3, <1>4 DEF OnePays, OnePayable

(* A request takes hold of the attempt it has claimed.                     *)
LEMMA AloneClaims ==
  ASSUME IInv, Alone, NEW r \in Requests, NEW p \in Plans, NEW a \in Ids,
         \A q \in Requests \ {r} : ~Busy(q) /\ request'[q] = request[q],
         UNCHANGED <<session, handed>>, PlanStep,
         request'[r].cur = a, request'[r].plan = p,
         request'[r].pc \in {"resume", "create", "change", "replace"},
         attempt'[a].status \notin {"none", "replaced"}, Active' \subseteq {a},
         request'[r].pc \in {"resume", "create"} => attempt'[a].plan = p
  PROVE  Alone'
<1>1. \A q \in Requests \ {r} : ~Busy(q)'
  BY DEF Busy
<1>2. OneBusy' /\ OneActive'
  BY <1>1 DEF OneBusy, OneActive
<1>3. SessionsMatch'
  BY DEF Alone, SessionsMatch, PlanStep
<1>4. HandedMatch'
  BY DEF Alone, HandedMatch
<1>5. Follows(r)'
  BY DEF Follows
<1>6. QED
  BY <1>1, <1>2, <1>3, <1>4, <1>5 DEF Alone, AllFollow

LEMMA PaysClaims ==
  ASSUME NEW r \in Requests, NEW a \in Ids,
         \A q \in Requests \ {r} : ~Busy(q) /\ request'[q] = request[q],
         request'[r].cur = a, request'[r].pc # "reclaim",
         Payable' \subseteq {a}, Payable' \subseteq Active'
  PROVE  OnePays'
<1>1. \A q \in Requests \ {r} : ~Busy(q)'
  BY DEF Busy
<1>2. QED
  BY <1>1 DEF OnePays, OnePayable, BusyHolds, Covered, Busy

(* A conditional mark takes the row out of the active ones.                *)
LEMMA MarkKeepsPlan ==
  ASSUME TypeOK, NEW a \in Ids, NEW s \in {"expired", "completed"}, MarkIfActive(a, s)
  PROVE  /\ PlanStep /\ Active' = Active \ {a}
         /\ attempt'[a].status \in {attempt[a].status, s}
BY DEF TypeOK, MarkIfActive, Active, PlanStep

LEMMA FreshKeepsPlan ==
  ASSUME TypeOK, NEW p \in Plans, NEW a \in Fresh,
         attempt' = [attempt EXCEPT ![a] = Pending(p)]
  PROVE  /\ PlanStep /\ Active' = Active \cup {a}
         /\ a \in Ids /\ attempt'[a].status = "pending" /\ attempt'[a].plan = p
<1>1. /\ attempt[a].status = "none" /\ a \in Ids
      /\ attempt'[a].status = "pending" /\ attempt'[a].plan = p
      /\ \A b \in Ids \ {a} : attempt'[b] = attempt[b]
  BY DEF Fresh, Pending, TypeOK
<1>2. QED
  BY <1>1 DEF PlanStep, Active

(* What is kept while every row and every session stays.                   *)
LEMMA Still == (UNCHANGED attempt => PlanStep) /\ (UNCHANGED session => SaleStep)
BY DEF PlanStep, SaleStep

(* The request in progress, and that it is the only one.                   *)
LEMMA InProgress ==
  ASSUME IInv, Alone, NEW r \in Requests, Busy(r)
  PROVE  /\ request[r].cur \in Ids /\ request[r].plan \in Plans /\ Follows(r)
         /\ Active \subseteq {request[r].cur} /\ attempt[request[r].cur].status # "replaced"
         /\ \A q \in Requests \ {r} : ~Busy(q)
BY DEF IInv, HoldsAttempt, Alone, AllFollow, Follows, OneBusy, Busy

(* The request goes on or ends, and nothing else changes.                  *)
LEMMA GoesOn ==
  ASSUME IInv, Alone, NEW r \in Requests, Busy(r), request[r].pc # "reconcile",
         UNCHANGED <<attempt, session, handed, billing>>,
         \/ End(r)
         \/ \E s \in Steps \ {"reclaim", "persist"} :
              /\ Goto(r, s)
              /\ s \in {"resume", "create"} => attempt[request[r].cur].plan = request[r].plan
  PROVE  Alone' /\ (OnePays => OnePays')
<1> DEFINE a == request[r].cur
<1>1. /\ a \in Ids /\ request[r].plan \in Plans /\ Follows(r)
      /\ Active \subseteq {a} /\ attempt[a].status # "replaced"
      /\ \A q \in Requests \ {r} : ~Busy(q)
  BY InProgress DEF Follows
<1>2. /\ \A q \in Requests \ {r} : request'[q] = request[q]
      /\ \/ request'[r].pc = "idle"
         \/ /\ request'[r].cur = a /\ request'[r].plan = request[r].plan
            /\ request'[r].pc \notin {"reclaim", "persist"}
            /\ request'[r].pc \in {"resume", "create"} => attempt[a].plan = request[r].plan
  <2>1. CASE End(r)
    BY <2>1, EndStep DEF IInv
  <2>2. ASSUME NEW s \in Steps \ {"reclaim", "persist"}, Goto(r, s),
               s \in {"resume", "create"} => attempt[a].plan = request[r].plan
        PROVE  /\ \A q \in Requests \ {r} : request'[q] = request[q]
               /\ request'[r].cur = a /\ request'[r].plan = request[r].plan
               /\ request'[r].pc = s
    BY <2>2, GotoStep DEF IInv, Busy
  <2>3. QED
    BY <2>1, <2>2
<1>3. Active' = Active /\ Payable' = Payable
  BY DEF Active, Payable
<1>4. Alone'
  BY <1>1, <1>2, <1>3, Still, AloneMoves DEF IInv, TypeOK
<1>5. OnePays => (a \in Payable => a \in Active \/ billing # NoId)
  BY <1>1 DEF OnePays, Covered, Busy
<1>6. OnePays => OnePays'
  BY <1>1, <1>2, <1>3, <1>5, PaysMoves DEF Alone
<1>7. QED
  BY <1>4, <1>6
-----------------------------------------------------------------------------
(* A claim: of a new attempt when nothing is active, of the active one     *)
(* otherwise.  Nobody else is at work, and a session that can be paid      *)
(* belongs to an active attempt, since the workspace follows none.         *)
LEMMA StartAlone ==
  ASSUME IInv, Alone, NEW r \in Requests, NEW p \in Plans, Start(r, p), ~overlapped'
  PROVE  Alone' /\ (OnePays => OnePays')
<1>1. /\ \A q \in Requests : ~Busy(q)
      /\ billing = NoId /\ UNCHANGED <<session, handed, billing>>
  BY DEF Start, Busy
<1>2. OnePays => Payable \subseteq Active
  BY <1>1 DEF OnePays, Covered, Busy
<1>3. CASE Active = {}
  <2>1. PICK a \in Fresh : attempt' = [attempt EXCEPT ![a] = Pending(p)] /\ Hold(r, p, a, "create")
    BY <1>3 DEF Start, ClaimNew
  <2>2. /\ PlanStep /\ Active' = {a}
        /\ a \in Ids /\ attempt'[a].status = "pending" /\ attempt'[a].plan = p
    BY <1>3, <2>1, FreshKeepsPlan DEF IInv
  <2>3. /\ request'[r].pc = "create" /\ request'[r].cur = a /\ request'[r].plan = p
        /\ \A q \in Requests \ {r} : request'[q] = request[q]
    BY <2>1, <2>2, HoldStep, "create" \in Steps DEF IInv, Steps
  <2>4. Alone'
    BY <1>1, <2>2, <2>3, AloneClaims
  <2>5. OnePays => Payable' = {}
    BY <1>1, <1>2, <1>3 DEF Payable
  <2>6. OnePays => OnePays'
    BY <1>1, <2>2, <2>3, <2>5, PaysClaims
  <2>7. QED
    BY <2>4, <2>6
<1>4. CASE Active # {}
  <2>1. PICK a \in Active : Hold(r, p, a, Route(p, a)) /\ UNCHANGED attempt
    BY <1>4 DEF Start, ClaimNew
  <2>2. /\ Route(p, a) \in {"change", "replace", "resume", "create"} /\ a \in Ids
        /\ Route(p, a) \in {"resume", "create"} => attempt[a].plan = p
        /\ Route(p, a) \in Steps
    BY DEF Route, Active, Steps
  <2>3. /\ request'[r].pc = Route(p, a) /\ request'[r].cur = a /\ request'[r].plan = p
        /\ \A q \in Requests \ {r} : request'[q] = request[q]
    BY <2>1, <2>2, HoldStep DEF IInv
  <2>4. Active' = {a} /\ Active = {a} /\ attempt[a].status \notin {"none", "replaced"}
    BY <2>1 DEF Alone, OneActive, Active
  <2>5. Alone'
    BY <1>1, <2>1, <2>2, <2>3, <2>4, Still, AloneClaims
  <2>6. OnePays => Payable' \subseteq {a}
    BY <1>1, <1>2, <2>4 DEF Payable
  <2>7. OnePays => OnePays'
    BY <1>1, <2>2, <2>3, <2>4, <2>6, PaysClaims
  <2>8. QED
    BY <2>5, <2>7
<1>5. QED
  BY <1>3, <1>4

(* After an expired session nothing is active and nothing can be paid.     *)
LEMMA ReclaimAlone ==
  ASSUME IInv, Alone, NEW r \in Requests, Reclaim(r)
  PROVE  Alone' /\ (OnePays => OnePays')
<1> DEFINE p == request[r].plan
           a == request[r].cur
<1>1. /\ Busy(r) /\ request[r].pc = "reclaim"
      /\ UNCHANGED <<session, handed, billing>>
  BY DEF Reclaim, Busy
<1>2. /\ a \in Ids /\ p \in Plans /\ Follows(r) /\ Active = {}
      /\ \A q \in Requests \ {r} : ~Busy(q)
  BY <1>1, InProgress DEF Follows
<1>3. OnePays => Payable = {} /\ Payable' = {}
  BY <1>1 DEF OnePays, BusyHolds, Payable
<1>4. CASE billing # NoId
  <2>1. End(r) /\ UNCHANGED attempt
    BY <1>4 DEF Reclaim
  <2>2. QED
    BY <1>1, <2>1, GoesOn
<1>5. CASE billing = NoId
  <2>1. PICK b \in Fresh : attempt' = [attempt EXCEPT ![b] = Pending(p)] /\ Hold(r, p, b, "create")
    BY <1>2, <1>5 DEF Reclaim, ClaimNew
  <2>2. /\ PlanStep /\ Active' = {b}
        /\ b \in Ids /\ attempt'[b].status = "pending" /\ attempt'[b].plan = p
    <3> HIDE DEF p
    <3>1. TypeOK
      BY DEF IInv
    <3>2. QED
      BY <1>2, <2>1, <3>1, FreshKeepsPlan
  <2>3. /\ request'[r].pc = "create" /\ request'[r].cur = b /\ request'[r].plan = p
        /\ \A q \in Requests \ {r} : request'[q] = request[q]
    BY <1>2, <2>1, <2>2, HoldStep, "create" \in Steps DEF IInv, Steps
  <2> HIDE DEF p
  <2>4. Alone'
    BY <1>1, <1>2, <2>2, <2>3, AloneClaims
  <2>5. OnePays => OnePays'
    BY <1>2, <1>3, <2>2, <2>3, PaysClaims
  <2>6. QED
    BY <2>4, <2>5
<1>6. QED
  BY <1>4, <1>5

(* What Stripe says of the session on file.                                *)
LEMMA ResumeAlone ==
  ASSUME IInv, Alone, NEW r \in Requests, Resume(r)
  PROVE  Alone' /\ (OnePays => OnePays')
<1> DEFINE a == request[r].cur
<1>1. /\ Busy(r) /\ request[r].pc = "resume" /\ request[r].plan \in Plans
      /\ UNCHANGED <<session, billing>>
      /\ {"create", "complete", "reclaim"} \subseteq Steps
  BY InProgress DEF Resume, Busy, Steps
<1>2. /\ a \in Ids /\ Follows(r) /\ Active \subseteq {a}
      /\ attempt[a].plan = request[r].plan /\ attempt[a].status # "replaced"
      /\ \A q \in Requests \ {r} : ~Busy(q)
  BY <1>1, InProgress DEF Follows
<1>3. OnePays => Payable \subseteq {a} /\ Payable' = Payable
                 /\ (a \in Payable => a \in Active \/ billing # NoId)
  BY <1>1, <1>2 DEF OnePays, BusyHolds, Covered, Payable, Busy
<1>4. CASE (Goto(r, "create") \/ Goto(r, "complete")) /\ UNCHANGED <<attempt, handed>>
  BY <1>1, <1>2, <1>4, GoesOn
<1>5. CASE /\ session[a].status = "expired" /\ MarkIfActive(a, "expired")
           /\ Goto(r, "reclaim") /\ UNCHANGED handed
  <2>1. /\ request'[r].pc = "reclaim" /\ request'[r].cur = a
        /\ request'[r].plan = request[r].plan
        /\ \A q \in Requests \ {r} : request'[q] = request[q]
    BY <1>1, <1>5, GotoStep DEF IInv, Busy
  <2>2. PlanStep /\ Active' = {} /\ attempt'[a].status # "replaced"
    BY <1>2, <1>5, MarkKeepsPlan DEF IInv, Follows
  <2>3. Alone'
    BY <1>1, <1>2, <1>5, <2>1, <2>2, Still, AloneMoves DEF IInv, TypeOK
  <2>4. OnePays => Payable' = {}
    BY <1>3, <1>5 DEF Payable
  <2>5. OnePays => OnePays'
    BY <1>1, <1>2, <1>3, <2>1, <2>4, PaysMoves DEF Alone
  <2>6. QED
    BY <2>3, <2>5
<1>6. CASE /\ session[a].status = "open"
           /\ handed' = handed \cup {<<request[r].plan, a>>} /\ End(r) /\ UNCHANGED attempt
  <2>1. request'[r].pc = "idle" /\ \A q \in Requests \ {r} : request'[q] = request[q]
    BY <1>6, EndStep DEF IInv
  <2>2. Active' = Active
    BY <1>6 DEF Active
  <2>3. session'[a].status # "none" /\ session'[a].plan = request[r].plan
    BY <1>1, <1>2, <1>6 DEF Alone, SessionsMatch
  <2>4. handed' \subseteq Plans \X Ids
    BY <1>1, <1>2, <1>6 DEF IInv, TypeOK
  <2>5. Alone'
    BY <1>1, <1>2, <1>6, <2>1, <2>2, <2>3, <2>4, Still, AloneMoves
  <2>6. OnePays => OnePays'
    BY <1>1, <1>2, <1>3, <2>1, <2>2, PaysMoves DEF Alone
  <2>7. QED
    BY <2>5, <2>6
<1>7. QED
  BY <1>4, <1>5, <1>6 DEF Resume

(* Only the attempt held gets a session, with the plan it was claimed for. *)
LEMMA CreateAlone ==
  ASSUME IInv, Alone, NEW r \in Requests, Create(r)
  PROVE  Alone' /\ (OnePays => OnePays')
<1> DEFINE a == request[r].cur
           p == request[r].plan
           made == IF session[a].status = "none"
                     THEN [session EXCEPT ![a] = [status |-> "open", plan |-> p]]
                     ELSE session
<1>1. /\ Busy(r) /\ request[r].pc = "create" /\ "persist" \in Steps
      /\ UNCHANGED <<attempt, handed, billing>>
  BY DEF Create, Busy, Steps
<1>2. /\ a \in Ids /\ Follows(r) /\ Active \subseteq {a}
      /\ attempt[a].plan = p /\ attempt[a].status # "replaced"
      /\ \A q \in Requests \ {r} : ~Busy(q)
  BY <1>1, InProgress DEF Follows
<1>3. CASE End(r) /\ UNCHANGED session
  BY <1>1, <1>3, GoesOn
<1>4. CASE session' = made /\ (Goto(r, "persist") \/ End(r))
  <2>1. /\ SaleStep /\ session'[a].status # "none"
        /\ \A b \in Ids \ {a} : session'[b] = session[b]
        /\ session[a].status # "none" => session' = session
        /\ session[a].status = "none" => session'[a].plan = p
    BY <1>2, <1>4 DEF SaleStep, IInv, TypeOK
  <2>2. /\ \A q \in Requests \ {r} : request'[q] = request[q]
        /\ \/ request'[r].pc = "idle"
           \/ /\ request'[r].cur = a /\ request'[r].plan = p
              /\ request'[r].pc = "persist"
    BY <1>1, <1>4, GotoStep, EndStep DEF IInv, Busy
  <2>3. Active' = Active /\ Payable' \subseteq Payable \cup {a}
    BY <1>1, <2>1 DEF Active, Payable
  <2>4. handed' \subseteq Plans \X Ids
    BY <1>1 DEF IInv, TypeOK
  <2> HIDE DEF p
  <2>5. \A b \in Ids : session'[b].status # "none" =>
           \/ session[b].status # "none"
           \/ b = a /\ session'[b].plan = attempt[b].plan
    BY <1>2, <2>1
  <2>6. Alone'
    BY <1>1, <1>2, <2>1, <2>2, <2>3, <2>4, <2>5, Still, AloneMoves DEF p
  <2>7. OnePays /\ a \in Payable' => a \in Active' \/ billing' # NoId
    <3>1. CASE session[a].status = "none"
      <4>1. attempt[a].status \in {"pending", "open"}
        BY <1>2, <3>1 DEF IInv, TypeOK, RowsAgreeWithStripe, Follows, AttemptStatuses
      <4>2. QED
        BY <1>2, <2>3, <4>1 DEF Active
    <3>2. CASE session[a].status # "none"
      BY <1>1, <1>2, <2>1, <2>3, <3>2 DEF OnePays, Covered, Payable, Busy
    <3>3. QED
      BY <3>1, <3>2
  <2>8. OnePays => OnePays'
    BY <1>1, <1>2, <2>2, <2>3, <2>7, PaysMoves DEF Alone
  <2>9. QED
    BY <2>6, <2>8
<1>5. QED
  BY <1>3, <1>4 DEF Create

(* The row is stored open, or was completed meanwhile.                     *)
LEMMA PersistAlone ==
  ASSUME IInv, Alone, NEW r \in Requests, Persist(r)
  PROVE  Alone' /\ (OnePays => OnePays')
<1> DEFINE a == request[r].cur
           p == request[r].plan
<1>1. /\ Busy(r) /\ request[r].pc = "persist" /\ p \in Plans
      /\ UNCHANGED <<session, billing>>
  BY InProgress DEF Persist, Busy
<1>2. /\ a \in Ids /\ Follows(r) /\ Active \subseteq {a}
      /\ attempt[a].plan = p /\ session[a].status # "none"
      /\ attempt[a].status \notin {"none", "replaced"}
      /\ \A q \in Requests \ {r} : ~Busy(q)
  BY <1>1, InProgress DEF Follows
<1>3. /\ PlanStep /\ Active' \subseteq {a} /\ Active \subseteq Active'
      /\ attempt'[a].status # "replaced"
  <2>1. CASE UNCHANGED attempt
    BY <1>2, <2>1, Still DEF Active
  <2>2. CASE attempt' = [attempt EXCEPT ![a].status = "open", ![a].known = TRUE]
    <3>1. /\ attempt'[a].status = "open" /\ attempt'[a].plan = attempt[a].plan
          /\ \A b \in Ids \ {a} : attempt'[b] = attempt[b]
      BY <1>2, <2>2 DEF IInv, TypeOK
    <3>2. QED
      BY <1>2, <3>1 DEF PlanStep, Active
  <2>3. QED
    BY <2>1, <2>2 DEF Persist
<1>4. /\ handed' = handed \/ handed' = handed \cup {<<p, a>>}
      /\ handed' \subseteq Plans \X Ids
  BY <1>1, <1>2 DEF Persist, IInv, TypeOK
<1>5. session'[a].plan = p
  BY <1>1, <1>2 DEF Alone, SessionsMatch
<1>6. request'[r].pc = "idle" /\ \A q \in Requests \ {r} : request'[q] = request[q]
  BY EndStep DEF IInv, Persist
<1>7. Alone'
  BY <1>1, <1>2, <1>3, <1>4, <1>5, <1>6, Still, AloneMoves
<1>8. OnePays => (a \in Payable => a \in Active \/ billing # NoId)
  BY <1>1, <1>2 DEF OnePays, Covered, Busy
<1>9. Payable' = Payable
  BY <1>1 DEF Payable
<1>10. OnePays => OnePays'
  BY <1>1, <1>2, <1>3, <1>6, <1>8, <1>9, PaysMoves DEF Alone
<1>11. QED
  BY <1>7, <1>10

(* Another plan is asked for: what Stripe says of the session on file.     *)
LEMMA ChangeAlone ==
  ASSUME IInv, Alone, NEW r \in Requests, Change(r)
  PROVE  Alone' /\ (OnePays => OnePays')
<1> DEFINE a == request[r].cur
<1>1. /\ Busy(r) /\ request[r].pc = "change"
      /\ UNCHANGED <<session, handed, billing>>
      /\ {"expire", "complete", "replace"} \subseteq Steps
  BY DEF Change, Busy, Steps
<1>2. /\ a \in Ids /\ Follows(r) /\ Active \subseteq {a}
      /\ attempt[a].status # "replaced"
      /\ \A q \in Requests \ {r} : ~Busy(q)
  BY <1>1, InProgress
<1>3. CASE (Goto(r, "expire") \/ Goto(r, "complete")) /\ UNCHANGED attempt
  BY <1>1, <1>2, <1>3, GoesOn
<1>4. CASE session[a].status = "expired" /\ MarkIfActive(a, "expired") /\ Goto(r, "replace")
  <2>1. /\ request'[r].pc = "replace" /\ request'[r].cur = a
        /\ request'[r].plan = request[r].plan
        /\ \A q \in Requests \ {r} : request'[q] = request[q]
    BY <1>1, <1>4, GotoStep DEF IInv, Busy
  <2>2. PlanStep /\ Active' = {} /\ attempt'[a].status # "replaced"
    BY <1>2, <1>4, MarkKeepsPlan DEF IInv
  <2>3. Alone'
    BY <1>1, <1>2, <2>1, <2>2, Still, AloneMoves DEF IInv, TypeOK
  <2>4. a \notin Payable' /\ Payable' = Payable
    BY <1>1, <1>4 DEF Payable
  <2>5. OnePays => OnePays'
    BY <1>1, <1>2, <2>1, <2>4, PaysMoves DEF Alone
  <2>6. QED
    BY <2>3, <2>5
<1>5. QED
  BY <1>3, <1>4 DEF Change

LEMMA ExpireAlone ==
  ASSUME IInv, Alone, NEW r \in Requests, Expire(r)
  PROVE  Alone' /\ (OnePays => OnePays')
<1> DEFINE a == request[r].cur
<1>1. /\ Busy(r) /\ request[r].pc = "expire" /\ "replace" \in Steps
      /\ UNCHANGED <<attempt, handed, billing>>
  BY DEF Expire, Busy, Steps
<1>2. /\ a \in Ids /\ Follows(r) /\ Active \subseteq {a}
      /\ attempt[a].status # "replaced"
      /\ \A q \in Requests \ {r} : ~Busy(q)
  BY <1>1, InProgress
<1>3. /\ request'[r].pc = "replace" /\ request'[r].cur = a
      /\ request'[r].plan = request[r].plan
      /\ \A q \in Requests \ {r} : request'[q] = request[q]
  BY <1>1, GotoStep DEF IInv, Busy, Expire
<1>4. /\ SaleStep /\ Payable' \subseteq Payable
      /\ \A b \in Ids : session'[b].status # "none" => session[b].status # "none"
  <2>1. CASE UNCHANGED session
    BY <2>1, Still DEF Payable
  <2>2. CASE session[a].status = "open" /\ session' = [session EXCEPT ![a].status = "expired"]
    <3>1. /\ session'[a].status = "expired" /\ session'[a].plan = session[a].plan
          /\ \A b \in Ids \ {a} : session'[b] = session[b]
      BY <1>2, <2>2 DEF IInv, TypeOK
    <3>2. QED
      BY <2>2, <3>1 DEF SaleStep, Payable
  <2>3. QED
    BY <2>1, <2>2 DEF Expire
<1>5. Active' = Active
  BY <1>1 DEF Active
<1>6. Alone'
  BY <1>1, <1>2, <1>3, <1>4, <1>5, Still, AloneMoves DEF IInv, TypeOK
<1>7. OnePays => (a \in Payable => a \in Active \/ billing # NoId)
  BY <1>1, <1>2 DEF OnePays, Covered, Busy
<1>8. OnePays => OnePays'
  BY <1>1, <1>2, <1>3, <1>4, <1>5, <1>7, PaysMoves DEF Alone
<1>9. QED
  BY <1>6, <1>8

(* The attempt given up was the only active one, so a new one is created;  *)
(* and if its session cannot be paid any more, none can.                   *)
LEMMA ReplaceAlone ==
  ASSUME IInv, Alone, NEW r \in Requests, Replace(r)
  PROVE  Alone' /\ (OnePays /\ ~replaced' => OnePays')
<1> DEFINE old == request[r].cur
           p == request[r].plan
           marked == IF old \in Active
                       THEN [attempt EXCEPT ![old].status = "replaced"] ELSE attempt
<1>1. /\ Busy(r) /\ request[r].pc = "replace"
      /\ UNCHANGED <<session, handed, billing>>
  BY DEF Replace, Busy
<1>2. /\ old \in Ids /\ p \in Plans /\ Follows(r) /\ Active \subseteq {old}
      /\ \A q \in Requests \ {r} : ~Busy(q)
  BY <1>1, InProgress
<1>3. CASE billing # NoId
  <2>1. End(r) /\ UNCHANGED attempt
    BY <1>3 DEF Replace
  <2>2. QED
    BY <1>1, <2>1, GoesOn
<1>4. CASE billing = NoId
  <2>1. PICK a \in Fresh : attempt' = [marked EXCEPT ![a] = Pending(p)] /\ Hold(r, p, a, "create")
    BY <1>2, <1>4 DEF Replace
  <2>2. a \in Ids /\ attempt[a].status = "none"
    BY DEF Fresh
  <2>3. /\ marked[old].plan = attempt[old].plan
        /\ attempt[old].status # "none" => marked[old].status # "none"
        /\ marked[old].status \notin {"pending", "open"}
        /\ \A b \in Ids \ {old} : marked[b] = attempt[b]
        /\ DOMAIN marked = Ids
    BY <1>2 DEF Active, IInv, TypeOK
  <2>4. /\ attempt'[a].status = "pending" /\ attempt'[a].plan = p
        /\ \A b \in Ids \ {a} : attempt'[b] = marked[b]
    <3> HIDE DEF marked
    <3>1. QED
      BY <2>1, <2>2, <2>3 DEF Pending
  <2>5. PlanStep /\ Active' = {a}
    <3> HIDE DEF marked
    <3>1. PlanStep
      BY <2>2, <2>3, <2>4 DEF PlanStep
    <3>2. Active' = {a}
      BY <1>2, <2>2, <2>3, <2>4 DEF Active
    <3>3. QED
      BY <3>1, <3>2
  <2>6. /\ request'[r].pc = "create" /\ request'[r].cur = a /\ request'[r].plan = p
        /\ \A q \in Requests \ {r} : request'[q] = request[q]
    BY <1>2, <2>1, <2>2, HoldStep, "create" \in Steps DEF IInv, Steps
  <2> HIDE DEF p, marked
  <2>7. Alone'
    BY <1>1, <1>2, <2>2, <2>4, <2>5, <2>6, AloneClaims
  <2>8. OnePays /\ ~replaced' => Payable' = {}
    BY <1>1, <1>4 DEF Replace, OnePays, BusyHolds, Payable
  <2>9. OnePays /\ ~replaced' => OnePays'
    BY <1>2, <2>2, <2>6, <2>8, PaysClaims
  <2>10. QED
    BY <2>7, <2>9
<1>5. QED
  BY <1>3, <1>4

(* The request that marks a paid attempt completed goes on to reconcile.   *)
LEMMA CompleteAlone ==
  ASSUME IInv, Alone, NEW r \in Requests, Complete(r)
  PROVE  Alone' /\ (OnePays => OnePays')
<1> DEFINE a == request[r].cur
<1>1. /\ Busy(r) /\ "reconcile" \in Steps
      /\ UNCHANGED <<session, handed, billing>>
      /\ attempt' = [attempt EXCEPT ![a].status = "completed"]
  BY DEF Complete, Busy, Steps
<1>2. /\ a \in Ids /\ Follows(r) /\ Active \subseteq {a}
      /\ \A q \in Requests \ {r} : ~Busy(q)
  BY <1>1, InProgress
<1>3. /\ request'[r].pc = "reconcile" /\ request'[r].cur = a
      /\ request'[r].plan = request[r].plan
      /\ \A q \in Requests \ {r} : request'[q] = request[q]
  BY <1>1, GotoStep DEF IInv, Busy, Complete
<1>4. /\ attempt'[a].status = "completed" /\ attempt'[a].plan = attempt[a].plan
      /\ \A b \in Ids \ {a} : attempt'[b] = attempt[b]
  BY <1>1, <1>2 DEF IInv, TypeOK
<1>5. PlanStep /\ Active' \subseteq {a}
  BY <1>2, <1>4 DEF PlanStep, Active
<1>6. Alone'
  BY <1>1, <1>2, <1>3, <1>4, <1>5, Still, AloneMoves DEF IInv, TypeOK
<1>7. Payable' = Payable
  BY <1>1 DEF Payable
<1>8. OnePays => OnePays'
  BY <1>1, <1>2, <1>3, <1>7, PaysMoves DEF Alone
<1>9. QED
  BY <1>6, <1>8

(* The end of a request that holds a completed attempt: the workspace      *)
(* follows its subscription, or the attempt is left without reconciliation.*)
LEMMA ReconcileAlone ==
  ASSUME IInv, Alone, NEW r \in Requests, Busy(r), End(r),
         UNCHANGED <<attempt, session, handed>>,
         request[r].pc = "reconcile",
         billing' = request[r].cur \/ dropped'
  PROVE  Alone' /\ (OnePays /\ ~dropped' => OnePays')
<1> DEFINE a == request[r].cur
<1>1. /\ a \in Ids /\ Active \subseteq {a} /\ attempt[a].status # "replaced"
      /\ a # NoId
      /\ \A q \in Requests \ {r} : ~Busy(q)
  BY InProgress, CheckoutAssumption
<1>2. request'[r].pc = "idle" /\ \A q \in Requests \ {r} : request'[q] = request[q]
  BY EndStep DEF IInv
<1>3. Active' = Active /\ Payable' = Payable
  BY DEF Active, Payable
<1>4. Alone'
  BY <1>1, <1>2, <1>3, Still, AloneMoves DEF IInv, TypeOK
<1>5. OnePays /\ ~dropped' => OnePays'
  BY <1>1, <1>2, <1>3, PaysMoves DEF Alone
<1>6. QED
  BY <1>4, <1>5

LEMMA CrashAlone ==
  ASSUME IInv, Alone, NEW r \in Requests, Crash(r)
  PROVE  Alone' /\ (OnePays /\ ~dropped' => OnePays')
<1>1. Busy(r) /\ End(r) /\ UNCHANGED <<attempt, session, handed, billing>>
  BY DEF Crash, Busy
<1>2. CASE request[r].pc = "reconcile"
  BY <1>1, <1>2, ReconcileAlone DEF Crash
<1>3. CASE request[r].pc # "reconcile"
  BY <1>1, <1>3, GoesOn
<1>4. QED
  BY <1>2, <1>3

(* What the request in progress knows survives the webhook and Stripe.     *)
LEMMA EventAlone ==
  ASSUME IInv, Alone, NEW a \in Ids, SessionCompleted(a) \/ SubscriptionChanged(a)
  PROVE  Alone' /\ (OnePays => OnePays')
<1>1. /\ UNCHANGED <<session, handed, request>>
      /\ billing' = a /\ billing' # NoId
      /\ UNCHANGED attempt \/ MarkIfActive(a, "completed")
  BY CheckoutAssumption DEF SessionCompleted, SubscriptionChanged, history
<1>2. /\ PlanStep /\ Active' \subseteq Active
      /\ \A b \in Ids : attempt'[b].status \in {attempt[b].status, "completed"}
  <2>1. CASE UNCHANGED attempt
    BY <2>1, Still DEF Active
  <2>2. CASE MarkIfActive(a, "completed")
    BY <2>2, MarkKeepsPlan DEF IInv, TypeOK, MarkIfActive
  <2>3. QED
    BY <1>1, <2>1, <2>2
<1>3. OneBusy' /\ OneActive'
  BY <1>1, <1>2 DEF Alone, OneBusy, Busy, OneActive
<1>4. SessionsMatch' /\ HandedMatch'
  BY <1>1, <1>2 DEF Alone, SessionsMatch, HandedMatch, PlanStep
<1>5. AllFollow'
  <2> SUFFICES ASSUME NEW r \in Requests, Busy(r)' PROVE Follows(r)'
    BY DEF AllFollow
  <2>1. Busy(r)
    BY <1>1 DEF Busy
  <2>2. request[r].cur \in Ids /\ Follows(r)
    BY <2>1, InProgress
  <2>3. QED
    BY <1>1, <1>2, <2>2 DEF Follows, PlanStep
<1>6. OnePays => OnePays'
  BY <1>1 DEF OnePays, OnePayable, BusyHolds, Covered, Payable, Busy
<1>7. QED
  BY <1>3, <1>4, <1>5, <1>6 DEF Alone

LEMMA StripeAlone ==
  ASSUME IInv, Alone, NEW a \in Ids, Pay(a) \/ SessionExpires(a)
  PROVE  Alone' /\ (OnePays => OnePays')
<1>1. /\ UNCHANGED <<attempt, handed, billing, request>>
      /\ session[a].status = "open"
      /\ \/ session' = [session EXCEPT ![a].status = "complete"]
         \/ session' = [session EXCEPT ![a].status = "expired"]
  BY DEF Pay, SessionExpires, history
<1>2. /\ session'[a].status \in {"complete", "expired"}
      /\ session'[a].plan = session[a].plan
      /\ \A b \in Ids \ {a} : session'[b] = session[b]
  BY <1>1 DEF IInv, TypeOK
<1>3. /\ SaleStep /\ Payable' \subseteq Payable /\ Active' = Active
      /\ \A b \in Ids : session'[b].status # "none" => session[b].status # "none"
  BY <1>1, <1>2 DEF SaleStep, Payable, Active
<1>4. OneBusy' /\ OneActive'
  BY <1>1, <1>3 DEF Alone, OneBusy, Busy, OneActive
<1>5. SessionsMatch'
  BY <1>1, <1>3 DEF Alone, SessionsMatch, SaleStep
<1>6. HandedMatch'
  <2>1. \A h \in handed : h[2] \in Ids
    BY DEF IInv, TypeOK
  <2>2. QED
    BY <1>1, <1>3, <2>1 DEF Alone, HandedMatch, SaleStep
<1>7. AllFollow'
  <2> SUFFICES ASSUME NEW r \in Requests, Busy(r)' PROVE Follows(r)'
    BY DEF AllFollow
  <2>1. Busy(r)
    BY <1>1 DEF Busy
  <2>2. request[r].cur \in Ids /\ Follows(r)
    BY <2>1, InProgress
  <2>3. QED
    BY <1>1, <1>3, <2>2 DEF Follows, SaleStep
<1>8. OnePays => OnePays'
  BY <1>1, <1>3 DEF OnePays, OnePayable, BusyHolds, Covered, Busy
<1>9. QED
  BY <1>4, <1>5, <1>6, <1>7, <1>8 DEF Alone
-----------------------------------------------------------------------------
(* Once a circumstance has occurred it stays.                              *)
LEMMA FlagsStay ==
  ASSUME Next
  PROVE  /\ overlapped => overlapped'
         /\ replaced => replaced'
         /\ dropped => dropped'
<1> DEFINE Stay == /\ overlapped => overlapped'
                   /\ replaced => replaced'
                   /\ dropped => dropped'
<1>1. ASSUME NEW r \in Requests, NEW p \in Plans, Start(r, p) PROVE Stay
  BY <1>1 DEF Start
<1>2. ASSUME NEW r \in Requests, Resume(r) \/ Reclaim(r) \/ Create(r) \/ Persist(r)
      PROVE  Stay
  BY <1>2 DEF Resume, Reclaim, Create, Persist, history
<1>3. ASSUME NEW r \in Requests, Change(r) \/ Expire(r) \/ Complete(r) PROVE Stay
  BY <1>3 DEF Change, Expire, Complete, history
<1>4. ASSUME NEW r \in Requests, Replace(r) \/ Reconcile(r) \/ Crash(r) PROVE Stay
  <2>1. CASE Replace(r)
    <3>1. /\ overlapped' = overlapped /\ dropped' = dropped
          /\ \/ replaced' = replaced
             \/ replaced' = (replaced \/ session[request[r].cur].status
                                           \in {"open", "complete"})
      BY <2>1, Zenon DEF Replace
    <3>2. CASE replaced' = replaced
      BY <3>1, <3>2
    <3>3. CASE replaced' = (replaced \/ session[request[r].cur].status
                                           \in {"open", "complete"})
      <4>1. replaced => replaced'
        BY <3>3
      <4>2. QED
        BY <3>1, <4>1
    <3>4. QED
      BY <3>1, <3>2, <3>3
  <2>2. CASE Reconcile(r)
    BY <2>2 DEF Reconcile
  <2>3. CASE Crash(r)
    BY <2>3 DEF Crash
  <2>4. QED
    BY <1>4, <2>1, <2>2, <2>3
<1>5. ASSUME NEW a \in Ids,
             SessionCompleted(a) \/ SubscriptionChanged(a) \/ Pay(a) \/ SessionExpires(a)
      PROVE  Stay
  BY <1>5 DEF SessionCompleted, SubscriptionChanged, Pay, SessionExpires, history
<1>6. QED
  BY <1>1, <1>2, <1>3, <1>4, <1>5 DEF Next, Step

(* Every step keeps both.                                                  *)
LEMMA StepAlone ==
  ASSUME IInv, AloneInv, PaysInv, Next
  PROVE  AloneInv' /\ PaysInv'
<1>1. /\ ~overlapped' => ~overlapped
      /\ Undisturbed' => Undisturbed /\ ~overlapped' /\ ~replaced' /\ ~dropped'
  BY FlagsStay DEF Undisturbed
<1> SUFFICES ASSUME ~overlapped'
             PROVE  Alone' /\ (OnePays /\ ~replaced' /\ ~dropped' => OnePays')
  BY <1>1 DEF AloneInv, PaysInv, Undisturbed
<1>2. Alone
  BY <1>1 DEF AloneInv
<1>3. ASSUME NEW r \in Requests, Step(r)
      PROVE  Alone' /\ (OnePays /\ ~replaced' /\ ~dropped' => OnePays')
  <2>1. ASSUME NEW p \in Plans, Start(r, p)
        PROVE  Alone' /\ (OnePays => OnePays')
    BY <1>2, <2>1, StartAlone
  <2>2. ASSUME Reconcile(r)
        PROVE  Alone' /\ (OnePays /\ ~dropped' => OnePays')
    BY <1>2, <2>2, ReconcileAlone DEF Reconcile, Busy
  <2>3. QED
    BY <1>2, <1>3, <2>1, <2>2, ResumeAlone, ReclaimAlone, CreateAlone, PersistAlone,
       ChangeAlone, ExpireAlone, ReplaceAlone, CompleteAlone, CrashAlone DEF Step
<1>4. ASSUME NEW a \in Ids, SessionCompleted(a) \/ SubscriptionChanged(a)
                            \/ Pay(a) \/ SessionExpires(a)
      PROVE  Alone' /\ (OnePays => OnePays')
  BY <1>2, <1>4, EventAlone, StripeAlone
<1>5. QED
  BY <1>3, <1>4 DEF Next

LEMMA StutterAlone ==
  ASSUME AloneInv, PaysInv, UNCHANGED vars PROVE AloneInv' /\ PaysInv'
BY DEF vars, AloneInv, PaysInv, Alone, OneBusy, OneActive, SessionsMatch, HandedMatch,
   AllFollow, Follows, OnePays, OnePayable, BusyHolds, Covered, Payable, Active, Busy,
   Undisturbed

LEMMA InitAlone == Init => AloneInv /\ PaysInv
<1> SUFFICES ASSUME Init PROVE Alone /\ OnePays
  BY DEF AloneInv, PaysInv
<1>1. /\ \A r \in Requests : ~Busy(r)
      /\ \A a \in Ids : attempt[a].status = "none" /\ session[a].status = "none"
      /\ handed = {}
  BY DEF Init, Busy, NoRequest, NoAttempt, NoSession
<1>2. QED
  BY <1>1 DEF Alone, OneBusy, OneActive, SessionsMatch, HandedMatch, AllFollow,
     OnePays, OnePayable, BusyHolds, Covered, Payable, Active

THEOREM AloneInvariance == Spec => [](AloneInv /\ PaysInv)
<1>1. IInv /\ AloneInv /\ PaysInv /\ [Next]_vars => AloneInv' /\ PaysInv'
  BY StepAlone, StutterAlone
<1>2. QED
  BY Invariance, InitAlone, <1>1, PTL DEF Spec

(* As long as requests come one after the other, every checkout URL that   *)
(* was returned sells the plan that was asked for.                         *)
THEOREM HandsWhatWasAskedFor == Spec => []HandsWhatWasAskedAlone
<1>1. AloneInv => HandsWhatWasAskedAlone
  BY DEF AloneInv, Alone, HandedMatch, HandsWhatWasAskedAlone, HandsWhatWasAsked
<1>2. QED
  BY AloneInvariance, <1>1, PTL

(* As long as requests come one after the other, none gives up a session   *)
(* that can be paid and none leaves a completed attempt unreconciled, one  *)
(* subscription at most is ever paid, whatever fails and however late the  *)
(* webhook is.                                                             *)
THEOREM PaysOnce == Spec => []OneSubscriptionUndisturbed
<1>1. PaysInv => OneSubscriptionUndisturbed
  BY DEF PaysInv, Undisturbed, OnePays, OnePayable, Payable, OneSubscriptionUndisturbed,
     OneSubscription, Paid
<1>2. QED
  BY AloneInvariance, <1>1, PTL
=============================================================================
