---------------------------- MODULE OutboxPromise ----------------------------
(***************************************************************************)
(* What the after-action email outbox promises for each accepted job:      *)
(* confirmed deliveries only accumulate, a job ends once, as succeeded     *)
(* only with a confirmed delivery, and nothing happens to it afterwards.   *)
(* That every accepted job does end is EveryJobEnds of EmailOutbox.        *)
(***************************************************************************)
CONSTANTS Jobs, Recipients

VARIABLES outcome, confirmed

vars == <<outcome, confirmed>>

Init ==
  /\ outcome = [j \in Jobs |-> "none"]
  /\ confirmed = [j \in Jobs |-> {}]

Accept(j) ==
  /\ outcome[j] = "none"
  /\ outcome' = [outcome EXCEPT ![j] = "open"]
  /\ UNCHANGED confirmed

Confirm(j) ==
  /\ outcome[j] = "open"
  /\ \E r \in Recipients \ confirmed[j] :
       confirmed' = [confirmed EXCEPT ![j] = @ \cup {r}]
  /\ UNCHANGED outcome

Succeed(j) ==
  /\ outcome[j] = "open"
  /\ confirmed[j] # {}
  /\ outcome' = [outcome EXCEPT ![j] = "succeeded"]
  /\ UNCHANGED confirmed

Fail(j) ==
  /\ outcome[j] = "open"
  /\ outcome' = [outcome EXCEPT ![j] = "failed"]
  /\ UNCHANGED confirmed

Next == \E j \in Jobs : Accept(j) \/ Confirm(j) \/ Succeed(j) \/ Fail(j)

Spec == Init /\ [][Next]_vars
=============================================================================
