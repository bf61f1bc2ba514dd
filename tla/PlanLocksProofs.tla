--------------------------- MODULE PlanLocksProofs ---------------------------
(***************************************************************************)
(* For any records, plans, catalog and number of requests in flight: the   *)
(* state is well typed, a guarded category never exceeds the plan by more  *)
(* than the requests that overlap, and not at all while none do.           *)
(*                                                                         *)
(* Usage alone is not inductive: a request that has passed its check still *)
(* brings its record.  Claimed(k) adds those records, and InBounds bounds  *)
(* it: a request is let in below the limit only, so that at most the       *)
(* requests in flight come on top of it, and one alone stays within it.    *)
(***************************************************************************)
EXTENDS PlanLocks, FiniteSetTheorems, WellFoundedInduction, TLAPS

RequestStates == [op : Ops \cup {"none"}, to : Places,
                  record : Records \cup {NoRecord}, unlock : BOOLEAN]

(* The records a request in flight will open in category k.                *)
Coming(k) ==
  {r \in Records : \E q \in Requests :
     request[q].record = r /\ request[q].to = k /\ request[q].unlock}

Claimed(k) == (In(k) \cap unlocked) \cup Coming(k)

(* What the checks of the requests in flight have established: their       *)
(* record is of a kind that can be where it goes, and one that only        *)
(* changes place into a guarded category is unlocked.                      *)
RequestsInOrder ==
  \A q \in Requests : request[q] # NoRequest =>
    /\ request[q].op \in Ops /\ request[q].record \in Records
    /\ request[q].to \in PlacesOf(request[q].record)
    /\ request[q].op = "status" /\ request[q].to \in Guarded => request[q].unlock

(* Before the first overlap a request in flight is alone.                  *)
Alone ==
  ~overlapped => \A p, q \in Requests :
    request[p] # NoRequest /\ request[q] # NoRequest => p = q

Slack == IF overlapped THEN Cardinality(Requests) ELSE 0

Bounded(k) == Cardinality(Claimed(k)) <= Limit[plan][k] + Slack

Unused(k) == k = "structured" /\ ~HasFeature(plan)

InBounds == \A k \in Guarded : Unused(k) \/ Bounded(k)

IInv == TypeOK /\ RequestsInOrder /\ Alone /\ InBounds
-----------------------------------------------------------------------------
(* A set of records has a size.                                            *)
LEMMA Sizes ==
  ASSUME NEW S \in SUBSET Records
  PROVE  IsFiniteSet(S) /\ Cardinality(S) \in Nat
BY PlanLocksAssumption, FS_Subset, FS_CardinalityType

LEMMA Smaller ==
  ASSUME NEW S \in SUBSET Records, NEW T \in SUBSET S
  PROVE  Cardinality(T) <= Cardinality(S)
BY Sizes, FS_Subset

(* There are no more records to come than requests in flight: each is the  *)
(* record of a different one.                                              *)
LEMMA ComingBounded ==
  ASSUME NEW rq, NEW S, \A r \in S : \E q \in Requests : rq[q].record = r
  PROVE  Cardinality(S) <= Cardinality(Requests)
<1> DEFINE Bringer(r) == CHOOSE q \in Requests : rq[q].record = r
           f == [r \in S |-> Bringer(r)]
<1>1. \A r \in S : Bringer(r) \in Requests /\ rq[Bringer(r)].record = r
  OBVIOUS
<1>2. f \in Injection(S, Requests)
  BY <1>1 DEF Injection, IsInjective
<1>3. QED
  BY <1>2, PlanLocksAssumption, FS_Injection

LEMMA RequestCount == Cardinality(Requests) \in Nat
BY PlanLocksAssumption, FS_CardinalityType

LEMMA OneMore ==
  ASSUME NEW S \in SUBSET Records, NEW r
  PROVE  Cardinality(S \cup {r}) <= Cardinality(S) + 1
BY Sizes, FS_AddElement

LEMMA Together ==
  ASSUME NEW S \in SUBSET Records, NEW T \in SUBSET Records
  PROVE  Cardinality(S \cup T) <= Cardinality(S) + Cardinality(T)
<1>1. Cardinality(S \cup T) = Cardinality(S) + Cardinality(T) - Cardinality(S \cap T)
  BY Sizes, FS_Union
<1>2. /\ Cardinality(S) \in Nat /\ Cardinality(T) \in Nat
      /\ Cardinality(S \cap T) \in Nat
  BY Sizes
<1>3. QED
  BY <1>1, <1>2

(* Of the Structured Groups a plan change keeps the oldest, at most as     *)
(* many as the plan allows: the youngest of them counts all of them.       *)
LEMMA OldestFit ==
  ASSUME TypeOK, NEW p \in Plans
  PROVE  Cardinality(Oldest(p)) <= Limit[p]["structured"]
<1> DEFINE S == In("structured")
           n == Limit[p]["structured"]
           UpTo(g) == {h \in S : h <= g}
           Left(g) == n - Cardinality(UpTo(g))
           T == {Left(g) : g \in Oldest(p)}
<1>1. n \in Nat
  BY PlanLocksAssumption DEF Capped
<1>2. S \subseteq Groups /\ S \subseteq Records
  BY DEF In, TypeOK, PlacesOf, Staff, Inactive, Records
<1>3. \A g : Cardinality(UpTo(g)) \in Nat /\ IsFiniteSet(UpTo(g))
  BY <1>2, Sizes
<1>4. \A g \in Oldest(p) : g \in S /\ Left(g) \in Nat
  BY <1>1, <1>3 DEF Oldest
<1>5. CASE Oldest(p) = {}
  BY <1>1, <1>5, FS_EmptySet
<1>6. CASE Oldest(p) # {}
  <2>1. PICK m \in T : \A y \in T : ~ (<<y, m>> \in OpToRel(<, Nat))
    <3>1. T \subseteq Nat /\ T # {}
      BY <1>4, <1>6
    <3>2. QED
      BY <3>1, NatLessThanWellFounded, WFMin, Zenon
  <2>2. PICK g \in Oldest(p) : m = Left(g)
    BY <2>1
  <2>3. ASSUME NEW h \in Oldest(p) PROVE h <= g
    <3>1. g \in S /\ h \in S /\ g \in Nat /\ h \in Nat
      <4>1. g \in S /\ h \in S
        BY <1>4
      <4>2. QED
        BY <4>1, <1>2, PlanLocksAssumption
    <3>2. CASE h > g
      <4>1. UpTo(g) \subseteq UpTo(h)
        <5>1. ASSUME NEW x \in UpTo(g) PROVE x <= h
          <6>1. x \in Nat /\ x <= g
            BY <1>2, PlanLocksAssumption
          <6>2. QED
            BY <6>1, <3>1, <3>2
        <5>2. QED
          BY <5>1
      <4>2. h \in UpTo(h) /\ h \notin UpTo(g)
        BY <3>1, <3>2
      <4>3. /\ Cardinality(UpTo(g)) <= Cardinality(UpTo(h))
            /\ Cardinality(UpTo(g)) # Cardinality(UpTo(h))
        <5> HIDE DEF UpTo
        <5>1. QED
          BY <4>1, <4>2, <1>3, FS_Subset
      <4>4. Cardinality(UpTo(g)) \in Nat /\ Cardinality(UpTo(h)) \in Nat
        BY <1>3
      <4>5. Left(g) \in Nat /\ Left(h) \in Nat
        BY <1>4
      <4>6. Left(h) < Left(g)
        BY <4>3, <4>4, <1>1
      <4>7. <<Left(h), m>> \in OpToRel(<, Nat)
        <5> HIDE DEF Left
        <5>1. QED
          BY <4>5, <4>6, <2>2, Zenon DEF OpToRel
      <4>8. Left(h) \in T
        OBVIOUS
      <4>9. QED
        BY <4>7, <4>8, <2>1
    <3>3. QED
      BY <3>1, <3>2
  <2>4. Oldest(p) \subseteq UpTo(g)
    BY <2>3 DEF Oldest
  <2>5. Cardinality(Oldest(p)) <= Cardinality(UpTo(g)) /\ Cardinality(UpTo(g)) <= n
    BY <2>4, <1>3, FS_Subset DEF Oldest
  <2>6. QED
    BY <2>5, <1>1, <1>3, <2>4, <1>2, Sizes
<1>7. QED
  BY <1>5, <1>6

(* sync_plan_locks_after_plan_change leaves a guarded category within the  *)
(* new plan.                                                               *)
LEMMA SyncFits ==
  ASSUME TypeOK, NEW p \in Plans, NEW k \in Guarded
  PROVE  Cardinality(In(k) \cap SyncedUnlocked(p)) <= Limit[p][k]
<1> DEFINE kept == In(k) \cap SyncedUnlocked(p)
<1>0. k \in Capped
  BY DEF Guarded
<1>1. /\ Limit[p][k] \in Nat
      /\ k \in Kinds \cup {"structured"}
  BY <1>0, PlanLocksAssumption DEF Capped
<1>2. In(k) \in SUBSET Records /\ kept \in SUBSET In(k)
  BY DEF In
<1>3. \A r \in kept : place[r] = k /\ StaysOpen(r, p)
  BY DEF In, SyncedUnlocked
<1>4. CASE k = "structured"
  <2>1. ASSUME NEW r \in kept PROVE r \in Oldest(p)
    <3>1. place[r] = "structured" /\ StaysOpen(r, p)
      BY <1>3, <1>4
    <3>2. QED
      BY <3>1 DEF StaysOpen, Kinds, OneTime, Staff, Inactive
  <2>2. Oldest(p) \in SUBSET Records
    BY <1>2, <1>4 DEF Oldest, In
  <2>3. Cardinality(kept) <= Cardinality(Oldest(p))
    BY <2>1, <2>2, Smaller
  <2>4. /\ Cardinality(Oldest(p)) <= Limit[p][k]
        /\ Cardinality(kept) \in Nat /\ Cardinality(Oldest(p)) \in Nat
    BY <1>2, <1>4, <2>2, OldestFit, Sizes
  <2>5. QED
    BY <2>3, <2>4, <1>1
<1>5. CASE k # "structured"
  <2>1. k \in Kinds
    BY <1>1, <1>5
  <2>2. ASSUME NEW r \in kept
        PROVE  Fits(k, p) \/ (KeepsSubset(k, p) /\ r \in unlocked)
    <3>1. place[r] # "structured" /\ place[r] \in Kinds /\ StaysOpen(r, p)
      BY <1>3, <1>5, <2>1
    <3>2. Fits(place[r], p) \/ (KeepsSubset(place[r], p) /\ r \in unlocked)
      BY <3>1 DEF StaysOpen, Kinds, OneTime, Staff, Inactive
    <3>3. QED
      BY <3>2, <1>3
  <2>3. CASE Fits(k, p)
    <3>1. Cardinality(kept) <= Cardinality(In(k)) /\ Cardinality(In(k)) <= Limit[p][k]
      BY <2>3, <1>2, Smaller DEF Fits
    <3>2. Cardinality(kept) \in Nat /\ Cardinality(In(k)) \in Nat
      BY <1>2, Sizes
    <3>3. QED
      BY <3>1, <3>2, <1>1
  <2>4. CASE ~Fits(k, p) /\ KeepsSubset(k, p)
    <3>1. kept \in SUBSET (In(k) \cap unlocked)
      BY <2>2, <2>4
    <3>2. Cardinality(kept) <= Cardinality(In(k) \cap unlocked)
      BY <3>1, <1>2, Smaller
    <3>3. QED
      BY <3>2, <2>4 DEF KeepsSubset
  <2>5. CASE ~Fits(k, p) /\ ~KeepsSubset(k, p)
    BY <2>2, <2>5, <1>1, FS_EmptySet
  <2>6. QED
    BY <2>3, <2>4, <2>5
<1>6. QED
  BY <1>4, <1>5

(* Nothing new is claimed, under the same plan.                            *)
LEMMA NothingNew ==
  ASSUME IInv, TypeOK', NEW k \in Guarded, Bounded(k),
         plan' = plan, overlapped => overlapped', Claimed(k)' \subseteq Claimed(k)
  PROVE  Bounded(k)'
<1>1. Claimed(k) \in SUBSET Records /\ Claimed(k)' \in SUBSET Records
  BY DEF Claimed, Coming, In
<1>2. /\ Cardinality(Claimed(k)') <= Cardinality(Claimed(k))
      /\ Cardinality(Claimed(k)') \in Nat /\ Cardinality(Claimed(k)) \in Nat
  BY <1>1, Smaller, Sizes
<1>3. Slack <= Slack' /\ Slack \in Nat /\ Slack' \in Nat
  BY RequestCount DEF Slack, IInv, TypeOK
<1>4. Limit[plan][k] \in Nat
  BY PlanLocksAssumption DEF Guarded, IInv, TypeOK
<1>5. QED
  BY <1>2, <1>3, <1>4 DEF Bounded

(* What is open fits the plan and the requests are those of before.        *)
LEMMA OpenFits ==
  ASSUME IInv, TypeOK', NEW k \in Guarded, request' = request,
         overlapped' = (overlapped \/ InFlight),
         Cardinality((In(k) \cap unlocked)') <= Limit[plan'][k]
  PROVE  Bounded(k)'
<1> DEFINE open == (In(k) \cap unlocked)'
<1>1. open \in SUBSET Records /\ Coming(k)' \in SUBSET Records
  BY DEF In, Coming
<1>2. /\ Cardinality(open) \in Nat /\ Cardinality(Coming(k)') \in Nat
      /\ Cardinality(Claimed(k)') <= Cardinality(open) + Cardinality(Coming(k)')
      /\ Cardinality(Claimed(k)') \in Nat
  <2>1. Claimed(k)' = open \cup Coming(k)'
    BY DEF Claimed
  <2>2. QED
    BY <1>1, <2>1, Sizes, Together
<1>3. Limit[plan'][k] \in Nat
  BY PlanLocksAssumption DEF Guarded, TypeOK
<1>4. CASE overlapped'
  <2>1. Slack' = Cardinality(Requests)
    BY <1>4 DEF Slack
  <2>2. \A r \in Coming(k)' : \E q \in Requests : request'[q].record = r
    BY DEF Coming
  <2>3. Cardinality(Coming(k)') <= Cardinality(Requests) /\ Cardinality(Requests) \in Nat
    BY <2>2, ComingBounded, RequestCount
  <2>4. QED
    BY <1>2, <1>3, <2>1, <2>3 DEF Bounded
<1>5. CASE ~overlapped'
  <2>1. Slack' = 0
    BY <1>5 DEF Slack
  <2>2. Coming(k)' = {}
    <3>1. \A q \in Requests : request[q] = NoRequest
      BY <1>5 DEF InFlight
    <3>2. \A q \in Requests : request'[q].unlock = FALSE
      BY <3>1 DEF NoRequest
    <3>3. QED
      BY <3>2 DEF Coming
  <2>3. QED
    BY <1>2, <1>3, <2>1, <2>2, FS_EmptySet DEF Bounded
<1>6. QED
  BY <1>4, <1>5
-----------------------------------------------------------------------------
(* At the start there is nothing.                                          *)
LEMMA InitInv == Init => IInv
<1> SUFFICES ASSUME Init PROVE IInv
  OBVIOUS
<1>1. NoRequest \in RequestStates
  BY DEF NoRequest, RequestStates, Places, Capped, Kinds
<1>2. TypeOK
  <2>1. "none" \in Places /\ \A r \in Records : "none" \in PlacesOf(r)
    BY DEF Places, PlacesOf
  <2>2. /\ place \in [Records -> Places]
        /\ \A r \in Records : place[r] \in PlacesOf(r)
    BY <2>1 DEF Init
  <2>3. resolved \in [Kinds -> BOOLEAN]
    BY DEF Init
  <2>4. request \in [Requests -> RequestStates]
    BY <1>1 DEF Init
  <2>5. operations \in 0 .. MaxOperations /\ changes \in 0 .. MaxPlanChanges
    BY PlanLocksAssumption DEF Init
  <2>6. QED
    BY <2>2, <2>3, <2>4, <2>5, PlanLocksAssumption DEF Init, TypeOK, RequestStates
<1>3. RequestsInOrder /\ Alone
  BY DEF Init, RequestsInOrder, Alone
<1>4. ASSUME NEW k \in Guarded PROVE Bounded(k)
  <2>1. In(k) = {}
    BY DEF Init, In, Guarded, Capped, Kinds, OneTime, Staff
  <2>2. Coming(k) = {}
    BY DEF Init, Coming, NoRequest
  <2>3. Limit[plan][k] \in Nat /\ Slack = 0
    BY PlanLocksAssumption DEF Init, Guarded, Slack
  <2>4. QED
    BY <2>1, <2>2, <2>3, FS_EmptySet DEF Bounded, Claimed
<1>5. QED
  BY <1>2, <1>3, <1>4 DEF IInv, InBounds

(* The locks after a synchronisation are well typed.                       *)
LEMMA SyncType ==
  ASSUME NEW p \in Plans, Sync(p)
  PROVE  /\ unlocked' \subseteq Records /\ resolved' \in [Kinds -> BOOLEAN]
         /\ touched' \in BOOLEAN
<1>1. ASSUME NEW k \in Kinds
      PROVE  (Limit[p][k] = 0 \/ Fits(k, p) \/ KeepsSubset(k, p)) \in BOOLEAN
  BY DEF Fits, KeepsSubset
<1>2. QED
  BY <1>1 DEF Sync, SyncedUnlocked, SyncedResolved

(* A step that leaves the requests and the places as they are.             *)
LEMMA RequestsStay ==
  ASSUME IInv, request' = request, overlapped' = (overlapped \/ InFlight)
  PROVE  RequestsInOrder' /\ Alone'
BY DEF IInv, RequestsInOrder, Alone

LEMMA ChangePlanKeeps ==
  ASSUME IInv, NEW p \in Plans, ChangePlan(p) PROVE IInv'
<1>1. TypeOK'
  <2>1. changes + 1 \in 0 .. MaxPlanChanges
    BY PlanLocksAssumption DEF ChangePlan, IInv, TypeOK
  <2>2. QED
    BY <2>1, SyncType DEF ChangePlan, IInv, TypeOK, InFlight
<1>2. ASSUME NEW k \in Guarded PROVE Bounded(k)'
  <2>1. (In(k) \cap unlocked)' = In(k) \cap SyncedUnlocked(p) /\ plan' = p
    BY DEF ChangePlan, Sync, In
  <2>2. Cardinality((In(k) \cap unlocked)') <= Limit[plan'][k]
    BY <2>1, SyncFits DEF IInv
  <2>3. QED
    BY <2>2, <1>1, OpenFits DEF ChangePlan
<1>3. QED
  BY <1>1, <1>2, RequestsStay DEF ChangePlan, IInv, InBounds

LEMMA SelfHealKeeps ==
  ASSUME IInv, SelfHeal PROVE IInv'
<1>0. plan \in Plans
  BY DEF IInv, TypeOK
<1>1. TypeOK'
  BY <1>0, SyncType DEF SelfHeal, IInv, TypeOK, InFlight
<1>2. ASSUME NEW k \in Guarded PROVE Bounded(k)'
  <2>1. (In(k) \cap unlocked)' = In(k) \cap SyncedUnlocked(plan) /\ plan' = plan
    BY DEF SelfHeal, Sync, In
  <2>2. Cardinality((In(k) \cap unlocked)') <= Limit[plan'][k]
    BY <2>1, <1>0, SyncFits DEF IInv
  <2>3. QED
    BY <2>2, <1>1, OpenFits DEF SelfHeal
<1>3. QED
  BY <1>1, <1>2, RequestsStay DEF SelfHeal, IInv, InBounds

(* A step that claims nothing new, under the same plan.                    *)
LEMMA NoMoreClaims ==
  ASSUME IInv, TypeOK', plan' = plan, overlapped => overlapped',
         \A k \in Guarded : Claimed(k)' \subseteq Claimed(k)
  PROVE  InBounds'
<1> SUFFICES ASSUME NEW k \in Guarded, ~Unused(k)' PROVE Bounded(k)'
  BY DEF InBounds
<1>1. ~Unused(k)
  BY DEF Unused, HasFeature
<1>2. Bounded(k)
  BY <1>1 DEF IInv, InBounds
<1>3. QED
  BY <1>2, NothingNew

(* The owner opens at most the limit of one category, and locks the rest   *)
(* of it; nothing changes in the others.                                   *)
LEMMA SelectKeeps ==
  ASSUME IInv, NEW k \in Kinds, NEW selected \in SUBSET In(k), Select(k, selected)
  PROVE  IInv'
<1>1. TypeOK'
  <2>1. unlocked' \subseteq Records
    BY DEF Select, In, IInv, TypeOK
  <2>2. resolved' \in [Kinds -> BOOLEAN] /\ touched' \in BOOLEAN /\ overlapped' \in BOOLEAN
    BY DEF Select, IInv, TypeOK, InFlight
  <2>3. QED
    BY <2>1, <2>2 DEF Select, IInv, TypeOK
<1>2. ASSUME NEW j \in Guarded, ~Unused(j)' PROVE Bounded(j)'
  <2>0. In(j)' = In(j) /\ plan' = plan /\ Coming(j)' = Coming(j)
    BY DEF Select, In, Coming
  <2>1. CASE j = k
    <3>1. (In(j) \cap unlocked)' \in SUBSET selected /\ selected \in SUBSET Records
      BY <2>0, <2>1 DEF Select, In
    <3>2. Cardinality(selected) <= Limit[plan'][j]
      BY <2>0, <2>1 DEF Select, RightNumber
    <3>3. Limit[plan'][j] \in Nat
      BY <1>1, PlanLocksAssumption DEF Guarded, TypeOK
    <3>4. Cardinality((In(j) \cap unlocked)') <= Limit[plan'][j]
      BY <3>1, <3>2, <3>3, Smaller, Sizes
    <3>5. QED
      BY <3>4, <1>1, OpenFits DEF Select
  <2>2. CASE j # k
    <3>1. Claimed(j)' \subseteq Claimed(j)
      BY <2>0, <2>2 DEF Claimed, Select, In
    <3>2. Bounded(j)
      BY <2>0, <1>2 DEF IInv, InBounds, Unused, HasFeature
    <3>3. QED
      BY <3>1, <3>2, <2>0, <1>1, NothingNew DEF Select
  <2>3. QED
    BY <2>1, <2>2
<1>3. QED
  BY <1>1, <1>2, RequestsStay DEF Select, IInv, InBounds

(* A request that gives up claims its record no more.                      *)
LEMMA GiveUpKeeps ==
  ASSUME IInv, NEW q \in Requests, GiveUp(q) PROVE IInv'
<1>1. NoRequest \in RequestStates
  BY DEF NoRequest, RequestStates, Places, Capped, Kinds
<1>2. request' \in [Requests -> RequestStates]
  BY <1>1 DEF GiveUp, IInv, TypeOK, RequestStates
<1>3. TypeOK'
  BY <1>2 DEF GiveUp, IInv, TypeOK, RequestStates
<1>4. RequestsInOrder' /\ Alone'
  BY DEF GiveUp, IInv, TypeOK, RequestsInOrder, Alone
<1>5. ASSUME NEW k \in Guarded PROVE Claimed(k)' \subseteq Claimed(k)
  BY DEF GiveUp, IInv, TypeOK, Claimed, Coming, In, NoRequest
<1>6. QED
  BY <1>3, <1>4, <1>5, NoMoreClaims DEF GiveUp, IInv

LEMMA DeleteAccountKeeps ==
  ASSUME IInv, NEW r \in Accounts, DeleteAccount(r) PROVE IInv'
<1>0. r \in Records
  BY DEF Records
<1>1. TypeOK'
  <2>1. operations + 1 \in 0 .. MaxOperations
    BY PlanLocksAssumption DEF DeleteAccount, IInv, TypeOK
  <2>2. place' \in [Records -> Places] /\ \A x \in Records : place'[x] \in PlacesOf(x)
    BY DEF DeleteAccount, IInv, TypeOK, Places, PlacesOf
  <2>3. QED
    BY <2>1, <2>2 DEF DeleteAccount, IInv, TypeOK, InFlight
<1>2. ASSUME NEW k \in Guarded PROVE Claimed(k)' \subseteq Claimed(k)
  <2>1. k # "deleted"
    BY DEF Guarded, Capped, Kinds, OneTime, Staff
  <2>2. QED
    BY <2>1, <1>0 DEF DeleteAccount, IInv, TypeOK, Claimed, Coming, In
<1>3. QED
  BY <1>1, <1>2, NoMoreClaims, RequestsStay DEF DeleteAccount, IInv

(* What a request writes it has claimed: an unlocked record of a guarded   *)
(* category is one that was coming, or was there before.                   *)
LEMMA WriteKeeps ==
  ASSUME IInv, NEW q \in Requests, Write(q) PROVE IInv'
<1> DEFINE r == request[q].record
           to == request[q].to
<1>0. /\ r \in Records /\ to \in PlacesOf(r) /\ to \in Places
      /\ request[q].unlock \in BOOLEAN
      /\ request[q].op = "status" /\ to \in Guarded => request[q].unlock
  BY DEF Write, IInv, TypeOK, RequestsInOrder
<1>1. NoRequest \in RequestStates
  BY DEF NoRequest, RequestStates, Places, Capped, Kinds
<1>2. request' \in [Requests -> RequestStates]
  BY <1>1 DEF Write, IInv, TypeOK, RequestStates
<1>3. unlocked' \in {unlocked, unlocked \cup {r}, unlocked \ {r}}
  BY DEF Write
<1>4. TypeOK'
  <2>1. /\ place' \in [Records -> Places]
        /\ \A x \in Records : place'[x] \in PlacesOf(x)
    BY <1>0 DEF Write, IInv, TypeOK
  <2>2. unlocked' \subseteq Records
    BY <1>0, <1>3 DEF IInv, TypeOK
  <2>3. QED
    BY <1>2, <2>1, <2>2 DEF Write, IInv, TypeOK, RequestStates
<1>5. RequestsInOrder' /\ Alone'
  BY DEF Write, IInv, TypeOK, RequestsInOrder, Alone
<1>6. ASSUME NEW k \in Guarded, NEW x \in Claimed(k)' PROVE x \in Claimed(k)
  <2>1. CASE x \in Coming(k)'
    BY <2>1 DEF Write, IInv, TypeOK, Claimed, Coming, NoRequest
  <2>2. CASE x \in (In(k) \cap unlocked)' /\ x # r
    <3>1. place[x] = k /\ x \in unlocked /\ x \in Records
      BY <2>2, <1>3 DEF Write, In, IInv, TypeOK
    <3>2. QED
      BY <3>1 DEF Claimed, In
  <2>3. CASE x \in (In(k) \cap unlocked)' /\ x = r
    <3>1. to = k
      BY <2>3, <1>0 DEF Write, In, IInv, TypeOK
    <3>2. request[q].unlock
      <4>1. CASE request[q].op = "status"
        BY <4>1, <3>1, <1>0
      <4>2. CASE request[q].op # "status" /\ ~request[q].unlock
        <5>1. unlocked' = unlocked \ {r}
          BY <4>2 DEF Write
        <5>2. QED
          BY <5>1, <2>3
      <4>3. QED
        BY <4>1, <4>2
    <3>3. QED
      BY <3>1, <3>2, <2>3, <1>0 DEF Claimed, Coming
  <2>4. QED
    BY <2>1, <2>2, <2>3 DEF Claimed
<1>7. QED
  BY <1>4, <1>5, <1>6, NoMoreClaims DEF Write, IInv

(* What a check lets through goes where its record can be, is below the    *)
(* limit or already counted, and keeps the lock where it only moves.       *)
Admissible(op, r, to, unlock) ==
  /\ to \in PlacesOf(r)
  /\ op = "status" /\ to \in Guarded => unlock
  /\ to \in Guarded /\ unlock => Allowed(to) \/ r \in In(to) \cap unlocked

LEMMA GroupChecked ==
  ASSUME IInv, NEW op \in Ops, NEW r \in Groups, NEW to, NEW unlock \in BOOLEAN,
         GroupRequest(op, r, to),
         unlock = (op \in {"create", "restore"} \/ (op # "delete" /\ r \in unlocked))
  PROVE  Admissible(op, r, to, unlock)
<1>1. r \in Records /\ r \notin Accounts /\ r \notin Members
  BY PlanLocksAssumption DEF Records
<1>2. GroupHome(r) \in {"groups", "structured"} /\ GroupHome(r) \in PlacesOf(r)
  BY <1>1 DEF GroupHome, PlacesOf
<1>3. CASE op = "create"
  BY <1>1, <1>2, <1>3 DEF GroupRequest, CreateGroup, Admissible
<1>4. CASE op = "edit"
  BY <1>1, <1>2, <1>4 DEF GroupRequest, EditGroup, GroupUnlocked, Admissible, In
<1>5. CASE op = "status" /\ to = "archived"
  BY <1>1, <1>5 DEF Admissible, PlacesOf, Guarded
<1>6. CASE op = "status" /\ to # "archived"
  BY <1>1, <1>2, <1>6 DEF GroupRequest, RestoreGroup, GroupUnlocked, Admissible
<1>7. CASE op = "delete"
  BY <1>1, <1>7 DEF GroupRequest, Admissible, PlacesOf
<1>8. QED
  BY <1>3, <1>4, <1>5, <1>6, <1>7 DEF GroupRequest

LEMMA MemberChecked ==
  ASSUME IInv, NEW op \in Ops, NEW r \in Members, NEW to, NEW unlock \in BOOLEAN,
         MemberRequest(op, r, to),
         unlock = (op \in {"create", "restore"} \/ (op # "delete" /\ r \in unlocked))
  PROVE  Admissible(op, r, to, unlock)
<1>1. r \in Records /\ r \notin Accounts
  BY PlanLocksAssumption DEF Records
<1>2. to \in {"members", "away", "deleted"}
  BY DEF MemberRequest
<1>3. to \in PlacesOf(r) /\ (op = "status" => to \notin Guarded)
  BY <1>1, <1>2 DEF MemberRequest, PlacesOf, Guarded, Capped, Kinds, OneTime, Staff
<1>4. CASE op = "edit"
  BY <1>1, <1>3, <1>4 DEF MemberRequest, EditMember, Admissible, In
<1>5. CASE op \in {"create", "restore"}
  BY <1>3, <1>5 DEF MemberRequest, CreateMember, RestoreMember, Admissible
<1>6. CASE op \in {"status", "delete"}
  BY <1>3, <1>6 DEF MemberRequest, Admissible
<1>7. QED
  BY <1>4, <1>5, <1>6 DEF Ops

LEMMA AccountChecked ==
  ASSUME IInv, NEW op \in Ops, NEW r \in Accounts, NEW to, NEW unlock \in BOOLEAN,
         AccountRequest(op, r, to),
         unlock = (op \in {"create", "restore"} \/ (op # "delete" /\ r \in unlocked))
  PROVE  Admissible(op, r, to, unlock)
<1>1. r \in Records
  BY DEF Records
<1>2. to \in Staff \cup Inactive /\ to \in PlacesOf(r) /\ op # "status"
  BY DEF AccountRequest, PlacesOf
<1>3. ASSUME to \in Guarded PROVE to = "admins"
  BY <1>2, <1>3 DEF Guarded, Capped, Kinds, OneTime, Staff, Inactive
<1>4. CASE op = "create"
  BY <1>2, <1>4 DEF AccountRequest, CreateAccount, Admissible
<1>5. CASE op = "edit" /\ to = "admins"
  <2>1. place[r] = "admins" \/ Allowed("admins")
    BY <1>5 DEF AccountRequest, PatchAccount, Admin, Staff, Inactive
  <2>2. QED
    BY <2>1, <1>1, <1>2, <1>5 DEF Admissible, In
<1>6. CASE op = "edit" /\ to # "admins"
  BY <1>2, <1>3, <1>6 DEF Admissible
<1>7. QED
  BY <1>4, <1>5, <1>6 DEF AccountRequest

(* A request is let in when its record is already counted, or below the    *)
(* limit: then it is the one above what is open, or one of those in flight. *)
LEMMA CheckKeeps ==
  ASSUME IInv, NEW q \in Requests, Check(q) PROVE IInv'
<1>1. PICK op \in Ops, r \in Records, to \in Places :
        /\ \/ r \in Groups /\ GroupRequest(op, r, to)
           \/ r \in Members /\ MemberRequest(op, r, to)
           \/ r \in Accounts /\ AccountRequest(op, r, to)
        /\ request' = [request EXCEPT ![q] =
             [op |-> op, record |-> r, to |-> to,
              unlock |-> \/ op \in {"create", "restore"}
                         \/ (op # "delete" /\ r \in unlocked)]]
  BY DEF Check
<1> DEFINE unlock == op \in {"create", "restore"} \/ (op # "delete" /\ r \in unlocked)
           new == [op |-> op, record |-> r, to |-> to, unlock |-> unlock]
<1>2. unlock \in BOOLEAN
  OBVIOUS
<1>3. Admissible(op, r, to, unlock)
  <2> HIDE DEF unlock
  <2>1. unlock = (op \in {"create", "restore"} \/ (op # "delete" /\ r \in unlocked))
    BY DEF unlock
  <2>2. QED
    BY <1>1, <1>2, <2>1, GroupChecked, MemberChecked, AccountChecked
<1>4. request[q] = NoRequest /\ request' = [request EXCEPT ![q] = new]
  BY <1>1 DEF Check
<1> HIDE DEF unlock
<1>5. request' \in [Requests -> RequestStates]
  BY <1>2, <1>4 DEF IInv, TypeOK, RequestStates
<1>6. TypeOK'
  <2>1. operations + 1 \in 0 .. MaxOperations
    BY PlanLocksAssumption DEF Check, IInv, TypeOK
  <2>2. QED
    BY <1>5, <2>1 DEF Check, IInv, TypeOK, RequestStates, InFlight
<1>7. RequestsInOrder'
  BY <1>3, <1>4 DEF Admissible, IInv, TypeOK, RequestsInOrder
<1>8. Alone'
  BY <1>4 DEF Check, InFlight, Alone, IInv, TypeOK
<1>9. ASSUME NEW k \in Guarded, ~Unused(k)' PROVE Bounded(k)'
  <2>0. plan' = plan /\ In(k)' = In(k) /\ unlocked' = unlocked
    BY DEF Check, In
  <2>1. /\ ~Unused(k) /\ Bounded(k) /\ overlapped' = (overlapped \/ InFlight)
    BY <2>0, <1>9 DEF IInv, InBounds, Unused, HasFeature, Check
  <2>2. ASSUME NEW x \in Coming(k)'
        PROVE  x \in Coming(k) \/ (x = r /\ to = k /\ unlock)
    <3>1. PICK p \in Requests : /\ request'[p].record = x
                                /\ request'[p].to = k /\ request'[p].unlock
      BY DEF Coming
    <3>2. CASE p = q
      BY <3>1, <3>2, <1>4 DEF IInv, TypeOK
    <3>3. CASE p # q
      BY <3>1, <3>3, <1>4 DEF IInv, TypeOK, Coming
    <3>4. QED
      BY <3>2, <3>3
  <2>3. CASE ~(to = k /\ unlock) \/ r \in In(k) \cap unlocked
    <3>1. Claimed(k)' \subseteq Claimed(k)
      BY <2>0, <2>2, <2>3 DEF Claimed
    <3>2. QED
      BY <3>1, <2>0, <2>1, <1>6, NothingNew
  <2>4. CASE to = k /\ unlock /\ Allowed(k)
    <3> DEFINE open == In(k) \cap unlocked
    <3>1. Cardinality(open) < Limit[plan][k]
      BY <2>1, <2>4 DEF Allowed, Usage, Unused
    <3>2. /\ Limit[plan][k] \in Nat
          /\ open \in SUBSET Records /\ Coming(k)' \in SUBSET Records
          /\ Claimed(k)' = open \cup Coming(k)'
      BY <2>0, PlanLocksAssumption
         DEF Guarded, IInv, TypeOK, In, Coming, Claimed
    <3>3. /\ Cardinality(open) \in Nat /\ Cardinality(Coming(k)') \in Nat
          /\ Cardinality(Claimed(k)') \in Nat
      BY <3>2, Sizes
    <3>4. CASE overlapped'
      <4>1. Cardinality(Claimed(k)') <= Cardinality(open) + Cardinality(Coming(k)')
        BY <3>2, Together
      <4>2. Cardinality(Coming(k)') <= Cardinality(Requests) /\ Cardinality(Requests) \in Nat
        <5>1. \A x \in Coming(k)' : \E p \in Requests : request'[p].record = x
          BY DEF Coming
        <5>2. QED
          BY <5>1, ComingBounded, RequestCount
      <4>3. Slack' = Cardinality(Requests)
        BY <3>4 DEF Slack
      <4>4. QED
        BY <2>0, <3>1, <3>2, <3>3, <4>1, <4>2, <4>3 DEF Bounded
    <3>5. CASE ~overlapped'
      <4>1. \A p \in Requests : request[p] = NoRequest
        BY <3>5, <2>1 DEF InFlight
      <4>2. Coming(k) = {}
        <5>1. \A p \in Requests : request[p].unlock = FALSE
          BY <4>1 DEF NoRequest
        <5>2. QED
          BY <5>1 DEF Coming
      <4>3. Claimed(k)' \in SUBSET (open \cup {r}) /\ open \cup {r} \in SUBSET Records
        BY <2>2, <3>2, <4>2
      <4>4. /\ Cardinality(Claimed(k)') <= Cardinality(open \cup {r})
            /\ Cardinality(open \cup {r}) <= Cardinality(open) + 1
            /\ Cardinality(open \cup {r}) \in Nat
        BY <4>3, <3>2, Smaller, OneMore, Sizes
      <4>5. Slack' = 0
        BY <3>5 DEF Slack
      <4>6. QED
        BY <2>0, <3>1, <3>2, <3>3, <4>4, <4>5 DEF Bounded
    <3>6. QED
      BY <3>4, <3>5
  <2>5. QED
    BY <1>3, <2>3, <2>4 DEF Admissible
<1>10. QED
  BY <1>6, <1>7, <1>8, <1>9 DEF IInv, InBounds
-----------------------------------------------------------------------------
LEMMA NextInv == IInv /\ [Next]_vars => IInv'
<1> SUFFICES ASSUME IInv, [Next]_vars PROVE IInv'
  OBVIOUS
<1>1. ASSUME NEW p \in Plans, ChangePlan(p) PROVE IInv'
  BY <1>1, ChangePlanKeeps
<1>2. CASE SelfHeal
  BY <1>2, SelfHealKeeps
<1>3. ASSUME NEW k \in Kinds, NEW selected \in SUBSET In(k), Select(k, selected)
      PROVE  IInv'
  BY <1>3, SelectKeeps
<1>4. ASSUME NEW q \in Requests, Check(q) \/ Write(q) \/ GiveUp(q) PROVE IInv'
  BY <1>4, CheckKeeps, WriteKeeps, GiveUpKeeps
<1>5. ASSUME NEW r \in Accounts, DeleteAccount(r) PROVE IInv'
  BY <1>5, DeleteAccountKeeps
<1>6. CASE UNCHANGED vars
  <2>1. request' = request /\ In(0)' = In(0) /\ unlocked' = unlocked
    BY <1>6 DEF vars, In
  <2>2. /\ TypeOK' /\ RequestsInOrder' /\ Alone'
        /\ \A k : Claimed(k)' = Claimed(k)
    BY <1>6 DEF vars, IInv, TypeOK, RequestsInOrder, Alone, Claimed, In, Coming
  <2>3. QED
    BY <1>6, <2>2, NoMoreClaims DEF vars, IInv
<1>7. QED
  BY <1>1, <1>2, <1>3, <1>4, <1>5, <1>6 DEF Next

(* For every instance, IInv is an invariant.                               *)
THEOREM Invariance == Spec => []IInv
BY InitInv, NextInv, PTL DEF Spec

(* Every variable has its type, and a record is in a place of its kind.    *)
THEOREM TypeCorrect == Spec => []TypeOK
<1>1. IInv => TypeOK
  BY DEF IInv
<1>2. QED
  BY <1>1, Invariance, PTL

(* What is open in a guarded category is within the bound of InBounds.     *)
LEMMA UsageBounded ==
  ASSUME IInv, NEW k \in Guarded
  PROVE  /\ Usage(k) <= Limit[plan][k] + Slack
         /\ Usage(k) \in Nat /\ Limit[plan][k] \in Nat
         /\ Slack \in {0, Cardinality(Requests)}
         /\ Cardinality(Requests) \in Nat
<1>1. /\ Limit[plan][k] \in Nat /\ Cardinality(Requests) \in Nat
      /\ Slack \in {0, Cardinality(Requests)}
  BY PlanLocksAssumption, FS_CardinalityType DEF IInv, TypeOK, Guarded, Slack
<1>2. CASE Unused(k)
  BY <1>1, <1>2 DEF Usage, Unused
<1>3. CASE ~Unused(k)
  <2>1. Usage(k) = Cardinality(In(k) \cap unlocked)
    BY <1>3 DEF Usage, Unused
  <2>2. Claimed(k) \in SUBSET Records /\ In(k) \cap unlocked \in SUBSET Claimed(k)
    BY DEF Claimed, In, Coming
  <2>3. /\ Cardinality(In(k) \cap unlocked) <= Cardinality(Claimed(k))
        /\ Cardinality(In(k) \cap unlocked) \in Nat /\ Cardinality(Claimed(k)) \in Nat
    BY <2>2, Smaller, Sizes
  <2>4. Bounded(k)
    BY <1>3 DEF IInv, InBounds
  <2>5. QED
    BY <2>1, <2>3, <2>4, <1>1 DEF Bounded
<1>4. QED
  BY <1>2, <1>3

(* All the races together pass a limit by no more than the requests there  *)
(* can be at once.                                                         *)
THEOREM OvershootIsBounded == Spec => []OvershootBounded
<1>1. IInv => OvershootBounded
  BY UsageBounded DEF OvershootBounded
<1>2. QED
  BY <1>1, Invariance, PTL

(* Without overlaps no category with guarded routes exceeds the plan,      *)
(* whatever the sequence of requests, plan changes and selections.         *)
THEOREM StaysWithinPlan == Spec => []WithinPlan
<1>1. IInv => WithinPlan
  <2> SUFFICES ASSUME IInv, ~overlapped, NEW k \in Guarded
               PROVE  Usage(k) <= Limit[plan][k]
    BY DEF WithinPlan
  <2>1. Slack = 0
    BY DEF Slack
  <2>2. QED
    BY <2>1, UsageBounded
<1>2. QED
  BY <1>1, Invariance, PTL
-----------------------------------------------------------------------------
(* A synchronisation leaves locks that plan_locks_are_inconsistent accepts, *)
(* for the plan it was made for.                                           *)
LEMMA SyncConsistent ==
  ASSUME TypeOK, NEW p \in Plans, Sync(p), plan' = p, place' = place,
         Structured \cap In("archived") = {}
  PROVE  ~Inconsistent'
<1>1. /\ unlocked' = SyncedUnlocked(p)
      /\ \A k \in Kinds :
           resolved'[k] = (Limit[p][k] = 0 \/ Fits(k, p) \/ KeepsSubset(k, p))
      /\ \A k : In(k)' = In(k) /\ In(k) \in SUBSET Records
  BY DEF Sync, SyncedResolved, In
<1>2. ~HasFeature(p) => Structured \cap unlocked' = {}
  BY <1>1 DEF SyncedUnlocked
<1>3. ASSUME NEW k \in Kinds
      PROVE  LET open == (In(k) \cap unlocked)' IN
             IF Cardinality(In(k)) <= Limit[p][k]
             THEN open = In(k) /\ resolved'[k]
             ELSE Cardinality(open) <= Limit[p][k] /\ (resolved'[k] \/ open = {})
  <2> DEFINE open == (In(k) \cap unlocked)'
  <2>1. /\ Limit[p][k] \in Nat /\ Cardinality(In(k)) \in Nat
        /\ k # "structured" /\ open \in SUBSET In(k)
    BY <1>1, Sizes, PlanLocksAssumption DEF Capped, Kinds, OneTime, Staff
  <2>2. ASSUME NEW r \in In(k)
        PROVE  StaysOpen(r, p) <=> \/ Fits(k, p)
                                   \/ KeepsSubset(k, p) /\ r \in unlocked
    <3>1. place[r] = k /\ place[r] # "structured"
      BY <2>1 DEF In
    <3>2. QED
      BY <3>1 DEF StaysOpen, Kinds, OneTime, Staff, Inactive
  <2>3. CASE Fits(k, p)
    <3>1. ASSUME NEW r \in In(k) PROVE r \notin Structured
      BY PlanLocksAssumption DEF In, TypeOK, PlacesOf, Kinds, OneTime, Staff
    <3>2. open = In(k)
      BY <1>1, <2>2, <2>3, <3>1 DEF SyncedUnlocked
    <3>3. QED
      BY <1>1, <2>1, <2>3, <3>2 DEF Fits
  <2>4. CASE ~Fits(k, p) /\ Limit[p][k] = 0
    <3>1. open = {}
      BY <1>1, <2>2, <2>4 DEF SyncedUnlocked, KeepsSubset
    <3>2. Cardinality(In(k)) = 0 => In(k) = {}
      BY <1>1, Sizes, FS_EmptySet
    <3>3. resolved'[k] /\ Cardinality(open) = 0
      BY <1>1, <2>4, <3>1, FS_EmptySet
    <3>4. QED
      BY <2>1, <2>4, <3>1, <3>2, <3>3
  <2>5. CASE ~Fits(k, p) /\ Limit[p][k] > 0 /\ KeepsSubset(k, p)
    <3>1. Cardinality(open) <= Cardinality(In(k) \cap unlocked)
      <4>1. open \in SUBSET (In(k) \cap unlocked)
        BY <1>1, <2>2, <2>5 DEF SyncedUnlocked
      <4>2. QED
        BY <1>1, <4>1, Smaller
    <3>2. QED
      BY <1>1, <2>1, <2>5, <3>1 DEF Fits, KeepsSubset
  <2>6. CASE ~Fits(k, p) /\ Limit[p][k] > 0 /\ ~KeepsSubset(k, p)
    <3>1. open = {}
      BY <1>1, <2>2, <2>6 DEF SyncedUnlocked
    <3>2. QED
      BY <2>1, <2>6, <3>1, FS_EmptySet DEF Fits
  <2>7. QED
    BY <2>1, <2>3, <2>4, <2>5, <2>6
<1>4. ASSUME NEW k \in Kinds
      PROVE  LET open == (In(k) \cap unlocked)' IN
             ~ IF Cardinality(In(k)') <= Limit[plan'][k]
               THEN open # In(k)' \/ ~resolved'[k]
               ELSE Cardinality(open) > Limit[plan'][k] \/ (~resolved'[k] /\ open # {})
  <2> DEFINE open == (In(k) \cap unlocked)'
  <2>1. open \in SUBSET Records /\ Limit[p][k] \in Nat
    BY <1>1, PlanLocksAssumption DEF Capped
  <2>2. Cardinality(open) \in Nat
    BY <2>1, Sizes
  <2>3. QED
    BY <1>1, <1>3, <2>1, <2>2
<1>5. QED
  BY <1>2, <1>4 DEF Inconsistent, HasFeature, In

(* A first selection in a full category opens no more than the plan allows *)
(* and touches no other category.                                          *)
LEMMA SelectConsistent ==
  ASSUME TypeOK, TypeOK', NEW k \in Kinds, NEW selected \in SUBSET In(k),
         Select(k, selected), ~resolved[k], ~Inconsistent,
         Structured \cap In("archived") = {}
  PROVE  ~Inconsistent'
<1>1. /\ \A j : In(j)' = In(j) /\ In(j) \in SUBSET Records
      /\ plan' = plan
      /\ resolved' = [resolved EXCEPT ![k] = TRUE]
      /\ unlocked' \subseteq unlocked \cup selected
  BY DEF Select, In
<1>2. ASSUME NEW r \in In(k) PROVE r \notin Structured
  BY PlanLocksAssumption DEF In, TypeOK, PlacesOf, Kinds, OneTime, Staff
<1>3. ~HasFeature(plan) => Structured \cap unlocked' = {}
  BY <1>1, <1>2 DEF Inconsistent
<1>4. ASSUME NEW j \in Kinds
      PROVE  LET open == In(j) \cap unlocked' IN
             ~ IF Cardinality(In(j)) <= Limit[plan][j]
               THEN open # In(j) \/ ~resolved'[j]
               ELSE Cardinality(open) > Limit[plan][j] \/ (~resolved'[j] /\ open # {})
  <2>1. LET open == In(j) \cap unlocked IN
             ~ IF Cardinality(In(j)) <= Limit[plan][j]
               THEN open # In(j) \/ ~resolved[j]
               ELSE Cardinality(open) > Limit[plan][j] \/ (~resolved[j] /\ open # {})
    BY DEF Inconsistent
  <2>2. CASE j # k
    <3>1. In(j) \cap unlocked' = In(j) \cap unlocked
      <4>1. In(j) \cap In(k) = {} /\ (k \in Staff => In(j) \cap In(Off[k]) = {})
        <5>1. In(j) \cap In(k) = {}
          BY <2>2 DEF In
        <5>2. k \in Staff => Off[k] \in Inactive
          <6>1. Off["admins"] \in Inactive /\ Off["staff"] \in Inactive
            BY DEF Off, Inactive
          <6>2. QED
            BY <6>1 DEF Staff
        <5>3. \A i \in Inactive : In(j) \cap In(i) = {}
          BY DEF In, Kinds, OneTime, Staff, Inactive
        <5>4. QED
          BY <5>1, <5>2, <5>3
      <4>2. QED
        BY <4>1 DEF Select
    <3>2. resolved'[j] = resolved[j]
      BY <1>1, <2>2 DEF TypeOK
    <3>3. QED
      BY <2>1, <3>1, <3>2
  <2>3. CASE j = k
    <3> DEFINE open == In(k) \cap unlocked'
    <3>1. ~(Cardinality(In(k)) <= Limit[plan][k])
      BY <2>1, <2>3
    <3>2. open \in SUBSET selected /\ selected \in SUBSET Records
      BY <1>1 DEF Select, In
    <3>3. Cardinality(selected) <= Limit[plan][k]
      BY DEF Select, RightNumber
    <3>4. /\ Cardinality(open) <= Cardinality(selected)
          /\ Cardinality(open) \in Nat /\ Cardinality(selected) \in Nat
      BY <3>2, Smaller, Sizes
    <3>5. Limit[plan][k] \in Nat /\ resolved'[k]
      BY <1>1, PlanLocksAssumption DEF TypeOK, Capped
    <3>6. QED
      BY <2>3, <3>1, <3>3, <3>4, <3>5
  <2>4. QED
    BY <2>2, <2>3
<1>5. QED
  BY <1>1, <1>3, <1>4 DEF Inconsistent, HasFeature

(* One repair is enough: what it leaves is consistent until a record or a  *)
(* settled choice of accounts changes.                                     *)
THEOREM RepairsHold == Spec => []RepairHolds
<1>1. Init => RepairHolds
  <2> SUFFICES ASSUME Init PROVE ~Inconsistent
    BY DEF RepairHolds
  <2>1. \A k \in Kinds : In(k) = {} /\ resolved[k] /\ Limit[plan][k] \in Nat
    BY PlanLocksAssumption DEF Init, In, Kinds, OneTime, Staff, Capped
  <2>2. unlocked = {}
    BY DEF Init
  <2>3. QED
    BY <2>1, <2>2, FS_EmptySet DEF Inconsistent
<1>2. TypeOK /\ TypeOK' /\ RepairHolds /\ [Next]_vars => RepairHolds'
  <2> SUFFICES ASSUME TypeOK, TypeOK', RepairHolds, [Next]_vars, ~touched',
                      (Structured \cap In("archived"))' = {}
               PROVE  ~Inconsistent'
    BY DEF RepairHolds
  <2>1. ASSUME NEW p \in Plans, ChangePlan(p) PROVE ~Inconsistent'
    BY <2>1, SyncConsistent DEF ChangePlan, In
  <2>2. CASE SelfHeal
    BY <2>2, SyncConsistent DEF SelfHeal, In, TypeOK
  <2>3. ASSUME NEW k \in Kinds, NEW selected \in SUBSET In(k), Select(k, selected)
        PROVE  ~Inconsistent'
    <3>1. ~resolved[k] /\ ~touched
      BY <2>3 DEF Select, TypeOK
    <3>2. Structured \cap In("archived") = {}
      BY <2>3 DEF Select, In
    <3>3. QED
      BY <2>3, <3>1, <3>2, SelectConsistent DEF RepairHolds
  <2>4. CASE UNCHANGED <<plan, place, unlocked, resolved, touched>>
    BY <2>4 DEF RepairHolds, Inconsistent, In, HasFeature
  <2>5. ASSUME NEW q \in Requests, Check(q) \/ Write(q) \/ GiveUp(q)
        PROVE  ~Inconsistent'
    BY <2>4, <2>5 DEF Check, Write, GiveUp
  <2>6. ASSUME NEW r \in Accounts, DeleteAccount(r) PROVE ~Inconsistent'
    BY <2>6 DEF DeleteAccount
  <2>7. QED
    BY <2>1, <2>2, <2>3, <2>4, <2>5, <2>6 DEF Next, vars
<1>3. QED
  BY <1>1, <1>2, TypeCorrect, PTL DEF Spec
-----------------------------------------------------------------------------
(* As long as nothing has overlapped, what a request read at its check is  *)
(* still so when it writes.                                                *)
Unchanged ==
  ~overlapped => \A q \in Requests : request[q] # NoRequest =>
    LET r == request[q].record IN
    /\ request[q].op = "create" => place[r] = "none"
    /\ request[q].op = "restore" => place[r] = "away"
    /\ request[q].op = "delete" => ~request[q].unlock
    /\ request[q].op = "edit" /\ request[q].unlock => r \in unlocked

LEMMA StillUnchanged ==
  ASSUME IInv, IInv', Unchanged, [Next]_vars PROVE Unchanged'
<1> SUFFICES ASSUME ~overlapped', NEW q \in Requests, request'[q] # NoRequest
             PROVE  LET r == request'[q].record IN
                    /\ request'[q].op = "create" => place'[r] = "none"
                    /\ request'[q].op = "restore" => place'[r] = "away"
                    /\ request'[q].op = "delete" => ~request'[q].unlock
                    /\ request'[q].op = "edit" /\ request'[q].unlock => r \in unlocked'
  BY DEF Unchanged
<1>1. CASE request' = request /\ overlapped' = (overlapped \/ InFlight)
  BY <1>1 DEF InFlight
<1>2. ASSUME NEW p \in Requests, Write(p) \/ GiveUp(p) PROVE FALSE
  <2>1. request'[p] = NoRequest /\ request[p] # NoRequest /\ overlapped' = overlapped
    BY <1>2 DEF Write, GiveUp, IInv, TypeOK
  <2>2. p # q /\ request[q] # NoRequest
    BY <1>2, <2>1 DEF Write, GiveUp, IInv, TypeOK
  <2>3. QED
    BY <2>1, <2>2 DEF IInv, Alone
<1>3. ASSUME NEW p \in Requests, Check(p)
      PROVE  LET r == request'[q].record IN
             /\ request'[q].op = "create" => place'[r] = "none"
             /\ request'[q].op = "restore" => place'[r] = "away"
             /\ request'[q].op = "delete" => ~request'[q].unlock
             /\ request'[q].op = "edit" /\ request'[q].unlock => r \in unlocked'
  <2>1. ~InFlight /\ place' = place /\ unlocked' = unlocked
    BY <1>3 DEF Check
  <2>2. p = q
    BY <1>3, <2>1 DEF Check, InFlight, IInv, TypeOK
  <2>3. PICK op \in Ops, r \in Records, to \in Places :
          /\ \/ r \in Groups /\ GroupRequest(op, r, to)
             \/ r \in Members /\ MemberRequest(op, r, to)
             \/ r \in Accounts /\ AccountRequest(op, r, to)
          /\ request' = [request EXCEPT ![q] =
               [op |-> op, record |-> r, to |-> to,
                unlock |-> \/ op \in {"create", "restore"}
                           \/ (op # "delete" /\ r \in unlocked)]]
    BY <1>3, <2>2 DEF Check
  <2>4. /\ request'[q].op = op /\ request'[q].record = r
        /\ request'[q].unlock =
             (op \in {"create", "restore"} \/ (op # "delete" /\ r \in unlocked))
    BY <2>3 DEF IInv, TypeOK
  <2>5. op = "create" => place[r] = "none"
    BY <2>3 DEF GroupRequest, MemberRequest, AccountRequest, CreateGroup,
                CreateMember, CreateAccount
  <2>6. op = "restore" => place[r] = "away"
    BY <2>3 DEF GroupRequest, MemberRequest, AccountRequest, RestoreMember
  <2>7. QED
    BY <2>1, <2>4, <2>5, <2>6
<1>4. CASE UNCHANGED vars
  BY <1>4 DEF vars, Unchanged
<1>5. ASSUME NEW p \in Plans, ChangePlan(p)
      PROVE  request' = request /\ overlapped' = (overlapped \/ InFlight)
  BY <1>5 DEF ChangePlan
<1>6. SelfHeal => request' = request /\ overlapped' = (overlapped \/ InFlight)
  BY DEF SelfHeal
<1>7. ASSUME NEW k \in Kinds, NEW selected \in SUBSET In(k), Select(k, selected)
      PROVE  request' = request /\ overlapped' = (overlapped \/ InFlight)
  BY <1>7 DEF Select
<1>8. ASSUME NEW r \in Accounts, DeleteAccount(r)
      PROVE  request' = request /\ overlapped' = (overlapped \/ InFlight)
  BY <1>8 DEF DeleteAccount
<1>9. QED
  BY <1>1, <1>2, <1>3, <1>4, <1>5, <1>6, <1>7, <1>8 DEF Next

(* Without races nothing but a repair of inconsistent locks opens what the *)
(* owner left locked in a settled one-time category.                       *)
THEOREM UnselectedIsLocked == Spec => UnselectedStaysLocked
<1>1. Init => Unchanged
  BY DEF Init, Unchanged
<1>2. IInv /\ IInv' /\ Unchanged /\ [Next]_vars => Unchanged'
  BY StillUnchanged
<1>3. IInv /\ Unchanged /\ [Next]_vars =>
        [plan' = plan /\ ~overlapped =>
           \A k \in OneTime : \A r \in In(k) \ unlocked :
             resolved[k] /\ r \in unlocked' => Inconsistent]_vars
  <2> SUFFICES ASSUME IInv, Unchanged, Next, plan' = plan, ~overlapped,
                      NEW k \in OneTime, NEW r \in In(k) \ unlocked,
                      resolved[k], r \in unlocked', ~Inconsistent
               PROVE  FALSE
    OBVIOUS
  <2>1. ASSUME NEW p \in Plans, ChangePlan(p) PROVE FALSE
    BY <2>1 DEF ChangePlan
  <2>2. CASE SelfHeal
    BY <2>2 DEF SelfHeal
  <2>3. ASSUME NEW j \in Kinds, NEW selected \in SUBSET In(j), Select(j, selected)
        PROVE  FALSE
    <3>1. r \in selected
      BY <2>3 DEF Select
    <3>2. j = k
      BY <3>1 DEF In
    <3>3. QED
      BY <2>3, <3>2 DEF Select, Selectable, OneTime, Staff
  <2>4. ASSUME NEW q \in Requests, Write(q) PROVE FALSE
    <3>1. r = request[q].record /\ request[q].unlock /\ request[q].op # "status"
      BY <2>4 DEF Write
    <3>2. place[r] = k /\ k # "none" /\ k # "away"
      BY DEF In, OneTime
    <3>3. request[q].op \in Ops
      BY <2>4 DEF Write, IInv, RequestsInOrder
    <3>4. QED
      BY <2>4, <3>1, <3>2, <3>3 DEF Write, Unchanged, Ops
  <2>5. ASSUME NEW q \in Requests, Check(q) \/ GiveUp(q) PROVE FALSE
    BY <2>5 DEF Check, GiveUp
  <2>6. ASSUME NEW a \in Accounts, DeleteAccount(a) PROVE FALSE
    BY <2>6 DEF DeleteAccount
  <2>7. QED
    BY <2>1, <2>2, <2>3, <2>4, <2>5, <2>6 DEF Next
<1>4. QED
  BY <1>1, <1>2, <1>3, Invariance, PTL DEF Spec, UnselectedStaysLocked
=============================================================================
