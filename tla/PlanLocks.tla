------------------------------ MODULE PlanLocks ------------------------------
(***************************************************************************)
(* What a workspace may use under its plan: limits on creation and the     *)
(* locks that a smaller plan puts on what there is already                 *)
(* (organizations/entitlements).                                           *)
(*                                                                         *)
(* A record is a Group, a Member or a staff account.  Its place is the     *)
(* category it counts in; archived Groups are a category of their own,     *)
(* archived Members and inactive accounts are in none.  Requests check the *)
(* limits first and write later, with nothing locked in between.           *)
(***************************************************************************)
EXTENDS Integers, FiniteSets

CONSTANTS
  Groups,       \* ids, numbered in the order of creation
  Structured,   \* the Groups that are Structured
  Members,
  Accounts,
  Requests,     \* requests in flight
  NoRecord,
  Plans, FirstPlan,
  Limit,        \* the catalog: a limit for each plan and category
  MaxOperations,    \* bounds
  MaxPlanChanges

Records  == Groups \cup Members \cup Accounts
OneTime  == {"groups", "archived", "members"}
Staff    == {"admins", "staff"}
Kinds    == OneTime \cup Staff
Capped   == Kinds \cup {"structured"}
Off      == [admins |-> "off admins", staff |-> "off staff"]
Inactive == {"off admins", "off staff"}
Places   == Capped \cup Inactive \cup {"none", "away", "deleted"}

ASSUME PlanLocksAssumption ==
  /\ Groups \subseteq Nat /\ Structured \subseteq Groups
  /\ IsFiniteSet(Records) /\ IsFiniteSet(Requests)
  /\ Groups \cap Members = {} /\ Groups \cap Accounts = {}
  /\ Members \cap Accounts = {} /\ NoRecord \notin Records
  /\ FirstPlan \in Plans /\ Limit \in [Plans -> [Capped -> Nat]]
  /\ MaxOperations \in Nat /\ MaxPlanChanges \in Nat

VARIABLES
  plan,
  place,        \* Group.status, Member.status, account status and role
  unlocked,     \* the records whose plan_unlocked is set
  resolved,     \* the slots_resolved flags of the Organization
  request,
  overlapped,   \* history: a request met another change since its check
  touched,      \* history: a record changed since the locks were computed
  operations, changes

vars == <<plan, place, unlocked, resolved, request, overlapped, touched,
          operations, changes>>

NoRequest == [op |-> "none", record |-> NoRecord, to |-> "none",
              unlock |-> FALSE]

PlacesOf(r) ==
  {"none", "deleted"} \cup
    IF r \in Accounts THEN Staff \cup Inactive
    ELSE IF r \in Members THEN {"members", "away"}
    ELSE {"archived", IF r \in Structured THEN "structured" ELSE "groups"}

Init ==
  /\ plan = FirstPlan
  /\ place = [r \in Records |-> "none"]
  /\ unlocked = {}
  /\ resolved = [k \in Kinds |-> TRUE]
  /\ request = [q \in Requests |-> NoRequest]
  /\ overlapped = FALSE /\ touched = FALSE
  /\ operations = 0 /\ changes = 0

In(k)          == {r \in Records : place[r] = k}
HasFeature(p)  == Limit[p]["structured"] > 0
StaffFeature(p) == Limit[p]["staff"] > 0
GroupUnlocked(g) == g \in unlocked /\ (g \in Structured => HasFeature(plan))
Usage(k) ==
  IF k = "structured" /\ ~HasFeature(plan) THEN 0
  ELSE Cardinality(In(k) \cap unlocked)
-----------------------------------------------------------------------------
(* sync_plan_locks_after_plan_change, for the plan p.                      *)
Fits(k, p) == Limit[p][k] > 0 /\ Cardinality(In(k)) <= Limit[p][k]

(* Mutant: an account's lock survives whatever the new limit.              *)
KeepsAnySubset(k, p) ==
  k \in Staff /\ Limit[p][k] > 0 /\ resolved[k]

KeepsSubset(k, p) ==
  /\ k \in Staff
  /\ Limit[p][k] > 0
  /\ resolved[k]
  /\ Cardinality(In(k) \cap unlocked) = Limit[p][k]

Oldest(p) ==
  {g \in In("structured") :
     Cardinality({h \in In("structured") : h <= g}) <= Limit[p]["structured"]}

StaysOpen(r, p) ==
  CASE place[r] = "structured" -> r \in Oldest(p)
    [] place[r] \in Kinds ->
         \/ Fits(place[r], p)
         \/ KeepsSubset(place[r], p) /\ r \in unlocked
    [] place[r] \in Inactive ->
         /\ r \in unlocked
         /\ \E k \in Staff : /\ place[r] = Off[k]
                            /\ (Fits(k, p) \/ KeepsSubset(k, p))
    [] OTHER -> r \in unlocked

SyncedUnlocked(p) ==
  {r \in Records : StaysOpen(r, p) /\ (r \in Structured => HasFeature(p))}

SyncedResolved(p) ==
  [k \in Kinds |-> Limit[p][k] = 0 \/ Fits(k, p) \/ KeepsSubset(k, p)]

Sync(p) ==
  /\ unlocked' = SyncedUnlocked(p)
  /\ resolved' = SyncedResolved(p)
  /\ touched' = FALSE

(* plan_locks_are_inconsistent.                                            *)
Inconsistent ==
  \/ ~HasFeature(plan) /\ Structured \cap unlocked # {}
  \/ \E k \in Kinds :
       LET open == In(k) \cap unlocked IN
       IF Cardinality(In(k)) <= Limit[plan][k]
       THEN open # In(k) \/ ~resolved[k]
       ELSE \/ Cardinality(open) > Limit[plan][k]
            \/ ~resolved[k] /\ open # {}

InFlight == \E q \in Requests : request[q] # NoRequest
-----------------------------------------------------------------------------
(* apply_effective_plan: nothing is synced when the plan is the same.      *)
ChangePlan(p) ==
  /\ p # plan /\ changes < MaxPlanChanges
  /\ plan' = p /\ changes' = changes + 1
  /\ Sync(p)
  /\ overlapped' = (overlapped \/ InFlight)
  /\ UNCHANGED <<place, request, operations>>

(* build_entitlement_payload, on every page load.                          *)
SelfHeal ==
  /\ Inconsistent
  /\ Sync(plan)
  /\ overlapped' = (overlapped \/ InFlight)
  /\ UNCHANGED <<plan, place, request, operations, changes>>

(* Mutant: the selected records are not counted.                           *)
AnyNumber(k, selected) == TRUE

RightNumber(k, selected) ==
  LET limit == Limit[plan][k]
      total == Cardinality(In(k)) IN
  /\ Cardinality(selected) <= limit
  /\ (k \in OneTime \/ ~resolved[k]) =>
       Cardinality(selected) = IF total < limit THEN total ELSE limit

(* Mutant: a one-time selection may be made again.                         *)
AnyTime(k) == TRUE
Selectable(k) == k \in Staff \/ ~resolved[k]

(* apply_slot_selection.                                                   *)
Select(k, selected) ==
  /\ selected \subseteq In(k)
  /\ Selectable(k)
  /\ RightNumber(k, selected)
  /\ LET off    == IF k \in Staff THEN In(Off[k]) ELSE {}
         barred == IF k = "archived" /\ ~HasFeature(plan) THEN Structured ELSE {} IN
     unlocked' = (unlocked \ (In(k) \cup off)) \cup (selected \ barred)
  /\ resolved' = [resolved EXCEPT ![k] = TRUE]
  /\ touched' = (touched \/ resolved[k])
  /\ overlapped' = (overlapped \/ InFlight)
  /\ UNCHANGED <<plan, place, request, operations, changes>>
-----------------------------------------------------------------------------
(* Requests: what they check of the record and the workspace, and where    *)
(* the record will be.                                                     *)
GroupAsStandard(g) == "groups"   \* Mutant: the type is not looked at.

GroupHome(g) == IF g \in Structured THEN "structured" ELSE "groups"

Allowed(k) == Usage(k) < Limit[plan][k]

CreateGroup(g) ==
  /\ place[g] = "none"
  /\ resolved["groups"] /\ resolved["archived"]
  /\ Allowed(GroupHome(g))
EditGroup(g)    == place[g] = GroupHome(g) /\ GroupUnlocked(g)
ArchiveGroup(g) == EditGroup(g) /\ Allowed("archived")
DestroyGroup(g) == EditGroup(g)   \* DELETE archives, without the limit
(* Mutant: a Group is restored without looking at the limit.               *)
RestoreUnchecked(g) == place[g] = "archived" /\ GroupUnlocked(g)
RestoreGroup(g) ==
  /\ place[g] = "archived"
  /\ GroupUnlocked(g)
  /\ Allowed(GroupHome(g))

CreateMember(m)  == place[m] = "none" /\ resolved["members"] /\ Allowed("members")
EditMember(m)    == place[m] = "members" /\ resolved["members"] /\ m \in unlocked
RestoreMember(m) == place[m] = "away" /\ resolved["members"] /\ Allowed("members")

(* Mutant: an account is created whatever the number of them.              *)
CreateFreely(a, k)  == place[a] = "none" /\ StaffFeature(plan)

CreateAccount(a, k) == place[a] = "none" /\ StaffFeature(plan) /\ Allowed(k)

Admin(x) == x \in {"admins", "off admins"}
PatchAccount(a, to) ==
  LET reactivating == place[a] \in Inactive /\ to \in Staff
      roleToAdmin  == Admin(to) /\ ~Admin(place[a]) IN
  /\ place[a] \in Staff \cup Inactive
  /\ StaffFeature(plan)
  /\ (reactivating \/ roleToAdmin) => Allowed(IF Admin(to) THEN "admins" ELSE "staff")

(* Creation and the restoring of a Member set plan_unlocked.  A Group's or *)
(* a Member's change of status saves that field only; every edit saves the *)
(* whole row as it was read, and every change of an account is an edit.    *)
GroupRequest(op, g, to) ==
  \/ op = "create" /\ to = GroupHome(g) /\ CreateGroup(g)
  \/ op = "edit" /\ to = GroupHome(g) /\ EditGroup(g)
  \/ op = "status" /\ to = "archived" /\ (ArchiveGroup(g) \/ DestroyGroup(g))
  \/ op = "status" /\ to = GroupHome(g) /\ RestoreGroup(g)
  \/ op = "delete" /\ to = "deleted" /\ place[g] = "archived"
MemberRequest(op, m, to) ==
  \/ op = "create" /\ to = "members" /\ CreateMember(m)
  \/ op = "edit" /\ to = "members" /\ EditMember(m)
  \/ op = "status" /\ to = "away" /\ EditMember(m)
  \/ op = "restore" /\ to = "members" /\ RestoreMember(m)
  \/ op = "delete" /\ to = "deleted" /\ place[m] = "away"
AccountRequest(op, a, to) ==
  \/ op = "create" /\ to \in Staff /\ CreateAccount(a, to)
  \/ op = "edit" /\ to \in Staff \cup Inactive /\ PatchAccount(a, to)
Ops == {"create", "edit", "status", "restore", "delete"}

Check(q) ==
  /\ request[q] = NoRequest /\ operations < MaxOperations
  /\ \E op \in Ops, r \in Records, to \in Places :
       /\ \/ r \in Groups /\ GroupRequest(op, r, to)
          \/ r \in Members /\ MemberRequest(op, r, to)
          \/ r \in Accounts /\ AccountRequest(op, r, to)
       /\ \A p \in Requests : (request[p].record # r \/ op # "create")
       /\ request' = [request EXCEPT ![q] =
            [op |-> op, record |-> r, to |-> to,
             unlock |-> \/ op \in {"create", "restore"}
                        \/ (op # "delete" /\ r \in unlocked)]]
  /\ operations' = operations + 1
  /\ overlapped' = (overlapped \/ InFlight)
  /\ UNCHANGED <<plan, place, unlocked, resolved, touched, changes>>

Write(q) ==
  LET r == request[q].record IN
  /\ request[q] # NoRequest
  /\ place[r] = "deleted" => request[q].op \in {"edit", "delete"}
  /\ place' = [place EXCEPT ![r] = request[q].to]
  /\ unlocked' = IF request[q].op = "status" THEN unlocked
                 ELSE IF request[q].unlock THEN unlocked \cup {r}
                 ELSE unlocked \ {r}
  /\ request' = [request EXCEPT ![q] = NoRequest]
  /\ touched' = TRUE
  /\ UNCHANGED <<plan, resolved, overlapped, operations, changes>>

(* An error, a record deleted meanwhile, or the death of the process.      *)
GiveUp(q) ==
  /\ request[q] # NoRequest
  /\ request' = [request EXCEPT ![q] = NoRequest]
  /\ UNCHANGED <<plan, place, unlocked, resolved, overlapped, touched,
                 operations, changes>>

(* permanently_delete_workspace_staff_account locks the account; the other *)
(* deletions are requests like any other.  An id is not used again.        *)
DeleteAccount(r) ==
  /\ place[r] \in Inactive /\ StaffFeature(plan)
  /\ operations < MaxOperations
  /\ place' = [place EXCEPT ![r] = "deleted"]
  /\ unlocked' = unlocked \ {r}
  /\ operations' = operations + 1
  /\ touched' = TRUE
  /\ overlapped' = (overlapped \/ InFlight)
  /\ UNCHANGED <<plan, resolved, request, changes>>

Next ==
  \/ \E p \in Plans : ChangePlan(p)
  \/ SelfHeal
  \/ \E k \in Kinds : \E selected \in SUBSET In(k) : Select(k, selected)
  \/ \E q \in Requests : Check(q) \/ Write(q) \/ GiveUp(q)
  \/ \E r \in Accounts : DeleteAccount(r)
-----------------------------------------------------------------------------
(* Types; a record is always in a place its own kind can be in (a          *)
(* Structured Group is never restored as a Standard one).                  *)
TypeOK ==
  /\ plan \in Plans
  /\ place \in [Records -> Places]
  /\ \A r \in Records : place[r] \in PlacesOf(r)
  /\ unlocked \subseteq Records
  /\ resolved \in [Kinds -> BOOLEAN]
  /\ request \in [Requests -> [op : Ops \cup {"none"}, to : Places,
                              record : Records \cup {NoRecord}, unlock : BOOLEAN]]
  /\ overlapped \in BOOLEAN /\ touched \in BOOLEAN
  /\ operations \in 0 .. MaxOperations /\ changes \in 0 .. MaxPlanChanges

(* The categories every route into which is guarded by the limit: DELETE   *)
(* archives a Group and a demoted admin becomes staff without a check.     *)
Guarded == Capped \ {"archived", "staff"}

(* As long as no request overlapped another change, no sequence of         *)
(* requests, plan changes, repairs and selections gives a workspace more   *)
(* usable records of a guarded category than its plan allows.              *)
WithinPlan ==
  ~overlapped => \A k \in Guarded : Usage(k) <= Limit[plan][k]

(* The check and the write of a request are not one transaction: requests  *)
(* that race each other, a downgrade or a selection may pass the limit,    *)
(* but all the races together never by more than the requests there can be *)
(* at once.                                                                *)
OvershootBounded ==
  \A k \in Guarded : Usage(k) <= Limit[plan][k] + Cardinality(Requests)

(* One repair is enough: from a plan change or a repair until a record or  *)
(* a settled choice of accounts changes, page loads leave the locks and    *)
(* what the owner selected alone.  Not so when a Structured Group is       *)
(* archived: see ResolvedUntilPlanChanges.                                 *)
RepairHolds ==
  ~touched /\ Structured \cap In("archived") = {} => ~Inconsistent

(* What the owner did not select stays locked: without races, the plan     *)
(* unchanged, a locked record of a settled one-time category is opened by  *)
(* no request and no further selection, only by a repair that found the    *)
(* locks inconsistent.                                                     *)
UnselectedStaysLocked ==
  [][plan' = plan /\ ~overlapped =>
       \A k \in OneTime : \A r \in In(k) \ unlocked :
         resolved[k] /\ r \in unlocked' => Inconsistent]_vars

(* What the comment on ONE_TIME_SELECTION_KINDS says: a one-time category, *)
(* once resolved, is not opened again until the plan changes.  It does not *)
(* hold, with requests one at a time.                                      *)
ResolvedUntilPlanChanges ==
  [][plan' = plan /\ ~overlapped =>
       \A k \in OneTime : resolved[k] => resolved'[k]]_vars

Spec == Init /\ [][Next]_vars
=============================================================================
