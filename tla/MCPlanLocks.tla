----------------------------- MODULE MCPlanLocks -----------------------------
(* Model-checking instance of PlanLocks: the catalog in small.             *)
EXTENDS PlanLocks, TLC

Catalog ==
  [basic    |-> [groups |-> 1, structured |-> 0, archived |-> 1,
                 members |-> 1, admins |-> 0, staff |-> 0],
   plus     |-> [groups |-> 1, structured |-> 0, archived |-> 1,
                 members |-> 1, admins |-> 0, staff |-> 1],
   business |-> [groups |-> 2, structured |-> 1, archived |-> 2,
                 members |-> 2, admins |-> 1, staff |-> 2]]
AllPlans == {"basic", "plus", "business"}
Symmetry == Permutations(Members) \cup Permutations(Accounts) \cup Permutations(Requests)
=============================================================================
