CONSTANTS
  Groups = {1, 2, 3}
  Structured = {3}
  Members = {m1, m2}
  Accounts = {a1, a2, a3}
  Requests = {q1, q2}
  NoRecord = NoRecord
  Plans <- AllPlans
  FirstPlan = "business"
  Limit <- Catalog
  MaxOperations = 5
  MaxPlanChanges = 1
CHECK_DEADLOCK FALSE
SPECIFICATION Spec
SYMMETRY Symmetry
INVARIANTS TypeOK RepairHolds WithinPlan OvershootBounded
PROPERTIES UnselectedStaysLocked
