CONSTANTS
  Groups = {1, 2, 3}
  Structured = {3}
  Members = {m1}
  Accounts = {a1}
  Requests = {q1}
  NoRecord = NoRecord
  Plans <- AllPlans
  FirstPlan = "business"
  Limit <- Catalog
  MaxOperations = 4
  MaxPlanChanges = 1
CHECK_DEADLOCK FALSE
SPECIFICATION Spec
PROPERTY ResolvedUntilPlanChanges
