CONSTANTS
  Ids = {a1, a2, a3}
  Plans = {p1, p2}
  Requests = {r1, r2}
  NoId = NoId
CHECK_DEADLOCK FALSE
SPECIFICATION Spec
SYMMETRY Symmetry
INVARIANTS TypeOK RowsAgreeWithStripe OneSubscriptionUndisturbed HandsWhatWasAskedAlone
PROPERTIES ConcludedStays
