SPECIFICATION Spec
CONSTANTS
  MaxInt = 2
  OrderIDs = {o1, o2}
  Amounts = {0}
  Handlers = {h1, h2}
  Transfers = {t1}
  NoOrderID = NoOrderID
  ReuseIDs = FALSE
  PicksOverlap = TRUE
  Restarts = FALSE
INVARIANT DistinctActualAmounts
