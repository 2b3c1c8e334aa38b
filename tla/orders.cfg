SPECIFICATION FairSpec
CONSTANTS
  MaxInt = 2
  OrderIDs = {o1, o2}
  Amounts = {0}
  Handlers = {h1, h2}
  Transfers = {t1, t2}
  NoOrderID = NoOrderID
  ReuseIDs = FALSE
  PicksOverlap = FALSE
  Restarts = TRUE
INVARIANTS TypeOK DistinctActualAmounts PaidByItsAmount OneOrderPerTransfer CalledBackOnce
PROPERTIES TransferNoticed ImplementsBills
