SPECIFICATION FairSpec
CONSTANTS
  node = node
  node2 = node2
  shell = shell
  logger = logger
  Instances <- Logged
  NameOf <- LoggedNames
  ServiceIDs = {k1, k2, k3, k4}
  NoID = NoID
  InactiveAfter = 0
  Serial = TRUE
  Lossy = FALSE
  Deletes = FALSE
  MaxKnown = 2
INVARIANT NoProviderMissed
PROPERTIES LiveServiceRegistered DeadServiceForgotten
