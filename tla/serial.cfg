SPECIFICATION Spec
CONSTANTS
  node = node
  node2 = node2
  shell = shell
  logger = logger
  Instances <- Logged
  NameOf <- LoggedNames
  ServiceIDs = {k1, k2, k3}
  NoID = NoID
  InactiveAfter = 0
  Serial = TRUE
  Lossy = TRUE
  Deletes = TRUE
  MaxKnown = 2
INVARIANT AtMostOnePerURL
