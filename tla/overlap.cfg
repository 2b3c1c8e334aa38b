SPECIFICATION Spec
CONSTANTS
  node = node
  node2 = node2
  shell = shell
  logger = logger
  Instances <- Nodes
  NameOf <- NodeNames
  ServiceIDs = {k1, k2}
  NoID = NoID
  InactiveAfter = 0
  Serial = FALSE
  Lossy = FALSE
  Deletes = TRUE
  MaxKnown = 2
INVARIANTS TypeOK RegisteredIsHeard SweepJudgesOnHeard
