SPECIFICATION FairSpec
CONSTANTS
  Users = {u1}
  Nodes = {n1}
  Ports = {p1}
  NoPort = NoPort
  Handlers = {h1, h2}
  MaxTraffic = 2
  TrafficLimit = 2
  Unreliable = TRUE
  Overtaking = FALSE
  Reuse = FALSE
INVARIANTS TypeOK NeverOvercharged 
PROPERTY EventuallyCharged
