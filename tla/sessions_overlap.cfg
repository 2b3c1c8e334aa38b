SPECIFICATION Spec
CONSTANTS
  Users = {u1}
  Nodes = {n1}
  MAX_CONNECTIONS_PER_USER = 2
  HEARTBEAT_TIMEOUT = 0
  MaxServiceID = 2
  Ports = {p1}
  NoPort = NoPort
  Handlers = {h1, h2}
  Serial = FALSE
  Reconnects = TRUE
  Limits = TRUE
  Unreliable = TRUE
INVARIANTS TypeOK ConnectionsLimited
SYMMETRY Symmetry
