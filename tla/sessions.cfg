SPECIFICATION FairSpec
CONSTANTS
  Users = {u1, u2}
  Nodes = {n1, n2}
  MAX_CONNECTIONS_PER_USER = 2
  HEARTBEAT_TIMEOUT = 1
  MaxServiceID = 1
  Ports = {p1, p2}
  NoPort = NoPort
  Handlers = {h1}
  Serial = TRUE
  Reconnects = FALSE
  Limits = FALSE
  Unreliable = FALSE
PROPERTIES HeartbeatKeepsProxy SilentProxiesClosed SilentForgotten
