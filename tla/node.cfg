SPECIFICATION Spec
CONSTANTS
  Users = {u1, u2, u3}
  Nodes = {n1}
  Ports = {p1, p2}
  NoPort = NoPort
  Handlers = {h1, h2, h3}
  Conns = {c1, c2, c3, c4}
  NoConn = NoConn
  Distinct = TRUE
SYMMETRY Symmetry
INVARIANTS TypeOK ProxiedInXray ProxiesRecorded
