----------------------------- MODULE NodeProxies -----------------------------
(***************************************************************************)
(* The proxies that the node services run for the users: node/server.go    *)
(* and node/proxy.go.  A node keeps one port per user in `connections' and *)
(* the function that closes the listener of that port in `proxyServices'.  *)
(* The two maps are only changed together, under one lock, so `connections'*)
(* stands for both.                                                        *)
(***************************************************************************)
EXTENDS SessionTypes

CONSTANTS
  Ports,    \* the ports a node may pick
  NoPort    \* no entry in connections

ASSUME PortAssumption == NoPort \notin Ports

VARIABLES
  connections,   \* node -> user -> port
  starting,      \* node -> the goroutines of NewProxy that do not listen yet
  listeners      \* node -> the goroutines of NewProxy that listen

proxyVars == <<connections, starting, listeners>>

\* A goroutine of NewProxy.  Its cancelFunc is the one in proxyServices when
\* its port is the one in connections.
Listener == [user : Users, port : Ports]

NodeProxiesInit ==
  /\ connections = [n \in Nodes |-> [u \in Users |-> NoPort]]
  /\ starting = [n \in Nodes |-> {}]
  /\ listeners = [n \in Nodes |-> {}]

\* handleConnect finds the user in the map, which it reads without the lock.
HasProxy(n, u) == connections[n][u] # NoPort

\* The ports one can listen on.
FreePorts(n) == Ports \ {l.port : l \in listeners[n]}

\* handleConnect tries ports until it can listen on one, closes it again and
\* starts a goroutine for it.  That the user picks the port of another of its
\* own goroutines is left out.
StartProxy(n, u, p) ==
  /\ p \in FreePorts(n)
  /\ [user |-> u, port |-> p] \notin starting[n]
  /\ starting' = [starting EXCEPT ![n] = @ \cup {[user |-> u, port |-> p]}]
  /\ UNCHANGED <<connections, listeners>>

\* NewProxy listens, or returns because somebody else does.
NewProxy(n, l) ==
  /\ l \in starting[n]
  /\ starting' = [starting EXCEPT ![n] = @ \ {l}]
  /\ listeners' = [listeners EXCEPT ![n] = IF l.port \in FreePorts(n) THEN @ \cup {l} ELSE @]
  /\ UNCHANGED connections

\* The maps get the port and its cancelFunc.
RecordProxy(n, u, p) ==
  /\ connections' = [connections EXCEPT ![n][u] = p]
  /\ UNCHANGED <<starting, listeners>>

\* Mutant: the entry is deleted, but its listener is not closed.
handleDisconnectOpen(n, uuids) ==
  /\ connections' = [connections EXCEPT ![n] =
       [u \in Users |-> IF u \in uuids THEN NoPort ELSE @[u]]]
  /\ UNCHANGED <<starting, listeners>>

\* The goroutines of ls that the users' cancelFuncs do not end.
Uncancelled(n, uuids, ls) ==
  {l \in ls : ~(l.user \in uuids /\ l.port = connections[n][l.user])}

\* A disconnect request: the users' entries are deleted and their proxies
\* cancelled.  One that does not listen yet will close as soon as it does.
handleDisconnect(n, uuids) ==
  /\ connections' = [connections EXCEPT ![n] =
       [u \in Users |-> IF u \in uuids THEN NoPort ELSE @[u]]]
  /\ starting' = [starting EXCEPT ![n] = Uncancelled(n, uuids, @)]
  /\ listeners' = [listeners EXCEPT ![n] = Uncancelled(n, uuids, @)]

\* The node's process ends and with it all its proxies.
NodeReset(n) ==
  /\ connections' = [connections EXCEPT ![n] = [u \in Users |-> NoPort]]
  /\ starting' = [starting EXCEPT ![n] = {}]
  /\ listeners' = [listeners EXCEPT ![n] = {}]

\* The nodes' variables hold values of their types.
ProxiesTypeOK ==
  /\ connections \in [Nodes -> [Users -> Ports \cup {NoPort}]]
  /\ starting \in [Nodes -> SUBSET Listener]
  /\ listeners \in [Nodes -> SUBSET Listener]
=============================================================================
