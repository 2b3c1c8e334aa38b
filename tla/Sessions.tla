------------------------------ MODULE Sessions ------------------------------
(***************************************************************************)
(* A user's session: the web service asks a node for a proxy, the client   *)
(* sends heartbeats to the web service, and the monitors end the session.  *)
(* Each connect request is a goroutine of the web service that waits for a *)
(* goroutine of the node; the two are the record connect[h].               *)
(*                                                                         *)
(* Serial restricts the environment as in module Discovery: a request of a *)
(* client or a round of a monitor begins only when nothing is under way.   *)
(***************************************************************************)
EXTENDS UserConnections, NodeProxies

CONSTANTS
  Handlers,      \* goroutines of Connect that run at the same time
  Serial,        \* operations do not overlap
  Reconnects,    \* a client connects to a node it is already connected to
  Limits,        \* users run out of their plan or traffic
  Unreliable     \* requests fail, processes restart, registrations change

VARIABLES
  connect,     \* the goroutines of Connect and handleConnect
  serviceID,   \* node -> the ServiceID it is registered with
  silent,      \* user -> the client has gone and sends nothing any more
  heard        \* history: user -> node -> age of the last heartbeat or connect

sessionVars == <<connect, serviceID, silent, heard>>

vars == <<webVars, proxyVars, sessionVars>>

NoConnect ==
  [pc |-> "idle", user |-> CHOOSE u \in Users : TRUE, node |-> CHOOSE n \in Nodes : TRUE,
   id |-> 1, port |-> NoPort]

Init ==
  /\ UserConnectionsInit
  /\ NodeProxiesInit
  /\ connect = [h \in Handlers |-> NoConnect]
  /\ serviceID = [n \in Nodes |-> 1]
  /\ silent = [u \in Users |-> FALSE]
  /\ heard = [u \in Users |-> [n \in Nodes |-> Stale]]

\* Nothing is under way.
Quiet ==
  /\ \A h \in Handlers : connect[h].pc = "idle"
  /\ monitor.pc = "idle"
  /\ plan.pc # "drop"
  /\ \A n \in Nodes : starting[n] = {}

Admitted == Serial => Quiet

\* The web service has recorded a connection of u to node n.
Recorded(u, n) == \E i \in DOMAIN userConnectionMap[u] : userConnectionMap[u][i].NodeIP = n

-----------------------------------------------------------------------------
\* Connect up to the request to the node: the plan is checked and the node's
\* registration looked up.
Connect(h, u, n) ==
  /\ Admitted
  /\ connect[h].pc = "idle"
  /\ ~silent[u]
  /\ Reconnects \/ ~Recorded(u, n)
  /\ ~exceeded[u]
  /\ providers[n] # 0
  /\ connect' = [connect EXCEPT ![h] =
       [NoConnect EXCEPT !.pc = "ask", !.user = u, !.node = n, !.id = providers[n]]]
  /\ UNCHANGED <<webVars, proxyVars, serviceID, silent, heard>>

\* handleConnect: the user has a port already, or needs a proxy.
NodeLooksUp(h) ==
  /\ connect[h].pc = "ask"
  /\ connect' = [connect EXCEPT ![h].pc =
       IF HasProxy(connect[h].node, connect[h].user) THEN "answer" ELSE "start"]
  /\ UNCHANGED <<webVars, proxyVars, serviceID, silent, heard>>

NodeStarts(h) ==
  /\ connect[h].pc = "start"
  /\ \E p \in Ports :
       /\ StartProxy(connect[h].node, connect[h].user, p)
       /\ connect' = [connect EXCEPT ![h].pc = "record", ![h].port = p]
  /\ UNCHANGED <<webVars, serviceID, silent, heard>>

NodeRecords(h) ==
  /\ connect[h].pc = "record"
  /\ RecordProxy(connect[h].node, connect[h].user, connect[h].port)
  /\ connect' = [connect EXCEPT ![h].pc = "answer", ![h].port = NoPort]
  /\ UNCHANGED <<webVars, serviceID, silent, heard>>

\* Connect gets the port and records the connection.
Connected(h) ==
  LET c == connect[h] IN
  /\ c.pc = "answer"
  /\ AddConnection(c.user, c.node, c.id)
  /\ connect' = [connect EXCEPT ![h] = NoConnect]
  /\ heard' = [heard EXCEPT ![c.user][c.node] = 0]
  /\ UNCHANGED <<proxyVars, serviceID, silent>>

\* The node refuses (it does not know the web service, or xray fails), or the
\* answer gets lost: Connect returns an error.
ConnectFails(h) ==
  /\ Unreliable
  /\ connect[h].pc \in {"ask", "start", "answer"}
  /\ connect' = [connect EXCEPT ![h] = NoConnect]
  /\ UNCHANGED <<webVars, proxyVars, serviceID, silent, heard>>

\* A heartbeat for a ServiceID the user is connected to.
HeartbeatFromClient(u, n) ==
  /\ Admitted
  /\ ~silent[u]
  /\ \E id \in 1..MaxServiceID : RefreshConnection(u, n, id)
  /\ heard' = [heard EXCEPT ![u][n] = 0]
  /\ UNCHANGED <<proxyVars, connect, serviceID, silent>>

ClientLeaves(u) ==
  /\ ~silent[u]
  /\ silent' = [silent EXCEPT ![u] = TRUE]
  /\ UNCHANGED <<webVars, proxyVars, connect, serviceID, heard>>

\* A goroutine of NewProxy gets to listen.
ProxyListens(n) ==
  /\ \E l \in starting[n] : NewProxy(n, l)
  /\ UNCHANGED <<webVars, sessionVars>>

-----------------------------------------------------------------------------
\* The node serves the disconnect request of the heartbeat monitor.
Disconnect(n) == MonitorSent(n) /\ handleDisconnect(n, monitor.timedOutMap[n])

DisconnectFails(n) == Unreliable /\ MonitorSent(n) /\ UNCHANGED proxyVars

StartMonitor == Admitted /\ MonitorProviders /\ UNCHANGED <<proxyVars, sessionVars>>

Monitor ==
  /\ \/ /\ MonitorPrune \/ MonitorCopy \/ (\E u \in Users : MonitorUpdate(u)) \/ MonitorEnd
        /\ UNCHANGED proxyVars
     \/ \E n \in Nodes : Disconnect(n) \/ DisconnectFails(n)
  /\ UNCHANGED sessionVars

StartPlan == Admitted /\ PlanFind /\ UNCHANGED <<proxyVars, sessionVars>>

Plan ==
  /\ (\E u \in Users : PlanDrop(u)) \/ PlanSend
  /\ UNCHANGED <<proxyVars, sessionVars>>

Billing ==
  /\ \/ Limits /\ \E u \in Users : Exceed(u) \/ Renew(u)
     \/ Unreliable /\ PlanReturn
  /\ UNCHANGED <<proxyVars, sessionVars>>

-----------------------------------------------------------------------------
\* A node is restarted: its proxies and the requests it serves are gone, and
\* it gets another ServiceID.
NodeRestart(n) ==
  /\ Unreliable
  /\ serviceID[n] < MaxServiceID
  /\ NodeReset(n)
  /\ serviceID' = [serviceID EXCEPT ![n] = @ + 1]
  /\ connect' = [h \in Handlers |->
       IF connect[h].node = n /\ connect[h].pc \in {"ask", "start", "record"}
       THEN NoConnect ELSE connect[h]]
  /\ UNCHANGED <<webVars, silent, heard>>

\* The registry's notifications, or the clearing of the cache.
Discovered(n) ==
  /\ Unreliable
  /\ \E id \in {0, serviceID[n]} : providers[n] # id /\ ProviderChanges(n, id)
  /\ UNCHANGED <<proxyVars, sessionVars>>

\* The web service is restarted while no connect request is under way.
WebRestart ==
  /\ Unreliable
  /\ \A h \in Handlers : connect[h].pc = "idle"
  /\ WebReset
  /\ UNCHANGED <<proxyVars, sessionVars>>

Tick ==
  /\ ConnectionsAge
  /\ heard' = [u \in Users |-> [n \in Nodes |-> Older(heard[u][n])]]
  /\ UNCHANGED <<proxyVars, connect, serviceID, silent>>

ConnectStep(h) == NodeLooksUp(h) \/ NodeStarts(h) \/ NodeRecords(h) \/ Connected(h)

Next ==
  \/ \E h \in Handlers :
       \/ \E u \in Users, n \in Nodes : Connect(h, u, n)
       \/ ConnectStep(h)
       \/ ConnectFails(h)
  \/ \E u \in Users : ClientLeaves(u) \/ \E n \in Nodes : HeartbeatFromClient(u, n)
  \/ StartMonitor \/ Monitor \/ StartPlan \/ Plan \/ Billing
  \/ \E n \in Nodes : ProxyListens(n) \/ NodeRestart(n) \/ Discovered(n)
  \/ WebRestart
  \/ Tick

Spec == Init /\ [][Next]_vars

(***************************************************************************)
(* The goroutines run and the monitors' loops come round; nothing makes a  *)
(* client, or a failure, do anything.                                      *)
(***************************************************************************)
Fairness ==
  /\ \A h \in Handlers : WF_vars(ConnectStep(h))
  /\ \A n \in Nodes : WF_vars(ProxyListens(n))
  /\ SF_vars(StartMonitor) /\ WF_vars(Monitor)
  /\ SF_vars(StartPlan) /\ WF_vars(Plan)
  /\ WF_vars(Tick)

FairSpec == Spec /\ Fairness

-----------------------------------------------------------------------------
ConnectGoroutine ==
  [pc : {"idle", "ask", "start", "record", "answer"}, user : Users, node : Nodes,
   id : 1..MaxServiceID, port : Ports \cup {NoPort}]

\* Every variable holds a value of its type.
TypeOK ==
  /\ ConnectionsTypeOK
  /\ ProxiesTypeOK
  /\ connect \in [Handlers -> ConnectGoroutine]
  /\ serviceID \in [Nodes -> 1..MaxServiceID]
  /\ silent \in [Users -> BOOLEAN]
  /\ heard \in [Users -> [Nodes -> 0..Stale]]

HasListener(n, u) == \E l \in listeners[n] : l.user = u

\* "receive heartbeat from client and keep user connected to the node service":
\* the heartbeat monitor has a proxy closed only if the client has not been
\* heard for HEARTBEAT_TIMEOUT.
HeartbeatKeepsProxy ==
  [][\A n \in Nodes : Disconnect(n) =>
       \A u \in Users : HasListener(n, u) /\ ~HasListener(n, u)' => TimedOut(heard[u][n])]_vars

\* A client that has gone is forgotten by the web service for good.
SilentForgotten ==
  \A u \in Users : silent[u] ~> [](userConnectionMap[u] = <<>>)

\* The proxies of a client that has gone are closed.
SilentProxiesClosed ==
  \A u \in Users : silent[u] ~> [](\A n \in Nodes : ~HasListener(n, u))

\* A user whose plan is over or whose traffic is used up loses its proxies.
ExceededDisconnected ==
  \A u \in Users : <>[]exceeded[u] => <>[](\A n \in Nodes : ~HasListener(n, u))
=============================================================================
