----------------------------- MODULE NodeService -----------------------------
(***************************************************************************)
(* A node's connect requests in full: handleConnect of node/server.go with *)
(* its calls of xray, which module Sessions leaves out, next to disconnect *)
(* requests at any time.                                                   *)
(***************************************************************************)
EXTENDS NodeProxies, XrayControl

CONSTANTS
  Handlers,   \* goroutines of handleConnect
  Distinct    \* a user has one connect request at a time

VARIABLE serving   \* the goroutines of handleConnect

vars == <<proxyVars, xrayVars, serving>>

NotServing ==
  [pc |-> "idle", node |-> CHOOSE n \in Nodes : TRUE, user |-> CHOOSE u \in Users : TRUE,
   port |-> NoPort, closes |-> NoConn]

Init ==
  /\ NodeProxiesInit
  /\ XrayControlInit
  /\ serving = [h \in Handlers |-> NotServing]

At(h, pc) == serving[h].pc = pc

Goto(h, pc) == serving' = [serving EXCEPT ![h].pc = pc]

\* The handler returns, or panics, and its deferred call runs.
Return(h) ==
  /\ serving' = [serving EXCEPT ![h] = NotServing]
  /\ CloseController(serving[h].node, serving[h].closes)

-----------------------------------------------------------------------------
\* A request of a user who has no port yet; one who has gets it at once.
handleConnect(h, n, u) ==
  /\ At(h, "idle")
  /\ Distinct => \A k \in Handlers : serving[k].pc # "idle" => serving[k].user # u
  /\ ~HasProxy(n, u)
  /\ serving' = [serving EXCEPT ![h] =
       [NotServing EXCEPT !.pc = "new", !.node = n, !.user = u]]
  /\ UNCHANGED <<proxyVars, xrayVars>>

MakeController(h) ==
  /\ At(h, "new")
  /\ NewController(serving[h].node)
  /\ Goto(h, "init")
  /\ UNCHANGED proxyVars

\* The connections that are in no controller and that no handler will close.
Unused ==
  {c \in Conns : /\ \A n \in Nodes : xrayCtl[n] # c
                 /\ \A k \in Handlers : serving[k].closes # c}

\* xrayCtl.Init: any unused connection stands for the new one.
Dial(h) ==
  /\ At(h, "init")
  /\ Unused # {}
  /\ InitController(serving[h].node, CHOOSE c \in Unused : TRUE)
  /\ Goto(h, "defer")
  /\ UNCHANGED proxyVars

\* defer xrayCtl.CmdConn.Close() reads xrayCtl again.
DeferClose(h) ==
  /\ At(h, "defer")
  /\ serving' = [serving EXCEPT ![h].pc = "add", ![h].closes = xrayCtl[serving[h].node]]
  /\ UNCHANGED <<proxyVars, xrayVars>>

\* The user is added, at the first or at the second attempt.
AddUser(h) ==
  /\ At(h, "add") \/ At(h, "add again")
  /\ addVlessUser(serving[h].node, serving[h].user)
  /\ Goto(h, "start")
  /\ UNCHANGED <<proxyVars, xrayCtl, open>>

\* "user might already exists": it is removed and added again.
AddFails(h) ==
  /\ At(h, "add")
  /\ addFails(serving[h].node, serving[h].user)
  /\ Goto(h, "remove")
  /\ UNCHANGED <<proxyVars, xrayCtl, open>>

\* Mutant: the proxy is started without the second attempt.
RemoveUserOnly(h) ==
  /\ At(h, "remove")
  /\ removeVlessUser(serving[h].node, serving[h].user)
  /\ Goto(h, "start")
  /\ UNCHANGED <<proxyVars, xrayCtl, open>>

RemoveUser(h) ==
  /\ At(h, "remove")
  /\ removeVlessUser(serving[h].node, serving[h].user)
  /\ Goto(h, "add again")
  /\ UNCHANGED <<proxyVars, xrayCtl, open>>

\* "Failed to add user": the request is answered with an error.
Refuse(h) ==
  /\ At(h, "add again")
  /\ addFails(serving[h].node, serving[h].user)
  /\ Return(h)
  /\ UNCHANGED <<proxyVars, xrayCtl>>

Panic(h) ==
  /\ serving[h].pc \in {"add", "remove", "add again"}
  /\ CallPanics(serving[h].node)
  /\ Return(h)
  /\ UNCHANGED <<proxyVars, xrayUsers, xrayCtl>>

\* Mutant: the port found is assigned to a variable of the loop.
StartShadowed(h) ==
  /\ At(h, "start")
  /\ starting' = [starting EXCEPT ![serving[h].node] =
       @ \cup {[user |-> serving[h].user, port |-> NoPort]}]
  /\ Goto(h, "record")
  /\ UNCHANGED <<connections, listeners, xrayVars>>

Start(h) ==
  /\ At(h, "start")
  /\ \E p \in Ports :
       /\ StartProxy(serving[h].node, serving[h].user, p)
       /\ serving' = [serving EXCEPT ![h].pc = "record", ![h].port = p]
  /\ UNCHANGED xrayVars

\* The proxy is recorded and the port answered.
Record(h) ==
  /\ At(h, "record")
  /\ RecordProxy(serving[h].node, serving[h].user, serving[h].port)
  /\ Return(h)
  /\ UNCHANGED <<xrayUsers, xrayCtl>>

-----------------------------------------------------------------------------
Listen(n) ==
  /\ \E l \in starting[n] : NewProxy(n, l)
  /\ UNCHANGED <<xrayVars, serving>>

\* A disconnect request leaves xray alone.
Disconnect(n) ==
  /\ \E uuids \in SUBSET Users \ {{}} : handleDisconnect(n, uuids)
  /\ UNCHANGED <<xrayVars, serving>>

Restart(n) ==
  /\ NodeReset(n)
  /\ XrayReset(n)
  /\ serving' = [h \in Handlers |-> IF serving[h].node = n THEN NotServing ELSE serving[h]]

ConnectStep(h) ==
  \/ MakeController(h) \/ Dial(h) \/ DeferClose(h) \/ AddUser(h) \/ AddFails(h) \/ RemoveUser(h)
  \/ Refuse(h) \/ Panic(h) \/ Start(h) \/ Record(h)

Next ==
  \/ \E h \in Handlers :
       \/ \E n \in Nodes, u \in Users : handleConnect(h, n, u)
       \/ ConnectStep(h)
  \/ \E n \in Nodes : Listen(n) \/ Disconnect(n) \/ Restart(n)

Spec == Init /\ [][Next]_vars

-----------------------------------------------------------------------------
Goroutine ==
  [pc : {"idle", "new", "init", "defer", "add", "remove", "add again", "start", "record"},
   node : Nodes, user : Users, port : Ports \cup {NoPort},
   closes : Conns \cup {NoConn}]

\* Every variable holds a value of its type.
TypeOK ==
  /\ ProxiesTypeOK
  /\ XrayTypeOK
  /\ serving \in [Handlers -> Goroutine]

\* A proxy is recorded only for a user whom xray accepts, although handlers of
\* other users replace xrayCtl and close its connection between the removal of
\* the user and its addition, any call may fail, done or not, and xray keeps users
\* of earlier sessions.
ProxiedInXray == \A n \in Nodes, u \in Users : HasProxy(n, u) => u \in xrayUsers[n]

\* A listening proxy can be closed: it is recorded, or about to be.
ProxiesRecorded ==
  \A n \in Nodes : \A l \in listeners[n] \cup starting[n] :
    \/ connections[n][l.user] = l.port
    \/ \E h \in Handlers :
         /\ serving[h].pc = "record"
         /\ serving[h].node = n
         /\ serving[h].user = l.user
         /\ serving[h].port = l.port
=============================================================================
