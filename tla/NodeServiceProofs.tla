-------------------------- MODULE NodeServiceProofs --------------------------
(***************************************************************************)
(* Theorems about NodeService, for any users, nodes, ports and handlers.   *)
(***************************************************************************)
EXTENDS NodeService, TLAPS

LEMMA NotServingType == NotServing \in Goroutine
<1>1. (CHOOSE n \in Nodes : TRUE) \in Nodes /\ (CHOOSE u \in Users : TRUE) \in Users
  BY SessionAssumption
<1> QED
  BY <1>1 DEF NotServing, Goroutine

LEMMA InitType == Init => TypeOK
  BY NotServingType DEF Init, NodeProxiesInit, XrayControlInit, TypeOK, ProxiesTypeOK, XrayTypeOK,
     Listener

LEMMA GotoType ==
  ASSUME serving \in [Handlers -> Goroutine], NEW h \in Handlers,
         NEW pc \in {"init", "defer", "remove", "add again", "start"}, Goto(h, pc)
  PROVE  serving' \in [Handlers -> Goroutine]
  BY DEF Goto, Goroutine

\* A jump of one handler leaves its user and its node alone.
LEMMA GotoFields ==
  ASSUME serving \in [Handlers -> Goroutine], NEW h \in Handlers, NEW pc, Goto(h, pc)
  PROVE  /\ serving'[h].pc = pc
         /\ serving'[h].user = serving[h].user
         /\ serving'[h].node = serving[h].node
         /\ \A k \in Handlers \ {h} : serving'[k] = serving[k]
  BY DEF Goto, Goroutine

LEMMA ReturnType ==
  ASSUME TypeOK, NEW h \in Handlers, Return(h)
  PROVE  serving' \in [Handlers -> Goroutine] /\ open' \in [Nodes -> SUBSET Conns]
<1>1. serving[h].node \in Nodes
  BY DEF TypeOK, Goroutine
<1> QED
  BY <1>1, NotServingType DEF Return, CloseController, TypeOK, XrayTypeOK

LEMMA ConnectStepType ==
  ASSUME TypeOK, NEW h \in Handlers, ConnectStep(h)
  PROVE  TypeOK'
<1>n. serving[h].node \in Nodes /\ serving[h].user \in Users
      /\ serving[h].port \in Ports \cup {NoPort}
  BY DEF TypeOK, Goroutine
<1>s. serving \in [Handlers -> Goroutine] /\ ProxiesTypeOK /\ XrayTypeOK
  BY DEF TypeOK
<1>1. CASE MakeController(h)
  <2>1. serving' \in [Handlers -> Goroutine]
    BY <1>1, <1>s, GotoType DEF MakeController
  <2>2. XrayTypeOK'
    BY <1>1, <1>s, <1>n DEF MakeController, NewController, XrayTypeOK
  <2> QED
    BY <1>1, <1>s, <2>1, <2>2 DEF MakeController, TypeOK, ProxiesTypeOK, proxyVars
<1>2. CASE AddUser(h)
  <2>1. serving' \in [Handlers -> Goroutine]
    BY <1>2, <1>s, GotoType DEF AddUser
  <2>2. XrayTypeOK'
    BY <1>2, <1>s, <1>n DEF AddUser, addVlessUser, XrayTypeOK
  <2> QED
    BY <1>2, <1>s, <2>1, <2>2 DEF AddUser, TypeOK, ProxiesTypeOK, proxyVars
<1>3. CASE AddFails(h)
  <2>1. serving' \in [Handlers -> Goroutine]
    BY <1>3, <1>s, GotoType DEF AddFails
  <2>2. XrayTypeOK'
    BY <1>3, <1>s, <1>n DEF AddFails, addFails, addVlessUser, XrayTypeOK
  <2> QED
    BY <1>3, <1>s, <2>1, <2>2 DEF AddFails, TypeOK, ProxiesTypeOK, proxyVars
<1>4. CASE RemoveUser(h)
  <2>1. serving' \in [Handlers -> Goroutine]
    BY <1>4, <1>s, GotoType DEF RemoveUser
  <2>2. XrayTypeOK'
    BY <1>4, <1>s, <1>n DEF RemoveUser, removeVlessUser, XrayTypeOK
  <2> QED
    BY <1>4, <1>s, <2>1, <2>2 DEF RemoveUser, TypeOK, ProxiesTypeOK, proxyVars
<1>5. CASE Refuse(h) \/ Panic(h)
  <2>1. Return(h) /\ UNCHANGED <<proxyVars, xrayCtl>>
    BY <1>5 DEF Refuse, Panic
  <2>2. xrayUsers' \in [Nodes -> SUBSET Users]
    <3>1. CASE Panic(h)
      BY <3>1, <1>s DEF Panic, XrayTypeOK
    <3>2. CASE Refuse(h)
      <4>1. addFails(serving[h].node, serving[h].user)
        BY <3>2 DEF Refuse
      <4>2. \/ xrayUsers' = xrayUsers
            \/ xrayUsers' = [xrayUsers EXCEPT ![serving[h].node] = @ \cup {serving[h].user}]
        BY <4>1 DEF addFails, addVlessUser
      <4> QED
        BY <1>s, <1>n, <4>2 DEF XrayTypeOK
    <3> QED
      BY <1>5, <3>1, <3>2
  <2> QED
    BY <1>s, <2>1, <2>2, ReturnType DEF TypeOK, ProxiesTypeOK, XrayTypeOK, proxyVars
<1>6. CASE Start(h)
  <2>1. PICK p \in Ports :
          /\ StartProxy(serving[h].node, serving[h].user, p)
          /\ serving' = [serving EXCEPT ![h].pc = "record", ![h].port = p]
    BY <1>6 DEF Start
  <2>2. serving' \in [Handlers -> Goroutine]
    BY <1>s, <2>1 DEF Goroutine
  <2>3. ProxiesTypeOK'
    BY <1>s, <1>n, <2>1 DEF StartProxy, ProxiesTypeOK, Listener
  <2> QED
    BY <1>6, <1>s, <2>2, <2>3 DEF Start, TypeOK, XrayTypeOK, xrayVars
<1>7. CASE Record(h)
  <2>1. ProxiesTypeOK'
    BY <1>7, <1>s, <1>n DEF Record, RecordProxy, ProxiesTypeOK
  <2> QED
    BY <1>7, <1>s, <2>1, ReturnType DEF Record, TypeOK, XrayTypeOK
<1>8. CASE Dial(h)
  <2>1. serving' \in [Handlers -> Goroutine]
    BY <1>8, <1>s, GotoType DEF Dial
  <2>2. PICK c \in Unused : InitController(serving[h].node, c)
    BY <1>8 DEF Dial
  <2>3. c \in Conns
    BY <2>2 DEF Unused
  <2>4. XrayTypeOK'
    BY <2>2, <2>3, <1>s, <1>n DEF InitController, XrayTypeOK
  <2> QED
    BY <1>8, <1>s, <2>1, <2>4 DEF Dial, TypeOK, ProxiesTypeOK, proxyVars
<1>9. CASE DeferClose(h)
  <2>1. xrayCtl[serving[h].node] \in Conns \cup {NoConn}
    BY <1>s, <1>n DEF XrayTypeOK
  <2>2. serving' \in [Handlers -> Goroutine]
    BY <1>9, <1>s, <2>1 DEF DeferClose, Goroutine
  <2> QED
    BY <1>9, <1>s, <2>2 DEF DeferClose, TypeOK, ProxiesTypeOK, XrayTypeOK, proxyVars, xrayVars
<1> QED
  BY <1>1, <1>2, <1>3, <1>4, <1>5, <1>6, <1>7, <1>8, <1>9 DEF ConnectStep

LEMMA NextType == TypeOK /\ [Next]_vars => TypeOK'
<1> SUFFICES ASSUME TypeOK, [Next]_vars PROVE TypeOK'
  OBVIOUS
<1>s. serving \in [Handlers -> Goroutine] /\ ProxiesTypeOK /\ XrayTypeOK
  BY DEF TypeOK
<1>1. ASSUME NEW h \in Handlers, NEW n \in Nodes, NEW u \in Users, handleConnect(h, n, u)
      PROVE  TypeOK'
  <2>1. serving' \in [Handlers -> Goroutine]
    BY <1>1, <1>s, PortAssumption DEF handleConnect, NotServing, Goroutine
  <2> QED
    BY <1>1, <1>s, <2>1
    DEF handleConnect, TypeOK, ProxiesTypeOK, XrayTypeOK, proxyVars, xrayVars
<1>2. ASSUME NEW n \in Nodes, Listen(n)
      PROVE  TypeOK'
  <2>1. PICK l \in starting[n] : NewProxy(n, l)
    BY <1>2 DEF Listen
  <2>2. l \in Listener
    BY <1>s, <2>1 DEF ProxiesTypeOK
  <2>3. ProxiesTypeOK'
    BY <1>s, <2>1, <2>2 DEF NewProxy, ProxiesTypeOK
  <2> QED
    BY <1>2, <1>s, <2>3 DEF Listen, TypeOK, XrayTypeOK, xrayVars
<1>3. ASSUME NEW n \in Nodes, Disconnect(n)
      PROVE  TypeOK'
  <2>1. PICK uuids \in SUBSET Users \ {{}} : handleDisconnect(n, uuids)
    BY <1>3 DEF Disconnect
  <2>2. ProxiesTypeOK'
    BY <1>s, <2>1 DEF handleDisconnect, Uncancelled, ProxiesTypeOK
  <2> QED
    BY <1>3, <1>s, <2>2 DEF Disconnect, TypeOK, XrayTypeOK, xrayVars
<1>4. ASSUME NEW n \in Nodes, Restart(n)
      PROVE  TypeOK'
  <2>1. serving' \in [Handlers -> Goroutine]
    BY <1>4, <1>s, NotServingType DEF Restart
  <2>2. ProxiesTypeOK'
    BY <1>4, <1>s DEF Restart, NodeReset, ProxiesTypeOK
  <2>3. XrayTypeOK'
    BY <1>4, <1>s DEF Restart, XrayReset, XrayTypeOK
  <2> QED
    BY <2>1, <2>2, <2>3 DEF TypeOK
<1>5. CASE UNCHANGED vars
  BY <1>5, <1>s DEF vars, TypeOK, ProxiesTypeOK, XrayTypeOK, proxyVars, xrayVars
<1> QED
  BY <1>1, <1>2, <1>3, <1>4, <1>5, ConnectStepType DEF Next

\* The node's variables keep their types, whatever requests overlap.
THEOREM NodeTypeCorrect == Spec => []TypeOK
  BY InitType, NextType, PTL DEF Spec

-----------------------------------------------------------------------------
Busy(h) == serving[h].pc # "idle"

\* A handler that has got past its calls of xray has its user accepted.
AddedBeforeStart ==
  \A h \in Handlers : serving[h].pc \in {"start", "record"} =>
    serving[h].user \in xrayUsers[serving[h].node]

\* A handler takes nobody out of xray who has a proxy: its user has none.
NoProxyWhileServed == \A h \in Handlers : Busy(h) => ~HasProxy(serving[h].node, serving[h].user)

OneRequestPerUser ==
  \A h, k \in Handlers : Busy(h) /\ Busy(k) /\ serving[h].user = serving[k].user => h = k

\* The inductive invariant behind ProxiedInXray.
ProxiedInv ==
  /\ TypeOK
  /\ ProxiedInXray
  /\ AddedBeforeStart
  /\ NoProxyWhileServed
  /\ OneRequestPerUser

\* A step that neither starts nor records a proxy, adds to xray at most, and in
\* which the handlers serve the users they served, or none.
LEMMA QuietStep ==
  ASSUME ProxiedInv, TypeOK',
         \A n \in Nodes, u \in Users : HasProxy(n, u)' => HasProxy(n, u),
         \A n \in Nodes : xrayUsers[n] \subseteq xrayUsers'[n],
         \A h \in Handlers : Busy(h)' =>
           /\ Busy(h)
           /\ serving'[h].user = serving[h].user
           /\ serving'[h].node = serving[h].node
           /\ serving'[h].pc \in {"start", "record"} => 
                \/ serving[h].pc \in {"start", "record"}
                \/ serving[h].user \in xrayUsers'[serving[h].node]
  PROVE  ProxiedInv'
<1>1. \A h \in Handlers : serving[h] \in Goroutine /\ serving'[h] \in Goroutine
  BY DEF ProxiedInv, TypeOK
<1>2. \A h \in Handlers : serving[h].node \in Nodes /\ serving[h].user \in Users
  BY <1>1 DEF Goroutine
<1>3. ProxiedInXray'
  BY DEF ProxiedInv, ProxiedInXray
<1>4. AddedBeforeStart'
  BY <1>2 DEF ProxiedInv, AddedBeforeStart, Busy
<1>5. NoProxyWhileServed'
  BY <1>2 DEF ProxiedInv, NoProxyWhileServed
<1>6. OneRequestPerUser'
  BY DEF ProxiedInv, OneRequestPerUser
<1> QED
  BY <1>3, <1>4, <1>5, <1>6 DEF ProxiedInv

LEMMA ProxiedNext ==
  ASSUME Distinct = TRUE, ProxiedInv, [Next]_vars
  PROVE  ProxiedInv'
<1>t. TypeOK /\ TypeOK'
  BY NextType DEF ProxiedInv
<1>g. \A h \in Handlers : serving[h].node \in Nodes /\ serving[h].user \in Users
  BY <1>t DEF TypeOK, Goroutine
<1>s. serving \in [Handlers -> Goroutine]
  BY <1>t DEF TypeOK
<1>x. xrayUsers \in [Nodes -> SUBSET Users]
  BY <1>t DEF TypeOK, XrayTypeOK
<1>c. connections \in [Nodes -> [Users -> Ports \cup {NoPort}]]
  BY <1>t DEF TypeOK, ProxiesTypeOK
<1>1. ASSUME NEW h \in Handlers, NEW n \in Nodes, NEW u \in Users, handleConnect(h, n, u)
      PROVE  ProxiedInv'
  <2>1. /\ serving'[h].pc = "new" /\ serving'[h].node = n /\ serving'[h].user = u
        /\ \A k \in Handlers \ {h} : serving'[k] = serving[k]
    BY <1>1, <1>s DEF handleConnect, NotServing
  <2>2. UNCHANGED <<connections, xrayUsers>>
    BY <1>1 DEF handleConnect, proxyVars, xrayVars
  <2>3. ProxiedInXray'
    BY <2>2 DEF ProxiedInv, ProxiedInXray, HasProxy
  <2>4. AddedBeforeStart'
    BY <2>1, <2>2 DEF ProxiedInv, AddedBeforeStart
  <2>5. NoProxyWhileServed'
    BY <1>1, <2>1, <2>2 DEF ProxiedInv, NoProxyWhileServed, HasProxy, Busy, handleConnect
  <2>6. \A k \in Handlers : Busy(k) => serving[k].user # u
    BY <1>1 DEF handleConnect, Busy
  <2>7. OneRequestPerUser'
    BY <2>1, <2>6 DEF ProxiedInv, OneRequestPerUser, Busy
  <2> QED
    BY <1>t, <2>3, <2>4, <2>5, <2>7 DEF ProxiedInv
<1>2. ASSUME NEW h \in Handlers, ConnectStep(h)
      PROVE  ProxiedInv'
  <2> DEFINE n == serving[h].node
             u == serving[h].user
  <2>n. n \in Nodes /\ u \in Users
    BY <1>g
  <2>1. CASE MakeController(h) \/ Dial(h)
    <3>1. UNCHANGED <<connections, xrayUsers>>
      BY <2>1 DEF MakeController, NewController, Dial, InitController, proxyVars
    <3>2. \A k \in Handlers : Busy(k)' =>
            /\ Busy(k) /\ serving'[k].user = serving[k].user /\ serving'[k].node = serving[k].node
            /\ serving'[k].pc \in {"start", "record"} => serving[k].pc \in {"start", "record"}
      <4>1. Busy(h) /\ (Goto(h, "init") \/ Goto(h, "defer"))
        BY <2>1 DEF MakeController, Dial, At, Busy
      <4> QED
        BY <4>1, <1>s, GotoFields DEF Busy
    <3> QED
      BY <1>t, <3>1, <3>2, QuietStep DEF HasProxy
  <2>2. CASE AddUser(h)
    <3>1. UNCHANGED connections /\ u \in xrayUsers'[n]
          /\ \A m \in Nodes : xrayUsers[m] \subseteq xrayUsers'[m]
      BY <2>2, <1>x, <2>n DEF AddUser, addVlessUser, proxyVars
    <3>2. \A k \in Handlers : Busy(k)' =>
            /\ Busy(k) /\ serving'[k].user = serving[k].user /\ serving'[k].node = serving[k].node
            /\ serving'[k].pc \in {"start", "record"} => 
                 serving[k].pc \in {"start", "record"} \/ k = h
      BY <2>2, <1>s, GotoFields DEF AddUser, At, Busy
    <3> QED
      BY <1>t, <3>1, <3>2, QuietStep DEF HasProxy
  <2>3. CASE AddFails(h)
    <3>1. UNCHANGED connections /\ \A m \in Nodes : xrayUsers[m] \subseteq xrayUsers'[m]
      BY <2>3, <1>x, <2>n DEF AddFails, addFails, addVlessUser, proxyVars
    <3>2. \A k \in Handlers : Busy(k)' =>
            /\ Busy(k) /\ serving'[k].user = serving[k].user /\ serving'[k].node = serving[k].node
            /\ serving'[k].pc \in {"start", "record"} => serving[k].pc \in {"start", "record"}
      BY <2>3, <1>s, GotoFields DEF AddFails, At, Busy
    <3> QED
      BY <1>t, <3>1, <3>2, QuietStep DEF HasProxy
  <2>4. CASE RemoveUser(h)
    <3>1. UNCHANGED connections
          /\ \A m \in Nodes, v \in Users :
               v \in xrayUsers[m] /\ ~(m = n /\ v = u) => v \in xrayUsers'[m]
      BY <2>4, <1>x, <2>n DEF RemoveUser, removeVlessUser, proxyVars
    <3>2. \A k \in Handlers : serving'[k].user = serving[k].user /\ serving'[k].node = serving[k].node
      BY <2>4, <1>s, GotoFields DEF RemoveUser
    <3>3. Busy(h) /\ serving'[h].pc = "add again"
          /\ \A k \in Handlers \ {h} : serving'[k] = serving[k]
      BY <2>4, <1>s, GotoFields DEF RemoveUser, At, Busy
    <3>4. ProxiedInXray'
      BY <3>1, <3>3 DEF ProxiedInv, ProxiedInXray, NoProxyWhileServed, HasProxy
    <3>5. \A k \in Handlers \ {h} : Busy(k) => serving[k].user # u
      BY <3>3 DEF ProxiedInv, OneRequestPerUser
    <3>6. AddedBeforeStart'
      BY <1>g, <3>1, <3>3, <3>5 DEF ProxiedInv, AddedBeforeStart, Busy
    <3>7. NoProxyWhileServed'
      <4>1. \A k \in Handlers : Busy(k)' => Busy(k)
        BY <3>3 DEF Busy
      <4> QED
        BY <4>1, <3>1, <3>2 DEF ProxiedInv, NoProxyWhileServed, HasProxy
    <3>8. OneRequestPerUser'
      <4>1. \A k \in Handlers : Busy(k)' => Busy(k)
        BY <3>3 DEF Busy
      <4> QED
        BY <4>1, <3>2 DEF ProxiedInv, OneRequestPerUser
    <3> QED
      BY <1>t, <3>4, <3>6, <3>7, <3>8 DEF ProxiedInv
  <2>5. CASE Refuse(h) \/ Panic(h)
    <3>1. UNCHANGED connections /\ \A m \in Nodes : xrayUsers[m] \subseteq xrayUsers'[m]
      BY <2>5, <1>x, <2>n DEF Refuse, Panic, addFails, addVlessUser, proxyVars
    <3>2. serving'[h].pc = "idle" /\ \A k \in Handlers \ {h} : serving'[k] = serving[k]
      <4>1. Return(h)
        BY <2>5 DEF Refuse, Panic
      <4> QED
        BY <4>1, <1>s DEF Return, NotServing
    <3> QED
      BY <1>t, <3>1, <3>2, QuietStep DEF HasProxy, Busy
  <2>6. CASE Start(h)
    <3>1. UNCHANGED <<connections, xrayUsers>>
      BY <2>6 DEF Start, StartProxy, xrayVars
    <3>2. \A k \in Handlers : Busy(k)' =>
            /\ Busy(k) /\ serving'[k].user = serving[k].user /\ serving'[k].node = serving[k].node
            /\ serving'[k].pc \in {"start", "record"} => serving[k].pc \in {"start", "record"}
      <4>1. PICK p \in Ports : serving' = [serving EXCEPT ![h].pc = "record", ![h].port = p]
        BY <2>6 DEF Start
      <4>2. serving'[h].user = serving[h].user /\ serving'[h].node = serving[h].node
            /\ \A k \in Handlers \ {h} : serving'[k] = serving[k]
        BY <4>1, <1>s DEF Goroutine
      <4>3. serving[h].pc = "start"
        BY <2>6 DEF Start, At
      <4> QED
        BY <4>2, <4>3 DEF Busy
    <3> QED
      BY <1>t, <3>1, <3>2, QuietStep DEF HasProxy
  <2>7. CASE Record(h)
    <3>1. UNCHANGED xrayUsers /\ u \in xrayUsers[n]
      BY <2>7, <2>n DEF Record, At, ProxiedInv, AddedBeforeStart
    <3>2. \A m \in Nodes, v \in Users : HasProxy(m, v)' => HasProxy(m, v) \/ (m = n /\ v = u)
      BY <2>7, <1>c, <2>n DEF Record, RecordProxy, HasProxy
    <3>3. serving'[h].pc = "idle" /\ \A k \in Handlers \ {h} : serving'[k] = serving[k]
      BY <2>7, <1>s DEF Record, Return, NotServing
    <3>4. \A k \in Handlers \ {h} : Busy(k) => serving[k].user # u
      BY <2>7 DEF Record, At, ProxiedInv, OneRequestPerUser, Busy
    <3>5. ProxiedInXray'
      BY <3>1, <3>2 DEF ProxiedInv, ProxiedInXray
    <3>6. AddedBeforeStart'
      BY <3>1, <3>3 DEF ProxiedInv, AddedBeforeStart
    <3>7. NoProxyWhileServed'
      BY <1>g, <3>2, <3>3, <3>4 DEF ProxiedInv, NoProxyWhileServed, Busy
    <3>8. OneRequestPerUser'
      BY <3>3 DEF ProxiedInv, OneRequestPerUser, Busy
    <3> QED
      BY <1>t, <3>5, <3>6, <3>7, <3>8 DEF ProxiedInv
  <2>8. CASE DeferClose(h)
    <3>1. UNCHANGED <<connections, xrayUsers>>
      BY <2>8 DEF DeferClose, proxyVars, xrayVars
    <3>2. /\ Busy(h) /\ serving'[h].pc = "add" /\ serving'[h].user = u /\ serving'[h].node = n
          /\ \A k \in Handlers \ {h} : serving'[k] = serving[k]
      BY <2>8, <1>s DEF DeferClose, At, Busy, Goroutine
    <3> QED
      BY <1>t, <3>1, <3>2, QuietStep DEF HasProxy, Busy
  <2> QED
    BY <1>2, <2>1, <2>2, <2>3, <2>4, <2>5, <2>6, <2>7, <2>8 DEF ConnectStep
<1>3. ASSUME NEW n \in Nodes, Listen(n)
      PROVE  ProxiedInv'
  <2>1. UNCHANGED <<connections, xrayUsers, serving>>
    BY <1>3 DEF Listen, NewProxy, xrayVars
  <2> QED
    BY <1>t, <2>1, QuietStep DEF HasProxy, Busy
<1>4. ASSUME NEW n \in Nodes, Disconnect(n)
      PROVE  ProxiedInv'
  <2>1. PICK uuids \in SUBSET Users : handleDisconnect(n, uuids)
    BY <1>4 DEF Disconnect
  <2>2. \A m \in Nodes, v \in Users : HasProxy(m, v)' => HasProxy(m, v)
    BY <2>1, <1>c DEF handleDisconnect, HasProxy
  <2>3. UNCHANGED <<xrayUsers, serving>>
    BY <1>4 DEF Disconnect, xrayVars
  <2> QED
    BY <1>t, <2>2, <2>3, QuietStep DEF Busy
<1>5. ASSUME NEW n \in Nodes, Restart(n)
      PROVE  ProxiedInv'
  <2>1. \A m \in Nodes, v \in Users : HasProxy(m, v)' => HasProxy(m, v) /\ m # n
    BY <1>5, <1>c DEF Restart, NodeReset, HasProxy
  <2>2. \A m \in Nodes : m # n => xrayUsers'[m] = xrayUsers[m]
    BY <1>5, <1>x DEF Restart, XrayReset
  <2>3. \A k \in Handlers : Busy(k)' =>
          Busy(k) /\ serving'[k] = serving[k] /\ serving[k].node # n
    BY <1>5 DEF Restart, NotServing, Busy
  <2>4. ProxiedInXray'
    BY <2>1, <2>2 DEF ProxiedInv, ProxiedInXray
  <2>5. AddedBeforeStart'
    BY <1>g, <2>2, <2>3 DEF ProxiedInv, AddedBeforeStart, Busy
  <2>6. NoProxyWhileServed'
    BY <1>g, <2>1, <2>3 DEF ProxiedInv, NoProxyWhileServed
  <2>7. OneRequestPerUser'
    BY <2>3 DEF ProxiedInv, OneRequestPerUser
  <2> QED
    BY <1>t, <2>4, <2>5, <2>6, <2>7 DEF ProxiedInv
<1>6. CASE UNCHANGED vars
  <2>1. UNCHANGED <<connections, xrayUsers, serving>>
    BY <1>6 DEF vars, proxyVars, xrayVars
  <2> QED
    BY <1>t, <2>1, QuietStep DEF HasProxy, Busy
<1> QED
  BY <1>1, <1>2, <1>3, <1>4, <1>5, <1>6 DEF Next

LEMMA ProxiedInvariant ==
  ASSUME Distinct = TRUE
  PROVE  Spec => []ProxiedInv
<1>1. Init => ProxiedInv
  <2> SUFFICES ASSUME Init PROVE ProxiedInv
    OBVIOUS
  <2>1. \A h \in Handlers : ~Busy(h) /\ serving[h].pc = "idle"
    BY DEF Init, NotServing, Busy
  <2>2. \A n \in Nodes, u \in Users : ~HasProxy(n, u)
    BY DEF Init, NodeProxiesInit, HasProxy
  <2> QED
    BY <2>1, <2>2, InitType
    DEF ProxiedInv, ProxiedInXray, AddedBeforeStart, NoProxyWhileServed, OneRequestPerUser
<1>2. ProxiedInv /\ [Next]_vars => ProxiedInv'
  BY ProxiedNext
<1> QED
  BY <1>1, <1>2, PTL DEF Spec

\* When no two requests of one user overlap, a proxy is recorded only for a user
\* whom xray accepts, however the handlers of other users replace and close the
\* controller they share.
THEOREM AlwaysProxiedInXray ==
  ASSUME Distinct = TRUE
  PROVE  Spec => []ProxiedInXray
<1>1. ProxiedInv => ProxiedInXray
  BY DEF ProxiedInv
<1>2. Spec => []ProxiedInv
  BY ProxiedInvariant
<1> QED
  BY <1>1, <1>2, PTL

-----------------------------------------------------------------------------
Goroutines(n) == listeners[n] \cup starting[n]

\* Handler h is about to record the goroutine l of node n.
Records(h, n, l) ==
  /\ serving[h].pc = "record"
  /\ serving[h].node = n
  /\ serving[h].user = l.user
  /\ serving[h].port = l.port

\* A step that starts no goroutine and changes neither an entry nor a handler
\* that is about to record.
LEMMA RecordedStays ==
  ASSUME ProxiesRecorded,
         \A n \in Nodes : Goroutines(n)' \subseteq Goroutines(n),
         UNCHANGED connections,
         \A h \in Handlers : serving[h].pc = "record" => serving'[h] = serving[h]
  PROVE  ProxiesRecorded'
<1> SUFFICES ASSUME NEW n \in Nodes, NEW l \in Goroutines(n)'
             PROVE  connections'[n][l.user] = l.port \/ \E h \in Handlers : Records(h, n, l)'
  BY DEF ProxiesRecorded, Goroutines, Records
<1>1. connections[n][l.user] = l.port \/ \E h \in Handlers : Records(h, n, l)
  BY DEF ProxiesRecorded, Goroutines, Records
<1>2. \A h \in Handlers : Records(h, n, l) => Records(h, n, l)'
  BY DEF Records
<1> QED
  BY <1>1, <1>2

LEMMA RecordedNext ==
  ASSUME ProxiedInv, ProxiesRecorded, [Next]_vars
  PROVE  ProxiesRecorded'
<1>t. TypeOK
  BY DEF ProxiedInv
<1>s. /\ serving \in [Handlers -> Goroutine]
      /\ \A h \in Handlers : serving[h].node \in Nodes /\ serving[h].user \in Users
  BY <1>t DEF TypeOK, Goroutine
<1>c. /\ connections \in [Nodes -> [Users -> Ports \cup {NoPort}]]
      /\ starting \in [Nodes -> SUBSET Listener]
      /\ listeners \in [Nodes -> SUBSET Listener]
  BY <1>t DEF TypeOK, ProxiesTypeOK
<1>l. \A n \in Nodes : \A l \in Goroutines(n) : l.user \in Users /\ l.port \in Ports
                       /\ l = [user |-> l.user, port |-> l.port]
  BY <1>c DEF Goroutines, Listener
<1>r. \A n \in Nodes : \A l \in Goroutines(n) :
        connections[n][l.user] = l.port \/ \E h \in Handlers : Records(h, n, l)
  BY DEF ProxiesRecorded, Goroutines, Records
<1>1. ASSUME NEW h \in Handlers, NEW n \in Nodes, NEW u \in Users, handleConnect(h, n, u)
      PROVE  ProxiesRecorded'
  <2>1. UNCHANGED proxyVars /\ serving[h].pc = "idle" /\ \A k \in Handlers \ {h} : serving'[k] = serving[k]
    BY <1>1, <1>s DEF handleConnect, At
  <2> QED
    BY <2>1, RecordedStays DEF proxyVars, Goroutines
<1>2. ASSUME NEW h \in Handlers, ConnectStep(h)
      PROVE  ProxiesRecorded'
  <2> DEFINE n == serving[h].node
             u == serving[h].user
  <2>n. n \in Nodes /\ u \in Users
    BY <1>s
  <2>1. CASE MakeController(h) \/ Dial(h) \/ DeferClose(h) \/ AddUser(h) \/ AddFails(h) \/ RemoveUser(h)
    <3>1. UNCHANGED proxyVars /\ serving[h].pc # "record"
      BY <2>1 DEF MakeController, Dial, DeferClose, AddUser, AddFails, RemoveUser, At
    <3>2. \A k \in Handlers \ {h} : serving'[k] = serving[k]
      BY <2>1, <1>s, GotoFields
      DEF MakeController, Dial, DeferClose, AddUser, AddFails, RemoveUser
    <3> QED
      BY <3>1, <3>2, RecordedStays DEF proxyVars, Goroutines
  <2>2. CASE Refuse(h) \/ Panic(h)
    <3>1. UNCHANGED proxyVars /\ serving[h].pc # "record" /\ Return(h)
      BY <2>2 DEF Refuse, Panic, At
    <3>2. \A k \in Handlers \ {h} : serving'[k] = serving[k]
      BY <3>1, <1>s DEF Return
    <3> QED
      BY <3>1, <3>2, RecordedStays DEF proxyVars, Goroutines
  <2>3. CASE Start(h)
    <3>1. PICK p \in Ports :
            /\ StartProxy(serving[h].node, serving[h].user, p)
            /\ serving' = [serving EXCEPT ![h].pc = "record", ![h].port = p]
      BY <2>3 DEF Start
    <3>2. /\ serving[h].pc = "start"
          /\ serving'[h].pc = "record" /\ serving'[h].port = p
          /\ serving'[h].node = n /\ serving'[h].user = u
          /\ \A k \in Handlers \ {h} : serving'[k] = serving[k]
      BY <2>3, <1>s, <3>1 DEF Start, At, Goroutine
    <3>3. /\ connections' = connections
          /\ \A m \in Nodes : Goroutines(m)' \subseteq
               Goroutines(m) \cup {l \in {[user |-> u, port |-> p]} : m = n}
      BY <3>1, <1>c, <2>n DEF StartProxy, Goroutines
    <3> SUFFICES ASSUME NEW m \in Nodes, NEW l \in Goroutines(m)'
                 PROVE  connections'[m][l.user] = l.port \/ \E k \in Handlers : Records(k, m, l)'
      BY DEF ProxiesRecorded, Goroutines, Records
    <3>4. CASE l \in Goroutines(m)
      <4>1. \A k \in Handlers : Records(k, m, l) => Records(k, m, l)'
        BY <3>2 DEF Records
      <4> QED
        BY <1>r, <3>3, <3>4, <4>1
    <3>5. CASE m = n /\ l = [user |-> u, port |-> p]
      <4>1. Records(h, m, l)'
        BY <3>2, <3>5 DEF Records
      <4> QED
        BY <4>1
    <3> QED
      BY <3>3, <3>4, <3>5
  <2>4. CASE Record(h)
    <3>1. /\ serving[h].pc = "record"
          /\ connections' = [connections EXCEPT ![n][u] = serving[h].port]
          /\ UNCHANGED <<starting, listeners>>
          /\ \A k \in Handlers \ {h} : serving'[k] = serving[k]
      BY <2>4, <1>s DEF Record, RecordProxy, Return, At
    <3>2. connections[n][u] = NoPort
      BY <3>1 DEF ProxiedInv, NoProxyWhileServed, Busy, HasProxy
    <3> SUFFICES ASSUME NEW m \in Nodes, NEW l \in Goroutines(m)
                 PROVE  connections'[m][l.user] = l.port \/ \E k \in Handlers : Records(k, m, l)'
      BY <3>1 DEF ProxiesRecorded, Goroutines, Records
    <3>l. l.user \in Users /\ l.port \in Ports
      BY <1>l
    <3>3. CASE m = n /\ l.user = u
      <4>1. connections[m][l.user] # l.port
        BY <3>2, <3>3, <3>l, PortAssumption
      <4>2. PICK k \in Handlers : Records(k, m, l)
        BY <1>r, <4>1
      <4>3. serving[k].pc = "record" /\ serving[k].user = u /\ serving[k].port = l.port
        BY <3>3, <4>2 DEF Records
      <4>4. k = h
        BY <3>1, <4>3 DEF ProxiedInv, OneRequestPerUser, Busy
      <4> QED
        BY <1>c, <2>n, <3>1, <3>3, <4>3, <4>4
    <3>4. CASE ~(m = n /\ l.user = u)
      <4>1. connections'[m][l.user] = connections[m][l.user]
        BY <1>c, <2>n, <3>1, <3>4, <3>l
      <4>2. \A k \in Handlers : Records(k, m, l) => k # h
        BY <3>4 DEF Records
      <4>3. \A k \in Handlers : Records(k, m, l) => Records(k, m, l)'
        BY <3>1, <4>2 DEF Records
      <4> QED
        BY <1>r, <4>1, <4>3
    <3> QED
      BY <3>3, <3>4
  <2> QED
    BY <1>2, <2>1, <2>2, <2>3, <2>4 DEF ConnectStep
<1>3. ASSUME NEW n \in Nodes, Listen(n)
      PROVE  ProxiesRecorded'
  <2>1. PICK l \in starting[n] : NewProxy(n, l)
    BY <1>3 DEF Listen
  <2>2. \A m \in Nodes : Goroutines(m)' \subseteq Goroutines(m)
    BY <1>c, <2>1 DEF NewProxy, Goroutines
  <2>3. UNCHANGED <<connections, serving>>
    BY <1>3 DEF Listen, NewProxy
  <2> QED
    BY <2>2, <2>3, RecordedStays
<1>4. ASSUME NEW n \in Nodes, Disconnect(n)
      PROVE  ProxiesRecorded'
  <2>1. PICK uuids \in SUBSET Users : handleDisconnect(n, uuids)
    BY <1>4 DEF Disconnect
  <2>2. serving' = serving
    BY <1>4 DEF Disconnect
  <2>3. ASSUME NEW m \in Nodes, NEW l \in Goroutines(m)'
        PROVE  /\ l \in Goroutines(m)
               /\ connections[m][l.user] = l.port => connections'[m][l.user] = l.port
    <3>1. CASE m # n
      BY <1>c, <2>1, <2>3, <3>1 DEF handleDisconnect, Goroutines
    <3>2. CASE m = n
      <4>1. l \in Goroutines(n) /\ ~(l.user \in uuids /\ l.port = connections[n][l.user])
        BY <1>c, <2>1, <2>3, <3>2 DEF handleDisconnect, Goroutines, Uncancelled
      <4>2. l.user \in Users
        BY <1>l, <4>1
      <4>3. l.user \notin uuids => connections'[n][l.user] = connections[n][l.user]
        BY <1>c, <2>1, <4>2 DEF handleDisconnect
      <4> QED
        BY <3>2, <4>1, <4>3
    <3> QED
      BY <3>1, <3>2
  <2> SUFFICES ASSUME NEW m \in Nodes, NEW l \in Goroutines(m)'
               PROVE  connections'[m][l.user] = l.port \/ \E k \in Handlers : Records(k, m, l)'
    BY DEF ProxiesRecorded, Goroutines, Records
  <2>4. \A k \in Handlers : Records(k, m, l) => Records(k, m, l)'
    BY <2>2 DEF Records
  <2> QED
    BY <1>r, <2>3, <2>4
<1>5. ASSUME NEW n \in Nodes, Restart(n)
      PROVE  ProxiesRecorded'
  <2>1. Goroutines(n)' = {}
    BY <1>5, <1>c DEF Restart, NodeReset, Goroutines
  <2> SUFFICES ASSUME NEW m \in Nodes, NEW l \in Goroutines(m)'
               PROVE  connections'[m][l.user] = l.port \/ \E k \in Handlers : Records(k, m, l)'
    BY DEF ProxiesRecorded, Goroutines, Records
  <2>2. m # n
    BY <2>1
  <2>3. l \in Goroutines(m) /\ connections'[m] = connections[m]
    BY <1>5, <1>c, <2>2 DEF Restart, NodeReset, Goroutines
  <2>4. \A k \in Handlers : Records(k, m, l) => Records(k, m, l)'
    BY <1>5, <2>2 DEF Restart, Records
  <2> QED
    BY <1>r, <2>3, <2>4
<1>6. CASE UNCHANGED vars
  BY <1>6, RecordedStays DEF vars, proxyVars, Goroutines
<1> QED
  BY <1>1, <1>2, <1>3, <1>4, <1>5, <1>6 DEF Next

\* When no two requests of one user overlap, every goroutine of NewProxy can be
\* closed by a disconnect request: its port is in connections, or its handler is
\* about to put it there, whatever disconnects and restarts come in between.
THEOREM AlwaysProxiesRecorded ==
  ASSUME Distinct = TRUE
  PROVE  Spec => []ProxiesRecorded
<1>1. Init => ProxiesRecorded
  BY DEF Init, NodeProxiesInit, ProxiesRecorded
<1>2. ProxiedInv /\ ProxiesRecorded /\ [Next]_vars => ProxiesRecorded'
  BY RecordedNext
<1>3. Spec => []ProxiedInv
  BY ProxiedInvariant
<1> QED
  BY <1>1, <1>2, <1>3, PTL DEF Spec
=============================================================================
