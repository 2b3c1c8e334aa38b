--------------------------- MODULE SessionsProofs ---------------------------
(***************************************************************************)
(* For any users, nodes, ports, limits and number of concurrent requests:  *)
(* the limit of connections per user, by an argument about the lengths of  *)
(* lists only, and type correctness.                                       *)
(***************************************************************************)
EXTENDS Sessions, FiniteSetTheorems, WellFoundedInduction, TLAPS

\* s is a list.
IsList(s) == s \in Seq({s[i] : i \in DOMAIN s})

\* Every user has a list in lists, and none is too long.
Limited(lists) ==
  /\ lists = [u \in Users |-> lists[u]]
  /\ \A u \in Users : IsList(lists[u]) /\ Len(lists[u]) <= MAX_CONNECTIONS_PER_USER

\* The inductive invariant: the monitor's copy, which it will write into the
\* table, keeps the limit too.
LimitInv ==
  /\ Limited(userConnectionMap)
  /\ monitor = [pc |-> monitor.pc, regs |-> monitor.regs, todo |-> monitor.todo,
                valid |-> monitor.valid, timedOutMap |-> monitor.timedOutMap]
  /\ Limited(monitor.valid)

\* Connect and its goroutines speak of users and of registrations.
HandlersInv ==
  /\ connect \in [Handlers -> ConnectGoroutine]
  /\ providers \in [Nodes -> 0..MaxServiceID]
  /\ serviceID \in [Nodes -> 1..MaxServiceID]

-----------------------------------------------------------------------------
\* A list of anything is a list.
LEMMA ListIntro ==
  ASSUME NEW S, NEW s \in Seq(S)
  PROVE  IsList(s)
BY DEF IsList

\* A function on an initial segment of the positive numbers is a list.
LEMMA FunctionIsList ==
  ASSUME NEW n \in Nat, NEW f, f = [i \in 1..n |-> f[i]]
  PROVE  IsList(f) /\ Len(f) = n
<1> DEFINE S == {f[i] : i \in 1..n}
<1>1. [i \in 1..n |-> f[i]] \in Seq(S) /\ Len([i \in 1..n |-> f[i]]) = n
  OBVIOUS
<1> QED BY <1>1, ListIntro

\* A list is a function on its positions.
LEMMA ListElim ==
  ASSUME NEW s, IsList(s)
  PROVE  Len(s) \in Nat /\ DOMAIN s = 1..Len(s)
BY DEF IsList

\* Keeping some positions of a list yields a list that is no longer.
LEMMA SubsequenceLimit ==
  ASSUME NEW list, IsList(list), NEW kept \in SUBSET DOMAIN list
  PROVE  IsList(Subsequence(list, kept)) /\ Len(Subsequence(list, kept)) <= Len(list)
<1>1. Len(list) \in Nat /\ DOMAIN list = 1..Len(list)
  BY ListElim
<1>2. IsFiniteSet(1..Len(list)) /\ Cardinality(1..Len(list)) = Len(list)
  BY <1>1, FS_Interval
<1>3. IsFiniteSet(kept) /\ Cardinality(kept) <= Len(list)
  BY <1>1, <1>2, FS_Subset
<1>4. Cardinality(kept) \in Nat
  BY <1>3, FS_CardinalityType
<1> DEFINE At(j) == CHOOSE i \in kept : Cardinality({m \in kept : m <= i}) = j
           f == [j \in 1..Cardinality(kept) |-> list[At(j)]]
<1>5. f = [j \in 1..Cardinality(kept) |-> f[j]]
  OBVIOUS
<1> HIDE DEF f
<1>6. IsList(f) /\ Len(f) = Cardinality(kept)
  BY <1>4, <1>5, FunctionIsList
<1>7. Subsequence(list, kept) = f
  BY DEF Subsequence, f
<1> QED BY <1>3, <1>6, <1>7

\* Tail and Append of a list.
LEMMA TailAppend ==
  ASSUME NEW s, IsList(s), NEW x
  PROVE  /\ IsList(Append(s, x)) /\ Len(Append(s, x)) = Len(s) + 1
         /\ s # <<>> => IsList(Tail(s)) /\ Len(Tail(s)) = Len(s) - 1
<1> DEFINE S == {s[i] : i \in DOMAIN s}
<1>1. s \in Seq(S) /\ s \in Seq(S \cup {x})
  BY DEF IsList
<1> HIDE DEF S
<1>2. Append(s, x) \in Seq(S \cup {x}) /\ Len(Append(s, x)) = Len(s) + 1
  BY <1>1
<1>3. s # <<>> => Tail(s) \in Seq(S) /\ Len(Tail(s)) = Len(s) - 1
  BY <1>1
<1> QED BY <1>2, <1>3, ListIntro

\* Changing the entry of one user to a list within the limit keeps the limit.
LEMMA LimitedExcept ==
  ASSUME NEW lists, Limited(lists), NEW u \in Users, NEW s, IsList(s),
         Len(s) <= MAX_CONNECTIONS_PER_USER
  PROVE  Limited([lists EXCEPT ![u] = s])
<1> DEFINE new == [lists EXCEPT ![u] = s]
<1>1. \A v \in Users : new[v] = IF v = u THEN s ELSE lists[v]
  BY DEF Limited
<1>2. new = [v \in Users |-> new[v]]
  BY DEF Limited
<1> HIDE DEF new
<1>3. Limited(new)
  BY <1>1, <1>2 DEF Limited
<1> QED BY <1>3 DEF new

\* Time makes no list longer.
LEMMA AllOlderLimited ==
  ASSUME NEW lists, Limited(lists)
  PROVE  Limited(AllOlder(lists))
<1> DEFINE new == AllOlder(lists)
<1>1. ASSUME NEW u \in Users
      PROVE  IsList(new[u]) /\ Len(new[u]) <= MAX_CONNECTIONS_PER_USER
  <2> DEFINE f == [i \in DOMAIN lists[u] |-> [lists[u][i] EXCEPT !.LastHeartBeat = Older(@)]]
  <2>1. Len(lists[u]) \in Nat /\ DOMAIN lists[u] = 1..Len(lists[u])
    BY ListElim DEF Limited
  <2>2. f = [i \in 1..Len(lists[u]) |-> f[i]]
    BY <2>1
  <2>3. new[u] = f
    BY DEF AllOlder
  <2> HIDE DEF f, new
  <2>4. IsList(f) /\ Len(f) = Len(lists[u])
    BY <2>1, <2>2, FunctionIsList
  <2> QED BY <2>3, <2>4 DEF Limited
<1>2. new = [u \in Users |-> new[u]]
  BY DEF AllOlder
<1> HIDE DEF new
<1>3. Limited(new)
  BY <1>1, <1>2 DEF Limited
<1> QED BY <1>3 DEF new

\* A table without connections keeps the limit.
LEMMA NoConnectionsLimited == Limited(NoConnections)
<1>1. IsList(<<>>) /\ Len(<<>>) = 0
  BY DEF IsList
<1> QED BY <1>1, ConnectionAssumption DEF Limited, NoConnections

-----------------------------------------------------------------------------
\* Connect keeps the limit: it makes room before it appends.
LEMMA AddConnectionLimit ==
  ASSUME LimitInv, NEW u \in Users, NEW n, NEW id, AddConnection(u, n, id)
  PROVE  LimitInv'
<1> DEFINE old == userConnectionMap[u]
           room == IF Len(old) >= MAX_CONNECTIONS_PER_USER THEN Tail(old) ELSE old
           c == [NodeIP |-> n, ServiceID |-> id, LastHeartBeat |-> 0]
<1>1. IsList(old) /\ Len(old) <= MAX_CONNECTIONS_PER_USER /\ Len(old) \in Nat
  BY ListElim DEF LimitInv, Limited
<1>2. MAX_CONNECTIONS_PER_USER \in Nat \ {0}
  BY ConnectionAssumption
<1>3. IsList(room) /\ Len(room) <= MAX_CONNECTIONS_PER_USER - 1 /\ Len(room) \in Nat
  <2>1. CASE Len(old) >= MAX_CONNECTIONS_PER_USER
    <3>1. old # <<>>
      BY <1>2, <2>1
    <3>2. IsList(Tail(old)) /\ Len(Tail(old)) = Len(old) - 1
      BY <1>1, <3>1, TailAppend
    <3> QED BY <1>1, <1>2, <2>1, <3>2, ListElim
  <2>2. CASE ~(Len(old) >= MAX_CONNECTIONS_PER_USER)
    BY <1>1, <1>2, <2>2
  <2> QED BY <2>1, <2>2
<1> HIDE DEF room
<1>4. IsList(Append(room, c)) /\ Len(Append(room, c)) <= MAX_CONNECTIONS_PER_USER
  BY <1>2, <1>3, TailAppend
<1>5. userConnectionMap' = [userConnectionMap EXCEPT ![u] = Append(room, c)]
  BY DEF AddConnection, room, LimitInv, Limited
<1>6. Limited(userConnectionMap')
  BY <1>4, <1>5, LimitedExcept DEF LimitInv
<1>7. UNCHANGED monitor
  BY DEF AddConnection
<1> QED BY <1>6, <1>7 DEF LimitInv

\* A heartbeat changes no length.
LEMMA RefreshLimit ==
  ASSUME LimitInv, NEW u \in Users, NEW n, NEW id, RefreshConnection(u, n, id)
  PROVE  LimitInv'
<1> DEFINE list == userConnectionMap[u]
<1>1. IsList(list) /\ Len(list) \in Nat /\ DOMAIN list = 1..Len(list)
      /\ Len(list) <= MAX_CONNECTIONS_PER_USER
  BY ListElim DEF LimitInv, Limited
<1>2. PICK i \in DOMAIN list :
        userConnectionMap' = [userConnectionMap EXCEPT ![u] =
          [list EXCEPT ![i] = [list[i] EXCEPT !.LastHeartBeat = 0]]]
  BY DEF RefreshConnection, LimitInv, Limited
<1> DEFINE f == [list EXCEPT ![i] = [list[i] EXCEPT !.LastHeartBeat = 0]]
<1>3. DOMAIN f = 1..Len(list)
  BY <1>1
<1>4. f = [j \in 1..Len(list) |-> f[j]]
  BY <1>3
<1> HIDE DEF f
<1>5. IsList(f) /\ Len(f) <= MAX_CONNECTIONS_PER_USER
  BY <1>1, <1>4, FunctionIsList
<1>6. Limited(userConnectionMap')
  BY <1>2, <1>5, LimitedExcept DEF LimitInv, f
<1>7. UNCHANGED monitor
  BY DEF RefreshConnection
<1> QED BY <1>6, <1>7 DEF LimitInv

\* The monitor's first pass, and its copy, keep some positions of each list.
LEMMA KeptLimited ==
  ASSUME NEW lists, Limited(lists), NEW kept,
         \A u \in Users : kept[u] \in SUBSET DOMAIN lists[u]
  PROVE  Limited([u \in Users |-> Subsequence(lists[u], kept[u])])
<1> DEFINE new == [u \in Users |-> Subsequence(lists[u], kept[u])]
<1>1. ASSUME NEW u \in Users
      PROVE  IsList(new[u]) /\ Len(new[u]) <= MAX_CONNECTIONS_PER_USER
  <2>1. IsList(lists[u]) /\ Len(lists[u]) <= MAX_CONNECTIONS_PER_USER
    BY DEF Limited
  <2>2. /\ IsList(Subsequence(lists[u], kept[u]))
        /\ Len(Subsequence(lists[u], kept[u])) <= Len(lists[u])
    BY <2>1, SubsequenceLimit
  <2>3. Len(lists[u]) \in Nat /\ Len(Subsequence(lists[u], kept[u])) \in Nat
    BY <2>1, <2>2, ListElim
  <2>4. Len(Subsequence(lists[u], kept[u])) <= MAX_CONNECTIONS_PER_USER
    BY <2>1, <2>2, <2>3, ConnectionAssumption
  <2> QED BY <2>2, <2>4
<1>2. new = [u \in Users |-> new[u]]
  OBVIOUS
<1> HIDE DEF new
<1>3. Limited(new)
  BY <1>1, <1>2 DEF Limited
<1> QED BY <1>3 DEF new

\* The heartbeat monitor keeps the limit.
LEMMA MonitorLimit ==
  ASSUME LimitInv,
         \/ MonitorProviders \/ MonitorPrune \/ MonitorCopy \/ MonitorEnd
         \/ \E u \in Users : MonitorUpdate(u)
         \/ \E n \in Nodes : MonitorSent(n)
  PROVE  LimitInv'
<1>1. CASE MonitorProviders \/ \E n \in Nodes : MonitorSent(n)
  <2>1. /\ UNCHANGED userConnectionMap
        /\ monitor'.valid = monitor.valid
        /\ monitor' = [pc |-> monitor'.pc, regs |-> monitor'.regs, todo |-> monitor'.todo,
                       valid |-> monitor'.valid, timedOutMap |-> monitor'.timedOutMap]
    BY <1>1 DEF MonitorProviders, MonitorSent, LimitInv
  <2> QED BY <2>1 DEF LimitInv
<1>2. CASE MonitorPrune
  <2> DEFINE kept == [u \in Users |->
               {i \in DOMAIN userConnectionMap[u] :
                  monitor.regs[userConnectionMap[u][i].NodeIP] = userConnectionMap[u][i].ServiceID}]
  <2>1. \A u \in Users : kept[u] \in SUBSET DOMAIN userConnectionMap[u]
    OBVIOUS
  <2>2. userConnectionMap' = [u \in Users |-> Subsequence(userConnectionMap[u], kept[u])]
    BY <1>2 DEF MonitorPrune
  <2> HIDE DEF kept
  <2>3. Limited(userConnectionMap')
    BY <2>1, <2>2, KeptLimited DEF LimitInv
  <2>4. /\ monitor'.valid = monitor.valid
        /\ monitor' = [pc |-> monitor'.pc, regs |-> monitor'.regs, todo |-> monitor'.todo,
                       valid |-> monitor'.valid, timedOutMap |-> monitor'.timedOutMap]
    BY <1>2 DEF MonitorPrune, LimitInv
  <2> QED BY <2>3, <2>4 DEF LimitInv
<1>3. CASE MonitorCopy
  <2> DEFINE kept == [u \in Users |->
               {i \in DOMAIN userConnectionMap[u] :
                  ~TimedOut(userConnectionMap[u][i].LastHeartBeat)}]
             valid == [u \in Users |-> Subsequence(userConnectionMap[u], kept[u])]
  <2>1. \A u \in Users : kept[u] \in SUBSET DOMAIN userConnectionMap[u]
    OBVIOUS
  <2>2. monitor'.valid = valid
    BY <1>3 DEF MonitorCopy, LimitInv
  <2> HIDE DEF kept
  <2>3. Limited(valid)
    BY <2>1, KeptLimited DEF LimitInv
  <2>4. /\ UNCHANGED userConnectionMap
        /\ monitor' = [pc |-> monitor'.pc, regs |-> monitor'.regs, todo |-> monitor'.todo,
                       valid |-> monitor'.valid, timedOutMap |-> monitor'.timedOutMap]
    BY <1>3 DEF MonitorCopy, LimitInv
  <2> QED BY <2>2, <2>3, <2>4 DEF LimitInv
<1>4. CASE MonitorEnd
  <2>1. UNCHANGED userConnectionMap /\ monitor' = NoMonitor
    BY <1>4 DEF MonitorEnd
  <2> QED BY <2>1, NoConnectionsLimited DEF LimitInv, NoMonitor
<1>5. ASSUME NEW u \in Users, MonitorUpdate(u) PROVE LimitInv'
  <2>1. IsList(monitor.valid[u]) /\ Len(monitor.valid[u]) <= MAX_CONNECTIONS_PER_USER
    BY DEF LimitInv, Limited
  <2>2. userConnectionMap' = [userConnectionMap EXCEPT ![u] = monitor.valid[u]]
    BY <1>5 DEF MonitorUpdate
  <2>3. Limited(userConnectionMap')
    BY <2>1, <2>2, LimitedExcept DEF LimitInv
  <2>4. /\ monitor'.valid = [monitor.valid EXCEPT ![u] = <<>>]
        /\ monitor' = [pc |-> monitor'.pc, regs |-> monitor'.regs, todo |-> monitor'.todo,
                       valid |-> monitor'.valid, timedOutMap |-> monitor'.timedOutMap]
    BY <1>5 DEF MonitorUpdate, LimitInv
  <2>5. IsList(<<>>) /\ Len(<<>>) <= MAX_CONNECTIONS_PER_USER
    BY ConnectionAssumption DEF IsList
  <2>6. Limited(monitor'.valid)
    BY <2>4, <2>5, LimitedExcept DEF LimitInv
  <2> QED BY <2>3, <2>4, <2>6 DEF LimitInv
<1> QED BY <1>1, <1>2, <1>3, <1>4, <1>5

\* Every step of the system keeps the limit.
LEMMA StepLimit ==
  ASSUME HandlersInv, LimitInv, [Next]_vars
  PROVE  LimitInv'
<1>1. CASE UNCHANGED <<userConnectionMap, monitor>>
  BY <1>1 DEF LimitInv
<1>2. ASSUME NEW h \in Handlers, Connected(h) PROVE LimitInv'
  <2>1. connect[h].user \in Users
    BY DEF HandlersInv, ConnectGoroutine
  <2> QED BY <1>2, <2>1, AddConnectionLimit DEF Connected
<1>3. ASSUME NEW u \in Users, NEW n \in Nodes, HeartbeatFromClient(u, n) PROVE LimitInv'
  BY <1>3, RefreshLimit DEF HeartbeatFromClient
<1>4. CASE StartMonitor \/ Monitor
  BY <1>4, MonitorLimit DEF StartMonitor, Monitor, Disconnect, DisconnectFails
<1>5. ASSUME NEW u \in Users, PlanDrop(u) PROVE LimitInv'
  <2>1. IsList(<<>>) /\ Len(<<>>) <= MAX_CONNECTIONS_PER_USER
    BY ConnectionAssumption DEF IsList
  <2>2. Limited(userConnectionMap') /\ UNCHANGED monitor
    BY <1>5, <2>1, LimitedExcept DEF PlanDrop, LimitInv
  <2> QED BY <2>2 DEF LimitInv
<1>6. CASE WebRestart
  BY <1>6, NoConnectionsLimited DEF WebRestart, WebReset, LimitInv, NoMonitor
<1>7. CASE Tick
  <2>1. Limited(userConnectionMap') /\ Limited(AllOlder(monitor.valid))
    BY <1>7, AllOlderLimited DEF Tick, ConnectionsAge, LimitInv
  <2>2. /\ monitor'.valid = AllOlder(monitor.valid)
        /\ monitor' = [pc |-> monitor'.pc, regs |-> monitor'.regs, todo |-> monitor'.todo,
                       valid |-> monitor'.valid, timedOutMap |-> monitor'.timedOutMap]
    BY <1>7 DEF Tick, ConnectionsAge, LimitInv
  <2> QED BY <2>1, <2>2 DEF LimitInv
<1> QED BY <1>1, <1>2, <1>3, <1>4, <1>5, <1>6, <1>7
        DEF Next, vars, webVars, ConnectStep, Connect, NodeLooksUp, NodeStarts, NodeRecords,
            Connected, ConnectFails, ClientLeaves, StartPlan, PlanFind, Plan, PlanSend,
            Billing, Exceed, Renew, PlanReturn, ProxyListens, NodeRestart, Discovered,
            ProviderChanges, HandlersInv

-----------------------------------------------------------------------------
\* Every step of the system keeps the goroutines of Connect in their types.
LEMMA StepHandlers ==
  ASSUME HandlersInv, [Next]_vars
  PROVE  HandlersInv'
<1> USE DEF HandlersInv
<1>a. NoConnect \in ConnectGoroutine
  <2>1. (CHOOSE u \in Users : TRUE) \in Users /\ (CHOOSE n \in Nodes : TRUE) \in Nodes
    BY SessionAssumption
  <2> QED BY <2>1, ConnectionAssumption DEF NoConnect, ConnectGoroutine
<1>b. \A h \in Handlers : connect[h] \in ConnectGoroutine
  OBVIOUS
<1>1. ASSUME NEW h \in Handlers, NEW u \in Users, NEW n \in Nodes, Connect(h, u, n)
      PROVE  HandlersInv'
  <2> DEFINE new == [NoConnect EXCEPT !.pc = "ask", !.user = u, !.node = n, !.id = providers[n]]
  <2>1. providers[n] \in 1..MaxServiceID
    BY <1>1, ConnectionAssumption DEF Connect
  <2>2. new \in ConnectGoroutine
    BY <1>a, <2>1 DEF ConnectGoroutine
  <2>3. connect' = [connect EXCEPT ![h] = new] /\ UNCHANGED <<providers, serviceID>>
    BY <1>1 DEF Connect, webVars
  <2> QED BY <2>2, <2>3
<1>2. ASSUME NEW h \in Handlers, ConnectStep(h) \/ ConnectFails(h) PROVE HandlersInv'
  <2>1. connect' \in [Handlers -> ConnectGoroutine]
    <3>1. CASE NodeLooksUp(h)
      BY <1>b, <3>1 DEF NodeLooksUp, ConnectGoroutine
    <3>2. CASE NodeStarts(h)
      <4>1. PICK p \in Ports :
              connect' = [connect EXCEPT ![h] = [[@ EXCEPT !.pc = "record"] EXCEPT !.port = p]]
        BY <3>2 DEF NodeStarts
      <4>2. [[connect[h] EXCEPT !.pc = "record"] EXCEPT !.port = p] \in ConnectGoroutine
        BY <1>b DEF ConnectGoroutine
      <4> QED BY <4>1, <4>2
    <3>3. CASE NodeRecords(h)
      BY <1>b, <3>3 DEF NodeRecords, ConnectGoroutine
    <3>4. CASE Connected(h) \/ ConnectFails(h)
      BY <1>a, <3>4 DEF Connected, ConnectFails
    <3> QED BY <1>2, <3>1, <3>2, <3>3, <3>4 DEF ConnectStep
  <2>2. UNCHANGED <<providers, serviceID>>
    BY <1>2 DEF ConnectStep, NodeLooksUp, NodeStarts, NodeRecords, Connected, AddConnection,
                ConnectFails, webVars
  <2> QED BY <2>1, <2>2
<1>3. ASSUME NEW n \in Nodes, NodeRestart(n) PROVE HandlersInv'
  <2>1. connect' \in [Handlers -> ConnectGoroutine]
    BY <1>a, <1>b, <1>3 DEF NodeRestart
  <2>2. serviceID' \in [Nodes -> 1..MaxServiceID] /\ UNCHANGED providers
    BY <1>3, ConnectionAssumption DEF NodeRestart, webVars
  <2> QED BY <2>1, <2>2
<1>4. ASSUME NEW n \in Nodes, Discovered(n) PROVE HandlersInv'
  <2>1. PICK id \in {0, serviceID[n]} : ProviderChanges(n, id)
    BY <1>4 DEF Discovered
  <2>2. id \in 0..MaxServiceID
    BY ConnectionAssumption
  <2>3. providers' \in [Nodes -> 0..MaxServiceID]
    BY <2>1, <2>2 DEF ProviderChanges
  <2> QED BY <1>4, <2>3 DEF Discovered, sessionVars
<1>5. CASE WebRestart
  BY <1>5, ConnectionAssumption DEF WebRestart, WebReset, sessionVars
<1>6. CASE UNCHANGED <<connect, providers, serviceID>>
  BY <1>6
<1> QED BY <1>1, <1>2, <1>3, <1>4, <1>5, <1>6
        DEF Next, vars, webVars, sessionVars, ClientLeaves, HeartbeatFromClient,
            RefreshConnection, StartMonitor, MonitorProviders, Monitor, MonitorPrune,
            MonitorCopy, MonitorUpdate, MonitorEnd, MonitorSent, Disconnect, DisconnectFails,
            StartPlan, PlanFind, Plan, PlanDrop, PlanSend, Billing, Exceed, Renew, PlanReturn,
            ProxyListens, Tick, ConnectionsAge

\* The limit of connections holds in every state, whatever Connect, heartbeats,
\* the two monitors and restarts do in between (controllers.go:384-394,
\* clientHeartbeatMonitor.go:83-119).
THEOREM AlwaysLimited == Spec => []ConnectionsLimited
<1>1. Init => HandlersInv /\ LimitInv
  <2> SUFFICES ASSUME Init PROVE HandlersInv /\ LimitInv
    OBVIOUS
  <2>1. (CHOOSE u \in Users : TRUE) \in Users /\ (CHOOSE n \in Nodes : TRUE) \in Nodes
    BY SessionAssumption
  <2>2. NoConnect \in ConnectGoroutine
    BY <2>1, ConnectionAssumption DEF NoConnect, ConnectGoroutine
  <2>3. HandlersInv
    BY <2>2, ConnectionAssumption DEF Init, HandlersInv, UserConnectionsInit
  <2>4. LimitInv
    BY NoConnectionsLimited DEF Init, UserConnectionsInit, LimitInv, NoMonitor
  <2> QED BY <2>3, <2>4
<1>2. HandlersInv /\ LimitInv /\ [Next]_vars => (HandlersInv /\ LimitInv)'
  BY StepLimit, StepHandlers
<1>3. LimitInv => ConnectionsLimited
  BY DEF LimitInv, Limited, ConnectionsLimited
<1> QED BY <1>1, <1>2, <1>3, PTL DEF Spec

-----------------------------------------------------------------------------
(* The types. *)

\* A set of natural numbers that is not empty has a least element.
LEMMA LeastNatural ==
  ASSUME NEW T \in SUBSET Nat, T # {}
  PROVE  \E x \in T : \A y \in T : x <= y
<1>1. PICK x \in T : \A y \in T : ~(<<y, x>> \in OpToRel(<, Nat))
  BY WFMin, NatLessThanWellFounded
<1>2. ASSUME NEW y \in T, y < x PROVE FALSE
  <2>1. <<y, x>> \in {ss \in Nat \X Nat : ss[1] < ss[2]}
    BY <1>2
  <2>2. <<y, x>> \in OpToRel(<, Nat)
    BY <2>1, Zenon DEF OpToRel
  <2> QED BY <1>1, <2>2
<1> QED BY <1>2

\* For each j up to their number, a set of positions has one up to which there
\* are j of them.
LEMMA PositionExists ==
  ASSUME NEW n \in Nat, NEW kept \in SUBSET (1..n), NEW j \in 1..Cardinality(kept)
  PROVE  \E i \in kept : Cardinality({m \in kept : m <= i}) = j
<1> DEFINE Below(i) == {m \in kept : m <= i}
           T == {i \in 0..n : Cardinality(Below(i)) >= j}
<1>1. IsFiniteSet(kept) /\ \A i \in 0..n : IsFiniteSet(Below(i)) /\ Cardinality(Below(i)) \in Nat
  <2>1. IsFiniteSet(1..n)
    BY FS_Interval
  <2>2. ASSUME NEW S \in SUBSET (1..n) PROVE IsFiniteSet(S) /\ Cardinality(S) \in Nat
    BY <2>1, FS_Subset, FS_CardinalityType
  <2> QED BY <2>2
<1>2. Below(n) = kept /\ Below(0) = {}
  <2>1. \A m \in kept : m <= n /\ ~(m <= 0)
    OBVIOUS
  <2> QED BY <2>1, Zenon
<1>3. n \in T
  <2>1. Cardinality(kept) \in Nat
    BY <1>1, FS_CardinalityType
  <2>2. Cardinality(kept) >= j
    BY <2>1
  <2> QED BY <1>2, <2>2
<1>4. PICK i \in T : \A y \in T : i <= y
  <2>1. T \in SUBSET (0..n) /\ T # {}
    BY <1>3, Zenon
  <2>2. T \in SUBSET Nat
    <3> HIDE DEF T
    <3> QED BY <2>1
  <2> HIDE DEF T
  <2> QED BY <2>1, <2>2, LeastNatural
<1>5. i \in 1..n
  <2>1. 0 \notin T
    BY <1>2, FS_EmptySet
  <2> QED BY <1>4, <2>1
<1>6. ~(Cardinality(Below(i - 1)) >= j)
  <2> HIDE DEF Below
  <2>1. i - 1 \in 0..n /\ ~(i <= i - 1)
    BY <1>5
  <2>2. i - 1 \notin T
    BY <1>4, <2>1
  <2> QED BY <2>1, <2>2, Zenon
<1>7. Below(i) = Below(i - 1) \cup ({i} \cap kept) /\ i \notin Below(i - 1)
  <2>1. \A m \in kept : m <= i <=> m <= i - 1 \/ m = i
    BY <1>5
  <2>2. ~(i <= i - 1)
    BY <1>5
  <2> QED BY <2>1, <2>2, Zenon
<1> HIDE DEF Below
<1>8. i \in kept
  <2> SUFFICES ASSUME i \notin kept PROVE FALSE
    OBVIOUS
  <2>1. Below(i) = Below(i - 1)
    BY <1>7
  <2> QED BY <1>4, <1>6, <2>1
<1>9. Cardinality(Below(i)) = Cardinality(Below(i - 1)) + 1
  <2>1. Below(i) = Below(i - 1) \cup {i}
    BY <1>7, <1>8
  <2>2. i - 1 \in 0..n
    BY <1>5
  <2> QED BY <1>1, <1>7, <2>1, <2>2, FS_AddElement
<1>10. Cardinality(Below(i)) = j
  <2>1. Cardinality(Below(i - 1)) \in Nat
    BY <1>1, <1>5
  <2>2. Cardinality(Below(i)) >= j
    BY <1>4
  <2> QED BY <1>6, <1>9, <2>1, <2>2
<1> QED BY <1>8, <1>10 DEF Below

\* sub has elements of the list, from distinct positions among those kept.
PickedFrom(sub, list, kept) ==
  \E at \in [DOMAIN sub -> kept] :
    /\ \A j \in DOMAIN at : sub[j] = list[at[j]]
    /\ \A i, j \in DOMAIN at : at[i] = at[j] => i = j

\* A subsequence has the elements of the list at distinct positions.
LEMMA SubsequenceElements ==
  ASSUME NEW list, IsList(list), NEW kept \in SUBSET DOMAIN list
  PROVE  PickedFrom(Subsequence(list, kept), list, kept)
<1> DEFINE At(j) == CHOOSE i \in kept : Cardinality({m \in kept : m <= i}) = j
           at == [j \in 1..Cardinality(kept) |-> At(j)]
<1>1. Len(list) \in Nat /\ kept \in SUBSET (1..Len(list))
  BY ListElim
<1>2. ASSUME NEW j \in 1..Cardinality(kept)
      PROVE  At(j) \in kept /\ Cardinality({m \in kept : m <= At(j)}) = j
  <2>1. \E i \in kept : Cardinality({m \in kept : m <= i}) = j
    BY <1>1, PositionExists
  <2> QED BY <2>1, Zenon
<1>3. /\ DOMAIN Subsequence(list, kept) = 1..Cardinality(kept)
      /\ \A j \in 1..Cardinality(kept) : Subsequence(list, kept)[j] = list[At(j)]
  BY DEF Subsequence
<1> HIDE DEF At
<1>4. at \in [DOMAIN Subsequence(list, kept) -> kept]
  BY <1>2, <1>3
<1>5. ASSUME NEW i \in 1..Cardinality(kept), NEW j \in 1..Cardinality(kept), at[i] = at[j]
      PROVE  i = j
  BY <1>2, <1>5
<1>6. \A j \in DOMAIN at : Subsequence(list, kept)[j] = list[at[j]]
  BY <1>3
<1>7. \A i, j \in DOMAIN at : at[i] = at[j] => i = j
  BY <1>5
<1> QED BY <1>4, <1>6, <1>7 DEF PickedFrom

\* So it is a list of the same kind of elements.
LEMMA SubsequenceType ==
  ASSUME NEW S, NEW list \in Seq(S), NEW kept \in SUBSET DOMAIN list
  PROVE  Subsequence(list, kept) \in Seq(S)
<1> DEFINE sub == Subsequence(list, kept)
<1>1. IsList(list)
  BY ListIntro
<1>2. IsList(sub)
  BY <1>1, SubsequenceLimit
<1>3. PICK at \in [DOMAIN sub -> kept] : \A j \in DOMAIN at : sub[j] = list[at[j]]
  BY <1>1, SubsequenceElements DEF PickedFrom
<1> HIDE DEF sub
<1>4. Len(sub) \in Nat /\ DOMAIN sub = 1..Len(sub)
  BY <1>2, ListElim
<1>5. \A j \in 1..Len(sub) : sub[j] \in S
  BY <1>3, <1>4
<1>6. sub \in Seq({sub[i] : i \in DOMAIN sub})
  BY <1>2 DEF IsList
<1>7. sub \in Seq(S)
  BY <1>4, <1>5, <1>6
<1> QED BY <1>7 DEF sub

\* Time keeps the connections of a table in their types.
LEMMA AllOlderType ==
  ASSUME NEW lists \in [Users -> Seq(UserConnection)]
  PROVE  AllOlder(lists) \in [Users -> Seq(UserConnection)]
<1>1. ASSUME NEW u \in Users
      PROVE  [i \in DOMAIN lists[u] |-> [lists[u][i] EXCEPT !.LastHeartBeat = Older(@)]]
               \in Seq(UserConnection)
  <2>1. lists[u] \in Seq(UserConnection)
    OBVIOUS
  <2>2. DOMAIN lists[u] = 1..Len(lists[u]) /\ Len(lists[u]) \in Nat
    BY <2>1
  <2>3. ASSUME NEW c \in UserConnection
        PROVE  [c EXCEPT !.LastHeartBeat = Older(@)] \in UserConnection
    <3>1. c.LastHeartBeat \in 0..Stale
      BY DEF UserConnection
    <3>2. Older(c.LastHeartBeat) \in 0..Stale
      BY <3>1, ConnectionAssumption DEF Older, Stale
    <3> QED BY <3>2 DEF UserConnection
  <2>4. \A i \in 1..Len(lists[u]) : lists[u][i] \in UserConnection
    BY <2>1
  <2> QED BY <2>2, <2>3, <2>4
<1> QED BY <1>1 DEF AllOlder

\* The monitor's record, field by field.
MonitorGoroutine ==
  [pc : {"idle", "prune", "copy", "update"}, regs : [Nodes -> 0..MaxServiceID],
   todo : SUBSET Users, valid : [Users -> Seq(UserConnection)],
   timedOutMap : [Nodes -> SUBSET Users]]

LEMMA NoMonitorType == NoMonitor \in MonitorGoroutine
<1>1. <<>> \in Seq(UserConnection)
  OBVIOUS
<1> QED BY <1>1, ConnectionAssumption DEF NoMonitor, MonitorGoroutine, NoConnections, NoBatches

\* Every step keeps the table and the monitor's goroutine in their types.
LEMMA StepTable ==
  ASSUME TypeOK, [Next]_vars
  PROVE  userConnectionMap' \in [Users -> Seq(UserConnection)] /\ monitor' \in MonitorGoroutine
<1> DEFINE Tables == [Users -> Seq(UserConnection)]
           Kept(u, S) == Subsequence(userConnectionMap[u], S)
<1>0. /\ userConnectionMap \in Tables /\ monitor \in MonitorGoroutine
      /\ monitor.valid \in Tables /\ <<>> \in Seq(UserConnection)
  BY DEF TypeOK, ConnectionsTypeOK, MonitorGoroutine
<1>1. CASE UNCHANGED <<userConnectionMap, monitor>>
  BY <1>0, <1>1
<1>2. ASSUME NEW h \in Handlers, Connected(h)
      PROVE  userConnectionMap' \in Tables /\ monitor' \in MonitorGoroutine
  <2> DEFINE c == connect[h]
             old == userConnectionMap[c.user]
             room == IF Len(old) >= MAX_CONNECTIONS_PER_USER THEN Tail(old) ELSE old
             new == [NodeIP |-> c.node, ServiceID |-> c.id, LastHeartBeat |-> 0]
  <2>1. c \in ConnectGoroutine
    BY DEF TypeOK
  <2>2. c.user \in Users /\ new \in UserConnection
    BY <2>1, ConnectionAssumption DEF ConnectGoroutine, UserConnection, Stale
  <2>3. old \in Seq(UserConnection) /\ MAX_CONNECTIONS_PER_USER \in Nat \ {0}
    BY <1>0, <2>2, ConnectionAssumption
  <2>4. UNCHANGED monitor /\ userConnectionMap' = [userConnectionMap EXCEPT ![c.user] = Append(room, new)]
    BY <1>2 DEF Connected, AddConnection
  <2> HIDE DEF c, old, new
  <2>5. room \in Seq(UserConnection)
    <3>1. CASE Len(old) >= MAX_CONNECTIONS_PER_USER
      <4>1. old # <<>>
        BY <2>3, <3>1
      <4> QED BY <2>3, <3>1, <4>1
    <3>2. CASE ~(Len(old) >= MAX_CONNECTIONS_PER_USER)
      BY <2>3, <3>2
    <3> QED BY <3>1, <3>2
  <2> HIDE DEF room
  <2>6. Append(room, new) \in Seq(UserConnection)
    BY <2>2, <2>5
  <2> QED BY <1>0, <2>2, <2>4, <2>6
<1>3. ASSUME NEW u \in Users, NEW n \in Nodes, HeartbeatFromClient(u, n)
      PROVE  userConnectionMap' \in Tables /\ monitor' \in MonitorGoroutine
  <2> DEFINE list == userConnectionMap[u]
  <2>1. PICK i \in DOMAIN list :
          /\ UNCHANGED monitor
          /\ userConnectionMap' = [userConnectionMap EXCEPT ![u] =
               [list EXCEPT ![i] = [list[i] EXCEPT !.LastHeartBeat = 0]]]
    BY <1>3 DEF HeartbeatFromClient, RefreshConnection
  <2>2. list \in Seq(UserConnection)
    BY <1>0
  <2>3. [list[i] EXCEPT !.LastHeartBeat = 0] \in UserConnection
    <3>1. list[i] \in UserConnection /\ 0 \in 0..Stale
      BY <2>2, ConnectionAssumption DEF Stale
    <3> QED BY <3>1, Zenon DEF UserConnection
  <2> HIDE DEF list
  <2>4. [list EXCEPT ![i] = [list[i] EXCEPT !.LastHeartBeat = 0]] \in Seq(UserConnection)
    BY <2>2, <2>3
  <2> QED BY <1>0, <2>1, <2>4
<1>4. CASE MonitorProviders
  BY <1>0, <1>4 DEF MonitorProviders, MonitorGoroutine, TypeOK, ConnectionsTypeOK
<1>5. CASE MonitorPrune
  <2> DEFINE kept == [u \in Users |->
               {i \in DOMAIN userConnectionMap[u] :
                  monitor.regs[userConnectionMap[u][i].NodeIP] = userConnectionMap[u][i].ServiceID}]
  <2>1. \A u \in Users : kept[u] \in SUBSET DOMAIN userConnectionMap[u]
    OBVIOUS
  <2>2. userConnectionMap' = [u \in Users |-> Kept(u, kept[u])]
    BY <1>5 DEF MonitorPrune
  <2> HIDE DEF kept
  <2>3. \A u \in Users : Kept(u, kept[u]) \in Seq(UserConnection)
    BY <1>0, <2>1, SubsequenceType
  <2>4. NoMonitor.regs \in [Nodes -> 0..MaxServiceID]
    BY ConnectionAssumption DEF NoMonitor
  <2>5. monitor' = [monitor EXCEPT !.pc = "copy", !.regs = NoMonitor.regs]
    BY <1>5 DEF MonitorPrune
  <2>6. monitor' \in MonitorGoroutine
    BY <1>0, <2>4, <2>5 DEF MonitorGoroutine
  <2> QED BY <2>2, <2>3, <2>6
<1>6. CASE MonitorCopy
  <2> DEFINE kept == [u \in Users |->
               {i \in DOMAIN userConnectionMap[u] :
                  ~TimedOut(userConnectionMap[u][i].LastHeartBeat)}]
             valid == [u \in Users |-> Kept(u, kept[u])]
             late == [n \in Nodes |->
               {u \in Users : \E i \in DOMAIN userConnectionMap[u] :
                  /\ userConnectionMap[u][i].NodeIP = n
                  /\ TimedOut(userConnectionMap[u][i].LastHeartBeat)}]
             todo == {u \in Users : userConnectionMap[u] # <<>>}
  <2>1. \A u \in Users : kept[u] \in SUBSET DOMAIN userConnectionMap[u]
    OBVIOUS
  <2>2. /\ monitor' = [monitor EXCEPT !.pc = "update", !.todo = todo, !.valid = valid,
                                      !.timedOutMap = late]
        /\ UNCHANGED userConnectionMap
    BY <1>6 DEF MonitorCopy
  <2> HIDE DEF kept
  <2>3. \A u \in Users : Kept(u, kept[u]) \in Seq(UserConnection)
    BY <1>0, <2>1, SubsequenceType
  <2>4. valid \in Tables /\ late \in [Nodes -> SUBSET Users] /\ todo \in SUBSET Users
    BY <2>3
  <2> HIDE DEF valid, late, todo
  <2>5. monitor' \in MonitorGoroutine
    BY <1>0, <2>2, <2>4 DEF MonitorGoroutine
  <2> QED BY <1>0, <2>2, <2>5
<1>7. ASSUME NEW u \in Users, MonitorUpdate(u)
      PROVE  userConnectionMap' \in Tables /\ monitor' \in MonitorGoroutine
  <2>1. userConnectionMap' \in Tables
    BY <1>0, <1>7 DEF MonitorUpdate
  <2>2. [monitor.valid EXCEPT ![u] = <<>>] \in Tables /\ monitor.todo \ {u} \in SUBSET Users
    BY <1>0 DEF MonitorGoroutine
  <2>3. monitor' = [monitor EXCEPT !.todo = monitor.todo \ {u},
                                   !.valid = [monitor.valid EXCEPT ![u] = <<>>]]
    BY <1>0, <1>7 DEF MonitorUpdate, MonitorGoroutine
  <2>4. monitor' \in MonitorGoroutine
    BY <1>0, <2>2, <2>3 DEF MonitorGoroutine
  <2> QED BY <2>1, <2>4
<1>8. ASSUME NEW n \in Nodes, MonitorSent(n)
      PROVE  userConnectionMap' \in Tables /\ monitor' \in MonitorGoroutine
  <2>1. [monitor.timedOutMap EXCEPT ![n] = {}] \in [Nodes -> SUBSET Users]
    BY <1>0 DEF MonitorGoroutine
  <2>2. /\ monitor' = [monitor EXCEPT !.timedOutMap = [monitor.timedOutMap EXCEPT ![n] = {}]]
        /\ UNCHANGED userConnectionMap
    BY <1>0, <1>8 DEF MonitorSent, MonitorGoroutine
  <2>3. monitor' \in MonitorGoroutine
    BY <1>0, <2>1, <2>2 DEF MonitorGoroutine
  <2> QED BY <1>0, <2>2, <2>3
<1>9. CASE MonitorEnd
  BY <1>0, <1>9, NoMonitorType DEF MonitorEnd
<1>10. CASE StartMonitor \/ Monitor
  BY <1>4, <1>5, <1>6, <1>7, <1>8, <1>9, <1>10
     DEF StartMonitor, Monitor, Disconnect, DisconnectFails
<1>11. ASSUME NEW u \in Users, PlanDrop(u)
       PROVE  userConnectionMap' \in Tables /\ monitor' \in MonitorGoroutine
  BY <1>0, <1>11 DEF PlanDrop
<1>12. CASE WebRestart
  BY <1>0, <1>12, NoMonitorType DEF WebRestart, WebReset, NoConnections
<1>13. CASE Tick
  <2>1. AllOlder(userConnectionMap) \in Tables /\ AllOlder(monitor.valid) \in Tables
    BY <1>0, AllOlderType
  <2>2. /\ userConnectionMap' = AllOlder(userConnectionMap)
        /\ monitor' = [monitor EXCEPT !.valid = AllOlder(monitor.valid)]
    BY <1>0, <1>13 DEF Tick, ConnectionsAge, MonitorGoroutine
  <2>3. monitor' \in MonitorGoroutine
    BY <1>0, <2>1, <2>2 DEF MonitorGoroutine
  <2> QED BY <2>1, <2>2, <2>3
<1> QED BY <1>1, <1>2, <1>3, <1>10, <1>11, <1>12, <1>13
        DEF Next, vars, webVars, ConnectStep, Connect, NodeLooksUp, NodeStarts, NodeRecords,
            ConnectFails, ClientLeaves, StartPlan, PlanFind, Plan, PlanSend,
            Billing, Exceed, Renew, PlanReturn, ProxyListens, NodeRestart, Discovered,
            ProviderChanges

\* Every step keeps the nodes' variables in their types.
LEMMA StepProxies ==
  ASSUME TypeOK, [Next]_vars
  PROVE  ProxiesTypeOK'
<1>0. ProxiesTypeOK
  BY DEF TypeOK
<1>1. CASE UNCHANGED proxyVars
  BY <1>0, <1>1 DEF proxyVars, ProxiesTypeOK
<1>2. ASSUME NEW h \in Handlers, NodeStarts(h) PROVE ProxiesTypeOK'
  <2>1. connect[h].node \in Nodes /\ connect[h].user \in Users
    BY DEF TypeOK, ConnectGoroutine
  <2>2. PICK p \in Ports : StartProxy(connect[h].node, connect[h].user, p)
    BY <1>2 DEF NodeStarts
  <2>3. [user |-> connect[h].user, port |-> p] \in Listener
    BY <2>1 DEF Listener
  <2> QED BY <1>0, <2>1, <2>2, <2>3 DEF StartProxy, ProxiesTypeOK
<1>3. ASSUME NEW h \in Handlers, NodeRecords(h) PROVE ProxiesTypeOK'
  <2>1. /\ connect[h].node \in Nodes /\ connect[h].user \in Users
        /\ connect[h].port \in Ports \cup {NoPort}
    BY DEF TypeOK, ConnectGoroutine
  <2> QED BY <1>0, <1>3, <2>1 DEF NodeRecords, RecordProxy, ProxiesTypeOK
<1>4. ASSUME NEW n \in Nodes, ProxyListens(n) PROVE ProxiesTypeOK'
  <2>1. PICK l \in starting[n] : NewProxy(n, l)
    BY <1>4 DEF ProxyListens
  <2>2. l \in Listener
    BY <1>0, <2>1 DEF ProxiesTypeOK
  <2>3. starting' \in [Nodes -> SUBSET Listener] /\ UNCHANGED connections
    BY <1>0, <2>1 DEF NewProxy, ProxiesTypeOK
  <2>4. listeners' \in [Nodes -> SUBSET Listener]
    BY <1>0, <2>1, <2>2 DEF NewProxy, ProxiesTypeOK
  <2> QED BY <1>0, <2>3, <2>4 DEF ProxiesTypeOK
<1>5. ASSUME NEW n \in Nodes, Disconnect(n) PROVE ProxiesTypeOK'
  <2> DEFINE batch == monitor.timedOutMap[n]
  <2>1. handleDisconnect(n, batch)
    BY <1>5 DEF Disconnect
  <2> HIDE DEF batch
  <2>2. \A ls \in SUBSET Listener : Uncancelled(n, batch, ls) \in SUBSET Listener
    BY DEF Uncancelled
  <2>3. connections' \in [Nodes -> [Users -> Ports \cup {NoPort}]]
    BY <1>0, <2>1 DEF handleDisconnect, ProxiesTypeOK
  <2>4. /\ starting' = [starting EXCEPT ![n] = Uncancelled(n, batch, starting[n])]
        /\ listeners' = [listeners EXCEPT ![n] = Uncancelled(n, batch, listeners[n])]
    BY <1>0, <2>1 DEF handleDisconnect, ProxiesTypeOK
  <2> QED BY <1>0, <2>2, <2>3, <2>4 DEF ProxiesTypeOK
<1>6. ASSUME NEW n \in Nodes, NodeRestart(n) PROVE ProxiesTypeOK'
  BY <1>0, <1>6 DEF NodeRestart, NodeReset, ProxiesTypeOK
<1> QED BY <1>1, <1>2, <1>3, <1>4, <1>5, <1>6
        DEF Next, vars, ConnectStep, Connect, NodeLooksUp, Connected, ConnectFails, ClientLeaves,
            HeartbeatFromClient, StartMonitor, Monitor, DisconnectFails, StartPlan, Plan,
            Billing, Discovered, WebRestart, Tick

\* Every step keeps the remaining variables in their types.
LEMMA StepOthers ==
  ASSUME TypeOK, [Next]_vars
  PROVE  /\ plan' \in [pc : {"idle", "drop", "returned"}, users : SUBSET Users]
         /\ exceeded' \in [Users -> BOOLEAN]
         /\ silent' \in [Users -> BOOLEAN]
         /\ heard' \in [Users -> [Nodes -> 0..Stale]]
<1> DEFINE PlanType == [pc : {"idle", "drop", "returned"}, users : SUBSET Users]
           Heards == [Users -> [Nodes -> 0..Stale]]
<1>0. /\ plan \in PlanType /\ exceeded \in [Users -> BOOLEAN]
      /\ silent \in [Users -> BOOLEAN] /\ heard \in Heards
  BY DEF TypeOK, ConnectionsTypeOK
<1>a. 0 \in 0..Stale /\ \A a \in 0..Stale : Older(a) \in 0..Stale
  BY ConnectionAssumption DEF Older, Stale
<1>b. NoPlan \in PlanType
  BY DEF NoPlan
<1>1. plan' \in PlanType
  <2>1. CASE PlanFind
    BY <2>1 DEF PlanFind
  <2>2. ASSUME NEW u \in Users, PlanDrop(u) PROVE plan' \in PlanType
    BY <1>0, <2>2 DEF PlanDrop
  <2>3. CASE PlanSend \/ WebReset
    BY <1>b, <2>3 DEF PlanSend, WebReset
  <2>4. CASE PlanReturn
    BY <1>0, <2>4 DEF PlanReturn
  <2>5. CASE UNCHANGED plan
    BY <1>0, <2>5
  <2> HIDE DEF PlanType
  <2> QED BY <2>1, <2>2, <2>3, <2>4, <2>5
        DEF Next, vars, webVars, sessionVars, ConnectStep, Connect, NodeLooksUp, NodeStarts,
            NodeRecords, Connected, AddConnection, ConnectFails, ClientLeaves,
            HeartbeatFromClient, RefreshConnection, StartMonitor, MonitorProviders, Monitor,
            MonitorPrune, MonitorCopy, MonitorUpdate, MonitorEnd, MonitorSent, Disconnect,
            DisconnectFails, StartPlan, Plan, Billing, Exceed, Renew, ProxyListens, NodeRestart,
            Discovered, ProviderChanges, WebRestart, Tick, ConnectionsAge
<1>2. exceeded' \in [Users -> BOOLEAN]
  <2>1. ASSUME NEW u \in Users, Exceed(u) \/ Renew(u) PROVE exceeded' \in [Users -> BOOLEAN]
    BY <1>0, <2>1 DEF Exceed, Renew
  <2>2. CASE UNCHANGED exceeded
    BY <1>0, <2>2
  <2> QED BY <2>1, <2>2
        DEF Next, vars, webVars, sessionVars, ConnectStep, Connect, NodeLooksUp, NodeStarts,
            NodeRecords, Connected, AddConnection, ConnectFails, ClientLeaves,
            HeartbeatFromClient, RefreshConnection, StartMonitor, MonitorProviders, Monitor,
            MonitorPrune, MonitorCopy, MonitorUpdate, MonitorEnd, MonitorSent, Disconnect,
            DisconnectFails, StartPlan, PlanFind, Plan, PlanDrop, PlanSend, Billing, PlanReturn,
            ProxyListens, NodeRestart, Discovered, ProviderChanges, WebRestart, WebReset, Tick,
            ConnectionsAge
<1>3. silent' \in [Users -> BOOLEAN]
  <2>1. ASSUME NEW u \in Users, ClientLeaves(u) PROVE silent' \in [Users -> BOOLEAN]
    BY <1>0, <2>1 DEF ClientLeaves
  <2>2. CASE UNCHANGED silent
    BY <1>0, <2>2
  <2> QED BY <2>1, <2>2
        DEF Next, vars, sessionVars, ConnectStep, Connect, NodeLooksUp, NodeStarts,
            NodeRecords, Connected, ConnectFails, HeartbeatFromClient, StartMonitor, Monitor,
            StartPlan, Plan, Billing, ProxyListens, NodeRestart, Discovered, WebRestart, Tick
<1>4. heard' \in Heards
  <2>1. ASSUME NEW h \in Handlers, Connected(h) PROVE heard' \in Heards
    <3>1. connect[h].user \in Users /\ connect[h].node \in Nodes
      BY DEF TypeOK, ConnectGoroutine
    <3> QED BY <1>0, <1>a, <2>1, <3>1 DEF Connected
  <2>2. ASSUME NEW u \in Users, NEW n \in Nodes, HeartbeatFromClient(u, n) PROVE heard' \in Heards
    BY <1>0, <1>a, <2>2 DEF HeartbeatFromClient
  <2>3. CASE Tick
    BY <1>0, <1>a, <2>3 DEF Tick
  <2>4. CASE UNCHANGED heard
    BY <1>0, <2>4
  <2> HIDE DEF Heards
  <2> QED BY <2>1, <2>2, <2>3, <2>4
        DEF Next, vars, sessionVars, ConnectStep, Connect, NodeLooksUp, NodeStarts,
            NodeRecords, ConnectFails, ClientLeaves, StartMonitor, Monitor,
            StartPlan, Plan, Billing, ProxyListens, NodeRestart, Discovered, WebRestart
<1> QED BY <1>1, <1>2, <1>3, <1>4

\* Every variable of the web service, the nodes and the clients always has its
\* type, however requests, monitors and restarts overlap: the monitor's stale
\* copies hold connections, and every proxy a node's maps speak of has a port.
THEOREM TypeCorrect == Spec => []TypeOK
<1>1. Init => TypeOK
  <2> SUFFICES ASSUME Init PROVE TypeOK
    OBVIOUS
  <2>1. (CHOOSE u \in Users : TRUE) \in Users /\ (CHOOSE n \in Nodes : TRUE) \in Nodes
    BY SessionAssumption
  <2>2. NoConnect \in ConnectGoroutine
    BY <2>1, ConnectionAssumption DEF NoConnect, ConnectGoroutine
  <2>3. <<>> \in Seq(UserConnection) /\ Stale \in 0..Stale
    BY ConnectionAssumption DEF Stale
  <2>4. ConnectionsTypeOK
    BY <2>3, NoMonitorType, ConnectionAssumption
       DEF Init, UserConnectionsInit, ConnectionsTypeOK, MonitorGoroutine, NoConnections, NoPlan
  <2>5. ProxiesTypeOK
    BY DEF Init, NodeProxiesInit, ProxiesTypeOK
  <2> QED BY <2>2, <2>3, <2>4, <2>5, ConnectionAssumption DEF Init, TypeOK
<1>2. TypeOK /\ [Next]_vars => TypeOK'
  <2> SUFFICES ASSUME TypeOK, [Next]_vars PROVE TypeOK'
    OBVIOUS
  <2>1. HandlersInv
    BY DEF TypeOK, ConnectionsTypeOK, HandlersInv
  <2>2. HandlersInv'
    BY <2>1, StepHandlers
  <2> QED BY <2>2, StepTable, StepProxies, StepOthers
          DEF TypeOK, ConnectionsTypeOK, HandlersInv, MonitorGoroutine
<1> QED BY <1>1, <1>2, PTL DEF Spec

=============================================================================
