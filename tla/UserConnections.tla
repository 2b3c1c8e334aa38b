--------------------------- MODULE UserConnections ---------------------------
(***************************************************************************)
(* The web service's table of user connections: Connect and                *)
(* HeartbeatFromClient of web/controllers/controllers.go and the monitors  *)
(* of clientHeartbeatMonitor.go and PlanMonitor.go.  Each access to the    *)
(* table is made under userConnectionMapMutex and is one step; what a      *)
(* monitor copies in one of them it writes back in another.                *)
(*                                                                         *)
(* A node gets a new ServiceID whenever it registers: the pair of NodeIP    *)
(* and the number of the registration stands for it.                       *)
(* A user without a key in the table has the empty list.  LastHeartBeat is *)
(* kept as an age that stops at Stale.                                     *)
(***************************************************************************)
EXTENDS SessionTypes, Integers, Sequences, FiniteSets

CONSTANTS
  MAX_CONNECTIONS_PER_USER,
  HEARTBEAT_TIMEOUT,          \* in ticks of the clock
  MaxServiceID                \* bound: how often a node may be registered

ASSUME ConnectionAssumption ==
  /\ MAX_CONNECTIONS_PER_USER \in Nat \ {0}
  /\ HEARTBEAT_TIMEOUT \in Nat
  /\ MaxServiceID \in Nat \ {0}

VARIABLES
  userConnectionMap,   \* user -> list of connections
  providers,           \* the cached NodeService registrations: node -> ServiceID,
                       \* 0 for a node that is not cached
  monitor,             \* the goroutine of StartHeartbeatMonitor
  plan,                \* the goroutine of StartPlanMonitor
  exceeded             \* user -> the plan is over or the traffic is used up

webVars == <<userConnectionMap, providers, monitor, plan, exceeded>>

Stale == HEARTBEAT_TIMEOUT + 1

TimedOut(age) == age > HEARTBEAT_TIMEOUT

UserConnection == [NodeIP : Nodes, ServiceID : 1..MaxServiceID, LastHeartBeat : 0..Stale]

\* What is left of list at the positions kept: the j-th element is at the
\* position up to which there are j of them.
Subsequence(list, kept) ==
  LET At(j) == CHOOSE i \in kept : Cardinality({m \in kept : m <= i}) = j
  IN  [j \in 1..Cardinality(kept) |-> list[At(j)]]

NoConnections == [u \in Users |-> <<>>]

NoBatches == [n \in Nodes |-> {}]

NoMonitor ==
  [pc |-> "idle", regs |-> [n \in Nodes |-> 0], todo |-> {},
   valid |-> NoConnections, timedOutMap |-> NoBatches]

NoPlan == [pc |-> "idle", users |-> {}]

UserConnectionsInit ==
  /\ userConnectionMap = NoConnections
  /\ providers = [n \in Nodes |-> 1]
  /\ monitor = NoMonitor
  /\ plan = NoPlan
  /\ exceeded = [u \in Users |-> FALSE]

-----------------------------------------------------------------------------
\* Mutant: the oldest connection is kept.
AddConnectionUnlimited(u, n, id) ==
  /\ userConnectionMap' = [userConnectionMap EXCEPT ![u] =
       Append(@, [NodeIP |-> n, ServiceID |-> id, LastHeartBeat |-> 0])]
  /\ UNCHANGED <<providers, monitor, plan, exceeded>>

\* Mutant: the registration is looked up again after the node has answered.
AddConnectionAgain(u, n, id) ==
  LET old == userConnectionMap[u]
      room == IF Len(old) >= MAX_CONNECTIONS_PER_USER THEN Tail(old) ELSE old
  IN
  /\ userConnectionMap' = [userConnectionMap EXCEPT ![u] =
       Append(room, [NodeIP |-> n, ServiceID |-> providers[n], LastHeartBeat |-> 0])]
  /\ UNCHANGED <<providers, monitor, plan, exceeded>>

\* The end of Connect: the oldest connection makes room for the new one.
AddConnection(u, n, id) ==
  LET old == userConnectionMap[u]
      room == IF Len(old) >= MAX_CONNECTIONS_PER_USER THEN Tail(old) ELSE old
  IN
  /\ userConnectionMap' = [userConnectionMap EXCEPT ![u] =
       Append(room, [NodeIP |-> n, ServiceID |-> id, LastHeartBeat |-> 0])]
  /\ UNCHANGED <<providers, monitor, plan, exceeded>>

\* Connection c is to the ServiceID of node n's id-th registration.
IsTo(c, n, id) == c.NodeIP = n /\ c.ServiceID = id

\* Mutant: the time is written to the loop's copy of the connection.
RefreshConnectionCopy(u, n, id) ==
  /\ \E i \in DOMAIN userConnectionMap[u] : IsTo(userConnectionMap[u][i], n, id)
  /\ UNCHANGED webVars

\* HeartbeatFromClient refreshes the first connection to the ServiceID.
RefreshConnection(u, n, id) ==
  LET list == userConnectionMap[u] IN
  /\ \E i \in DOMAIN list :
       /\ IsTo(list[i], n, id)
       /\ \A j \in 1..(i - 1) : ~IsTo(list[j], n, id)
       /\ userConnectionMap' = [userConnectionMap EXCEPT ![u][i].LastHeartBeat = 0]
  /\ UNCHANGED <<providers, monitor, plan, exceeded>>

-----------------------------------------------------------------------------
\* The heartbeat monitor reads the registered nodes ...
MonitorProviders ==
  /\ monitor.pc = "idle"
  /\ monitor' = [monitor EXCEPT !.pc = "prune", !.regs = providers]
  /\ UNCHANGED <<userConnectionMap, providers, plan, exceeded>>

\* ... removes the connections to other nodes ...
MonitorPrune ==
  /\ monitor.pc = "prune"
  /\ userConnectionMap' = [u \in Users |->
       LET list == userConnectionMap[u] IN
       Subsequence(list, {i \in DOMAIN list : monitor.regs[list[i].NodeIP] = list[i].ServiceID})]
  /\ monitor' = [monitor EXCEPT !.pc = "copy", !.regs = NoMonitor.regs]
  /\ UNCHANGED <<providers, plan, exceeded>>

\* ... copies the table and judges the copy, now ...
MonitorCopy ==
  /\ monitor.pc = "copy"
  /\ monitor' = [monitor EXCEPT
       !.pc = "update",
       !.todo = {u \in Users : userConnectionMap[u] # <<>>},
       !.valid = [u \in Users |->
          LET list == userConnectionMap[u] IN
          Subsequence(list, {i \in DOMAIN list : ~TimedOut(list[i].LastHeartBeat)})],
       !.timedOutMap = [n \in Nodes |->
          {u \in Users : \E i \in DOMAIN userConnectionMap[u] :
             /\ userConnectionMap[u][i].NodeIP = n
             /\ TimedOut(userConnectionMap[u][i].LastHeartBeat)}]]
  /\ UNCHANGED <<userConnectionMap, providers, plan, exceeded>>

\* Mutant: the table is not written.
MonitorUpdateNot(u) ==
  /\ monitor.pc = "update"
  /\ u \in monitor.todo
  /\ monitor' = [monitor EXCEPT !.todo = @ \ {u}, !.valid[u] = <<>>]
  /\ UNCHANGED <<userConnectionMap, providers, plan, exceeded>>

\* ... and writes what is left of each user's copy into the table.
MonitorUpdate(u) ==
  /\ monitor.pc = "update"
  /\ u \in monitor.todo
  /\ userConnectionMap' = [userConnectionMap EXCEPT ![u] = monitor.valid[u]]
  /\ monitor' = [monitor EXCEPT !.todo = @ \ {u}, !.valid[u] = <<>>]
  /\ UNCHANGED <<providers, plan, exceeded>>

\* One goroutine per node asks it to disconnect the users in its batch; the
\* result is only logged.
MonitorSent(n) ==
  /\ monitor.pc = "update"
  /\ monitor.todo = {}
  /\ monitor.timedOutMap[n] # {}
  /\ monitor' = [monitor EXCEPT !.timedOutMap[n] = {}]
  /\ UNCHANGED <<userConnectionMap, providers, plan, exceeded>>

MonitorEnd ==
  /\ monitor.pc = "update"
  /\ monitor.todo = {}
  /\ monitor.timedOutMap = NoBatches
  /\ monitor' = NoMonitor
  /\ UNCHANGED <<userConnectionMap, providers, plan, exceeded>>

-----------------------------------------------------------------------------
\* The plan monitor finds the users whose plan is over or whose traffic is
\* used up ...
PlanFind ==
  /\ plan.pc = "idle"
  /\ plan' = [pc |-> "drop", users |-> {u \in Users : exceeded[u]}]
  /\ UNCHANGED <<userConnectionMap, providers, monitor, exceeded>>

\* ... and deletes each of them from the table.
PlanDrop(u) ==
  /\ plan.pc = "drop"
  /\ u \in plan.users
  /\ userConnectionMap' = [userConnectionMap EXCEPT ![u] = <<>>]
  /\ plan' = [plan EXCEPT !.users = @ \ {u}]
  /\ UNCHANGED <<providers, monitor, exceeded>>

\* The batches go to the nodes' root URL, without "/disconnect": every node
\* answers 404, which is logged.
PlanSend ==
  /\ plan.pc = "drop"
  /\ plan.users = {}
  /\ plan' = NoPlan
  /\ UNCHANGED <<userConnectionMap, providers, monitor, exceeded>>

\* A query fails and the monitor's goroutine returns, for good.
PlanReturn ==
  /\ plan.pc = "idle"
  /\ plan' = [plan EXCEPT !.pc = "returned"]
  /\ UNCHANGED <<userConnectionMap, providers, monitor, exceeded>>

-----------------------------------------------------------------------------
\* The cached registration of node n changes, as module Discovery describes.
ProviderChanges(n, id) ==
  /\ providers' = [providers EXCEPT ![n] = id]
  /\ UNCHANGED <<userConnectionMap, monitor, plan, exceeded>>

\* The user's plan ends, or the traffic counter reaches its limit.
Exceed(u) ==
  /\ ~exceeded[u]
  /\ exceeded' = [exceeded EXCEPT ![u] = TRUE]
  /\ UNCHANGED <<userConnectionMap, providers, monitor, plan>>

\* The plan monitor starts a new cycle for the user, or SetPlan a new plan.
Renew(u) ==
  /\ exceeded[u]
  /\ exceeded' = [exceeded EXCEPT ![u] = FALSE]
  /\ UNCHANGED <<userConnectionMap, providers, monitor, plan>>

\* The web service's process starts anew; only the database survives.
WebReset ==
  /\ userConnectionMap' = NoConnections
  /\ providers' = [n \in Nodes |-> 0]
  /\ monitor' = NoMonitor
  /\ plan' = NoPlan
  /\ UNCHANGED exceeded

Older(age) == IF age < Stale THEN age + 1 ELSE age

AllOlder(lists) ==
  [u \in Users |-> [i \in DOMAIN lists[u] |->
     [lists[u][i] EXCEPT !.LastHeartBeat = Older(@)]]]

\* Time passes, for the table and for the monitor's copy of it.
ConnectionsAge ==
  /\ userConnectionMap' = AllOlder(userConnectionMap)
  /\ monitor' = [monitor EXCEPT !.valid = AllOlder(@)]
  /\ UNCHANGED <<providers, plan, exceeded>>

-----------------------------------------------------------------------------
\* The web service's variables hold values of their types.
ConnectionsTypeOK ==
  /\ userConnectionMap \in [Users -> Seq(UserConnection)]
  /\ providers \in [Nodes -> 0..MaxServiceID]
  /\ monitor \in [pc : {"idle", "prune", "copy", "update"}, regs : [Nodes -> 0..MaxServiceID],
                  todo : SUBSET Users, valid : [Users -> Seq(UserConnection)],
                  timedOutMap : [Nodes -> SUBSET Users]]
  /\ plan \in [pc : {"idle", "drop", "returned"}, users : SUBSET Users]
  /\ exceeded \in [Users -> BOOLEAN]

\* However connects, heartbeats and the monitors' stale copies interleave, no
\* user has more than MAX_CONNECTIONS_PER_USER connections in the table.
ConnectionsLimited ==
  \A u \in Users : Len(userConnectionMap[u]) <= MAX_CONNECTIONS_PER_USER
=============================================================================
