---------------------------- MODULE TrafficStats ----------------------------
(***************************************************************************)
(* How a node counts the traffic of its proxies and reports it:            *)
(* handleConnection of node/proxy.go and StartTrafficReport of             *)
(* node/server.go.                                                         *)
(*                                                                         *)
(* statsStore maps a port to a ConnStats that the goroutines of the port's *)
(* connections hold a pointer to.  A disconnect request deletes the entry, *)
(* but the connections that hold the pointer go on and count where nobody  *)
(* looks.  statsCache keeps what was reported of a port, and nothing ever  *)
(* deletes its entries.  Uploaded and Downloaded are one number.           *)
(*                                                                         *)
(* A connect request is one step here; module Sessions takes it apart.     *)
(***************************************************************************)
EXTENDS NodeProxies, Integers

CONSTANT MaxTraffic     \* bound: the bytes a user moves

ASSUME TrafficAssumption == MaxTraffic \in Nat

VARIABLES
  statsStore,    \* node -> port -> bytes, or Absent
  statsCache,    \* node -> port -> bytes; no entry counts as 0
  tunnels,       \* node -> the goroutines of handleConnection
  report         \* node -> the goroutine of StartTrafficReport

statsVars == <<statsStore, statsCache, tunnels, report>>

Absent == -1

\* A goroutine of handleConnection: it has no ConnStats yet, it has the one in
\* statsStore, or one that is no longer there.
Tunnel == [user : Users, port : Ports, stats : {"none", "stored", "deleted"}]

Entry == [user : Users, traffic : Int]

\* The goroutine of StartTrafficReport: its copy of connections, the entries it
\* has collected, and the port whose statistics it copies next, with what it has
\* reported of them.
Reporter ==
  [pc : {"idle", "collect", "cache"}, todo : [Users -> Ports \cup {NoPort}],
   entries : SUBSET Entry, port : Ports \cup {NoPort}, count : Nat]

NoReport ==
  [pc |-> "idle", todo |-> [u \in Users |-> NoPort], entries |-> {},
   port |-> NoPort, count |-> 0]

TrafficStatsInit ==
  /\ statsStore = [n \in Nodes |-> [p \in Ports |-> Absent]]
  /\ statsCache = [n \in Nodes |-> [p \in Ports |-> 0]]
  /\ tunnels = [n \in Nodes |-> {}]
  /\ report = [n \in Nodes |-> NoReport]

-----------------------------------------------------------------------------
\* handleConnect from its first line to its last.
OpenProxy(n, u, p) ==
  /\ ~HasProxy(n, u)
  /\ p \in FreePorts(n)
  /\ connections' = [connections EXCEPT ![n][u] = p]
  /\ listeners' = [listeners EXCEPT ![n] = @ \cup {[user |-> u, port |-> p]}]
  /\ UNCHANGED <<starting, statsVars>>

\* The port is mentioned nowhere but in statsCache.
Unmentioned(n, p) ==
  /\ statsStore[n][p] = Absent
  /\ \A t \in tunnels[n] : t.port # p
  /\ report[n].port # p
  /\ \A u \in Users : report[n].todo[u] # p

\* The listener accepts a connection of its client.
Accept(n, l) ==
  /\ l \in listeners[n]
  /\ \A t \in tunnels[n] : t.user # l.user
  /\ tunnels' = [tunnels EXCEPT ![n] =
       @ \cup {[user |-> l.user, port |-> l.port, stats |-> "none"]}]
  /\ UNCHANGED <<proxyVars, statsStore, statsCache, report>>

\* LoadOrStore, after the call of xray.
LoadOrStore(n, t) ==
  /\ t \in tunnels[n]
  /\ t.stats = "none"
  /\ statsStore' = [statsStore EXCEPT ![n][t.port] = IF @ = Absent THEN 0 ELSE @]
  /\ tunnels' = [tunnels EXCEPT ![n] = (@ \ {t}) \cup {[t EXCEPT !.stats = "stored"]}]
  /\ UNCHANGED <<proxyVars, statsCache, report>>

\* A byte passes the tunnel and is counted.
CountByte(n, t) ==
  /\ t \in tunnels[n]
  /\ t.stats # "none"
  /\ statsStore' = IF t.stats = "stored"
                   THEN [statsStore EXCEPT ![n][t.port] = @ + 1] ELSE statsStore
  /\ UNCHANGED <<proxyVars, statsCache, tunnels, report>>

\* The goroutines of a port's connections add to one counter without a lock: the
\* sum of the byte and an older value is stored, and the counter stands still or
\* goes back.
CountStale(n, t) ==
  /\ t \in tunnels[n]
  /\ \/ /\ t.stats = "stored"
        /\ \E sum \in 1..statsStore[n][t.port] :
             statsStore' = [statsStore EXCEPT ![n][t.port] = sum]
     \/ t.stats = "deleted" /\ UNCHANGED statsStore
  /\ UNCHANGED <<proxyVars, statsCache, tunnels, report>>

CloseTunnel(n, t) ==
  /\ t \in tunnels[n]
  /\ tunnels' = [tunnels EXCEPT ![n] = @ \ {t}]
  /\ UNCHANGED <<proxyVars, statsStore, statsCache, report>>

\* handleDisconnect of one user: the proxy goes and the port's statistics are
\* deleted.
CloseProxy(n, u) ==
  LET p == connections[n][u] IN
  /\ HasProxy(n, u)
  /\ handleDisconnect(n, {u})
  /\ statsStore' = [statsStore EXCEPT ![n][p] = Absent]
  /\ tunnels' = [tunnels EXCEPT ![n] =
       {IF t.port = p /\ t.stats = "stored" THEN [t EXCEPT !.stats = "deleted"] ELSE t : t \in @}]
  /\ UNCHANGED <<statsCache, report>>

-----------------------------------------------------------------------------
\* A round of StartTrafficReport begins with a copy of connections.
ReportSnapshot(n) ==
  /\ report[n].pc = "idle"
  /\ report' = [report EXCEPT ![n] = [NoReport EXCEPT !.pc = "collect", !.todo = connections[n]]]
  /\ UNCHANGED <<proxyVars, statsStore, statsCache, tunnels>>

\* Mutant: a port that was never reported is skipped like one without
\* statistics.
ReportSkipNew(n, u) ==
  LET p == report[n].todo[u] IN
  /\ report[n].pc = "collect"
  /\ p # NoPort
  /\ statsStore[n][p] = Absent \/ statsCache[n][p] = 0
  /\ report' = [report EXCEPT ![n].todo[u] = NoPort]
  /\ UNCHANGED <<proxyVars, statsStore, statsCache, tunnels>>

\* A port without statistics is skipped.
ReportSkip(n, u) ==
  LET p == report[n].todo[u] IN
  /\ report[n].pc = "collect"
  /\ p # NoPort
  /\ statsStore[n][p] = Absent
  /\ report' = [report EXCEPT ![n].todo[u] = NoPort]
  /\ UNCHANGED <<proxyVars, statsStore, statsCache, tunnels>>

\* diff is what was counted since the last round ...
ReportDiff(n, u) ==
  LET p == report[n].todo[u] IN
  /\ report[n].pc = "collect"
  /\ p # NoPort
  /\ statsStore[n][p] # Absent
  /\ report' = [report EXCEPT
       ![n].pc = "cache",
       ![n].todo[u] = NoPort,
       ![n].port = p,
       ![n].count = statsStore[n][p],
       ![n].entries = @ \cup {[user |-> u, traffic |-> statsStore[n][p] - statsCache[n][p]]}]
  /\ UNCHANGED <<proxyVars, statsStore, statsCache, tunnels>>

\* Mutant: the statistics are looked up again, and may be gone.
ReportCacheReload(n) ==
  LET p == report[n].port IN
  /\ report[n].pc = "cache"
  /\ statsCache' = [statsCache EXCEPT ![n][p] = statsStore[n][p]]
  /\ report' = [report EXCEPT ![n].pc = "collect", ![n].port = NoPort, ![n].count = 0]
  /\ UNCHANGED <<proxyVars, statsStore, tunnels>>

\* ... and the statistics are copied, as they are by now, into statsCache.
\* (What a deleted ConnStats counts in between is left out.)
ReportCache(n) ==
  LET p == report[n].port IN
  /\ report[n].pc = "cache"
  /\ statsCache' = [statsCache EXCEPT ![n][p] =
       IF statsStore[n][p] = Absent THEN report[n].count ELSE statsStore[n][p]]
  /\ report' = [report EXCEPT ![n].pc = "collect", ![n].port = NoPort, ![n].count = 0]
  /\ UNCHANGED <<proxyVars, statsStore, tunnels>>

\* The round is over; entries are in the hands of the goroutine that posts
\* them, if there are any.
ReportEnd(n) ==
  /\ report[n].pc = "collect"
  /\ report[n].todo = NoReport.todo
  /\ report' = [report EXCEPT ![n] = NoReport]
  /\ UNCHANGED <<proxyVars, statsStore, statsCache, tunnels>>

\* The node's process ends and with it all it has counted.
StatsReset(n) ==
  /\ NodeReset(n)
  /\ statsStore' = [statsStore EXCEPT ![n] = [p \in Ports |-> Absent]]
  /\ statsCache' = [statsCache EXCEPT ![n] = [p \in Ports |-> 0]]
  /\ tunnels' = [tunnels EXCEPT ![n] = {}]
  /\ report' = [report EXCEPT ![n] = NoReport]

\* The variables hold values of their types.
StatsTypeOK ==
  /\ ProxiesTypeOK
  /\ statsStore \in [Nodes -> [Ports -> Nat \cup {Absent}]]
  /\ statsCache \in [Nodes -> [Ports -> Nat]]
  /\ tunnels \in [Nodes -> SUBSET Tunnel]
  /\ report \in [Nodes -> Reporter]
=============================================================================
