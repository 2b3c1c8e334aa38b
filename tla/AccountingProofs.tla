-------------------------- MODULE AccountingProofs --------------------------
(***************************************************************************)
(* That nobody is charged too much, and that no byte goes astray but by    *)
(* the named losses, for any users, nodes, ports and number of reports     *)
(* that are served at the same time.                                       *)
(*                                                                         *)
(* The bytes on their way to a row are spread over counters, entries and   *)
(* requests.  Instead of summing them up, the invariants collect them, one *)
(* element per byte, in sets and compare cardinalities.  A difference      *)
(* below 0, which a port's second session starts with and a race of        *)
(* additions may leave, is no byte.                                        *)
(*                                                                         *)
(* AccountingInv bounds what was charged and is on its way from above, for *)
(* everybody; LedgerInv bounds it from below, for the users no loss hit.   *)
(***************************************************************************)
EXTENDS Accounting, FiniteSetTheorems, TLAPS

-----------------------------------------------------------------------------
\* Port p of node n is user u's: it is recorded, the reporter's copy has it, or
\* a tunnel of the user goes through it.
Claims(n, u, p) ==
  \/ connections[n][u] = p
  \/ report[n].todo[u] = p
  \/ \E t \in tunnels[n] : t.user = u /\ t.port = p

\* What the reporter has collected of what port p has counted.
Collected(n, p) == IF report[n].port = p THEN report[n].count ELSE statsCache[n][p]

\* What port p has counted and the reporter has not collected; below 0 without
\* statistics, in a second session while it has counted less than the first, and
\* when a race has put the counter back.
Excess(n, p) == statsStore[n][p] - Collected(n, p)

\* The bytes of user u that ports have counted and no entry has, ...
CountedBytes(u) ==
  {b \in Nodes \X Ports \X Nat : Claims(b[1], u, b[2]) /\ b[3] \in 1..Excess(b[1], b[2])}

\* ... those in entries of a round under way, ...
EntryBytes(u) ==
  {b \in Nodes \X Entry \X Nat :
     b[2] \in report[b[1]].entries /\ b[2].user = u /\ b[3] \in 1..b[2].traffic}

\* ... those in requests that AddTraffic has not come to, ...
PostedBytes(u) ==
  {b \in Handlers \X Entry \X Nat :
     b[2] \in adding[b[1]].entries /\ b[2].user = u /\ b[3] \in 1..b[2].traffic}

\* ... and those AddTraffic is about to write.
WrittenBytes(u) ==
  {b \in Handlers \X Users \X Nat :
     adding[b[1]].pc = "write" /\ adding[b[1]].user = u /\ b[2] = u
       /\ b[3] \in 1..adding[b[1]].traffic}

Pending(u) ==
  Cardinality(CountedBytes(u)) + Cardinality(EntryBytes(u))
  + Cardinality(PostedBytes(u)) + Cardinality(WrittenBytes(u))

PendingFinite(u) ==
  /\ IsFiniteSet(CountedBytes(u)) /\ IsFiniteSet(EntryBytes(u))
  /\ IsFiniteSet(PostedBytes(u)) /\ IsFiniteSet(WrittenBytes(u))

-----------------------------------------------------------------------------
\* A node records the ports it listens on.
PortsRecorded ==
  \A n \in Nodes, u \in Users, p \in Ports :
    connections[n][u] = p <=> [user |-> u, port |-> p] \in listeners[n]

\* No port is two users'.
PortsOwned ==
  \A n \in Nodes, u, v \in Users, p \in Ports :
    Claims(n, u, p) /\ Claims(n, v, p) => u = v

\* The reporter has a port in hand only between its two accesses to the
\* statistics.
ReporterInv == \A n \in Nodes : report[n].pc # "cache" => report[n].port = NoPort

\* AddTraffic serves users who have a row, and nobody else has used anything.
RowsInv ==
  /\ \A h \in Handlers : adding[h].pc = "idle" => adding[h].entries = {}
  /\ \A h \in Handlers : adding[h].pc = "write" => rows[adding[h].user].exists
  /\ \A u \in Users : ~rows[u].exists => rows[u].used = 0
  /\ \A u \in renewing : rows[u].exists

\* What user u was charged, has pending, or would have been charged if a
\* handler's old copy of the row were written back, is at most what it has moved.
ChargesBounded(u) ==
  /\ forgiven[u] + rows[u].used + Pending(u) <= moved[u]
  /\ \A h \in Handlers : adding[h].pc = "write" /\ adding[h].user = u =>
       forgiven[u] + adding[h].read + Pending(u) <= moved[u]

ChargesInv == \A u \in Users : PendingFinite(u) /\ ChargesBounded(u)

\* The inductive invariant.
AccountingInv == PortsRecorded /\ PortsOwned /\ ReporterInv /\ RowsInv /\ ChargesInv

-----------------------------------------------------------------------------
(* Types. *)

\* Marking users keeps the marks Boolean.
LEMMA ShortchangeType ==
  ASSUME shortchanged \in [Users -> BOOLEAN], NEW S, Shortchange(S)
  PROVE  shortchanged' \in [Users -> BOOLEAN]
BY Zenon DEF Shortchange

LEMMA NoReportType == NoReport \in Reporter
BY DEF NoReport, Reporter

LEMMA NotAddingType == NotAdding \in Adder
<1>1. NoUser \in Users
  BY SessionAssumption DEF NoUser
<1> QED BY <1>1 DEF NotAdding, Adder

LEMMA NewRowType == [exists |-> TRUE, used |-> 0] \in Row
BY DEF Row

\* A step of the node's proxies and tunnels.
LEMMA ProxyStepType ==
  ASSUME StatsTypeOK, NEW n \in Nodes,
         \/ \E u \in Users, p \in Ports : OpenProxy(n, u, p)
         \/ \E l \in listeners[n] : Accept(n, l)
         \/ \E t \in tunnels[n] : LoadOrStore(n, t) \/ CountByte(n, t) \/ CloseTunnel(n, t)
         \/ \E u \in Users : CloseProxy(n, u)
         \/ StatsReset(n)
  PROVE  StatsTypeOK'
<1> USE DEF StatsTypeOK, ProxiesTypeOK, statsVars, proxyVars
<1>1. ASSUME NEW u \in Users, NEW p \in Ports, OpenProxy(n, u, p) PROVE StatsTypeOK'
  BY <1>1 DEF OpenProxy, Listener
<1>2. ASSUME NEW l \in listeners[n], Accept(n, l) PROVE StatsTypeOK'
  <2>1. [user |-> l.user, port |-> l.port, stats |-> "none"] \in Tunnel
    BY DEF Listener, Tunnel
  <2> QED BY <1>2, <2>1 DEF Accept
<1>3. ASSUME NEW t \in tunnels[n], LoadOrStore(n, t) PROVE StatsTypeOK'
  <2>t. t \in Tunnel
    OBVIOUS
  <2>1. t \in Tunnel /\ [t EXCEPT !.stats = "stored"] \in Tunnel
    BY <2>t DEF Tunnel
  <2>2. statsStore' \in [Nodes -> [Ports -> Nat \cup {Absent}]]
    BY <1>3, <2>1 DEF LoadOrStore, Tunnel
  <2>3. tunnels' \in [Nodes -> SUBSET Tunnel]
    BY <1>3, <2>1 DEF LoadOrStore
  <2> QED BY <1>3, <2>2, <2>3 DEF LoadOrStore
<1>4. ASSUME NEW t \in tunnels[n], CountByte(n, t) PROVE StatsTypeOK'
  <2>1. t \in Tunnel
    OBVIOUS
  <2> QED BY <1>4, <2>1 DEF CountByte, Tunnel, Absent
<1>5. ASSUME NEW t \in tunnels[n], CloseTunnel(n, t) PROVE StatsTypeOK'
  BY <1>5 DEF CloseTunnel
<1>6. ASSUME NEW u \in Users, CloseProxy(n, u) PROVE StatsTypeOK'
  <2> DEFINE p == connections[n][u]
             Left(t) == IF t.port = p /\ t.stats = "stored"
                        THEN [t EXCEPT !.stats = "deleted"] ELSE t
  <2>1. \A t \in Tunnel : Left(t) \in Tunnel
    BY DEF Tunnel
  <2>2. {Left(t) : t \in tunnels[n]} \subseteq Tunnel
    BY <2>1
  <2>3. tunnels' = [tunnels EXCEPT ![n] = {Left(t) : t \in tunnels[n]}]
    BY <1>6 DEF CloseProxy
  <2>4. tunnels' \in [Nodes -> SUBSET Tunnel]
    BY <2>2, <2>3
  <2>5. p \in Ports
    BY <1>6 DEF CloseProxy, HasProxy
  <2>6. statsStore' \in [Nodes -> [Ports -> Nat \cup {Absent}]]
    BY <1>6, <2>5 DEF CloseProxy
  <2>7. ProxiesTypeOK'
    BY <1>6 DEF CloseProxy, handleDisconnect, Uncancelled
  <2> QED BY <1>6, <2>4, <2>6, <2>7 DEF CloseProxy
<1>7. ASSUME StatsReset(n) PROVE StatsTypeOK'
  BY <1>7, NoReportType DEF StatsReset, NodeReset
<1> QED
  BY <1>1, <1>2, <1>3, <1>4, <1>5, <1>6, <1>7

\* A race of additions: one counter stands still or goes back.
LEMMA StaleCount ==
  ASSUME StatsTypeOK, NEW n \in Nodes, NEW t \in tunnels[n], CountStale(n, t)
  PROVE  /\ StatsTypeOK'
         /\ UNCHANGED <<proxyVars, statsCache, tunnels, report>>
         /\ \A m \in Nodes, q \in Ports :
              \/ statsStore'[m][q] = statsStore[m][q]
              \/ m = n /\ q = t.port /\ statsStore'[m][q] \in 1..statsStore[m][q]
<1> USE DEF StatsTypeOK, ProxiesTypeOK, proxyVars
<1>1. UNCHANGED <<proxyVars, statsCache, tunnels, report>>
  BY DEF CountStale
<1>2. t \in Tunnel /\ t.port \in Ports
  BY DEF Tunnel
<1>3. CASE UNCHANGED statsStore
  BY <1>1, <1>3
<1>4. CASE \E sum \in 1..statsStore[n][t.port] :
             statsStore' = [statsStore EXCEPT ![n][t.port] = sum]
  <2>1. PICK sum \in 1..statsStore[n][t.port] :
          statsStore' = [statsStore EXCEPT ![n][t.port] = sum]
    BY <1>4
  <2>2. sum \in Nat
    BY <1>2 DEF Absent
  <2>3. statsStore' \in [Nodes -> [Ports -> Nat \cup {Absent}]]
    BY <1>2, <2>1, <2>2
  <2>4. \A m \in Nodes, q \in Ports :
          \/ statsStore'[m][q] = statsStore[m][q]
          \/ m = n /\ q = t.port /\ statsStore'[m][q] = sum
    BY <1>2, <2>1
  <2>5. \A m \in Nodes, q \in Ports :
          \/ statsStore'[m][q] = statsStore[m][q]
          \/ m = n /\ q = t.port /\ statsStore'[m][q] \in 1..statsStore[m][q]
    BY <2>1, <2>4
  <2> QED BY <1>1, <2>3, <2>5
<1> QED BY <1>3, <1>4 DEF CountStale

\* A step of the reporter.
LEMMA ReportStepType ==
  ASSUME StatsTypeOK, NEW n \in Nodes,
         \/ ReportSnapshot(n)
         \/ \E u \in Users : ReportSkip(n, u) \/ ReportDiff(n, u)
         \/ ReportCache(n)
         \/ ReportEnd(n)
  PROVE  StatsTypeOK'
<1> USE DEF StatsTypeOK, proxyVars
<1>0. ProxiesTypeOK'
  BY DEF ReportSnapshot, ReportSkip, ReportDiff, ReportCache, ReportEnd, ProxiesTypeOK
<1>r. report[n] \in Reporter
  OBVIOUS
<1>1. ASSUME ReportSnapshot(n) PROVE StatsTypeOK'
  <2>1. connections[n] \in [Users -> Ports \cup {NoPort}]
    BY DEF ProxiesTypeOK
  <2>2. [NoReport EXCEPT !.pc = "collect", !.todo = connections[n]] \in Reporter
    BY <2>1, NoReportType DEF Reporter
  <2> QED BY <1>0, <1>1, <2>2 DEF ReportSnapshot
<1>2. ASSUME NEW u \in Users, ReportSkip(n, u) PROVE StatsTypeOK'
  <2>1. [report[n] EXCEPT !.todo[u] = NoPort] \in Reporter
    BY <1>r DEF Reporter
  <2>2. report' = [report EXCEPT ![n] = [report[n] EXCEPT !.todo[u] = NoPort]]
    BY <1>2 DEF ReportSkip
  <2> QED BY <1>0, <1>2, <2>1, <2>2 DEF ReportSkip
<1>3. ASSUME NEW u \in Users, ReportDiff(n, u) PROVE StatsTypeOK'
  <2> DEFINE p == report[n].todo[u]
             e == [user |-> u, traffic |-> statsStore[n][p] - statsCache[n][p]]
             r == [report[n] EXCEPT !.pc = "cache", !.todo[u] = NoPort, !.port = p,
                     !.count = statsStore[n][p], !.entries = @ \cup {e}]
  <2>1. p \in Ports
    BY <1>3, <1>r DEF ReportDiff, Reporter
  <2>2. statsStore[n][p] \in Nat /\ statsCache[n][p] \in Nat
    BY <1>3, <2>1 DEF ReportDiff
  <2>3. e \in Entry
    BY <2>2 DEF Entry
  <2>4. report' = [report EXCEPT ![n] = r]
    BY <1>3, ZenonT(60) DEF ReportDiff
  <2> HIDE DEF p, e
  <2>5. r \in Reporter
    BY <1>r, <2>1, <2>2, <2>3 DEF Reporter
  <2> HIDE DEF r
  <2>6. report' \in [Nodes -> Reporter]
    BY <2>4, <2>5
  <2> QED BY <1>0, <1>3, <2>6 DEF ReportDiff
<1>4. ASSUME ReportCache(n) PROVE StatsTypeOK'
  <2> DEFINE p == report[n].port
             v == IF statsStore[n][p] = Absent THEN report[n].count ELSE statsStore[n][p]
             r == [report[n] EXCEPT !.pc = "collect", !.port = NoPort, !.count = 0]
  <2>1. r \in Reporter
    BY <1>r DEF Reporter
  <2>2. report' = [report EXCEPT ![n] = r] /\ statsCache' = [statsCache EXCEPT ![n][p] = v]
    BY <1>4 DEF ReportCache
  <2>3. p \in Ports => v \in Nat
    BY <1>r DEF Reporter
  <2> HIDE DEF p, v, r
  <2>4. statsCache' \in [Nodes -> [Ports -> Nat]]
    BY <2>2, <2>3
  <2>5. report' \in [Nodes -> Reporter]
    BY <2>1, <2>2
  <2> QED BY <1>0, <1>4, <2>4, <2>5 DEF ReportCache
<1>5. ASSUME ReportEnd(n) PROVE StatsTypeOK'
  BY <1>0, <1>5, NoReportType DEF ReportEnd
<1> QED
  BY <1>1, <1>2, <1>3, <1>4, <1>5

\* A step on the rows.
LEMMA AccountStepType ==
  ASSUME AccountsTypeOK,
         \/ \E u \in Users : Signup(u) \/ SaveRenewed(u)
         \/ \E h \in Handlers : \/ \E entries \in SUBSET Entry : PostReport(h, entries)
                                \/ \E e \in adding[h].entries : ReadUsed(h, e)
                                \/ UpdateUsed(h)
                                \/ LoseReport(h)
         \/ \E users \in SUBSET Users : FindDue(users)
  PROVE  AccountsTypeOK'
<1> USE DEF AccountsTypeOK
<1>1. ASSUME NEW u \in Users, Signup(u) PROVE AccountsTypeOK'
  BY <1>1, NewRowType DEF Signup
<1>2. ASSUME NEW u \in Users, SaveRenewed(u) PROVE AccountsTypeOK'
  <2>1. [rows[u] EXCEPT !.used = 0] \in Row
    BY DEF Row
  <2> QED BY <1>2, <2>1 DEF SaveRenewed
<1>3. ASSUME NEW h \in Handlers, NEW entries \in SUBSET Entry, PostReport(h, entries)
      PROVE AccountsTypeOK'
  <2>1. [NotAdding EXCEPT !.pc = "read", !.entries = entries] \in Adder
    BY NotAddingType DEF Adder, Entry
  <2> QED BY <1>3, <2>1 DEF PostReport
<1>4. ASSUME NEW h \in Handlers, NEW e \in adding[h].entries, ReadUsed(h, e)
      PROVE AccountsTypeOK'
  <2>1. e.user \in Users /\ e.traffic \in Int /\ adding[h].entries \in SUBSET [user : Users, traffic : Int]
    BY DEF Adder
  <2>2. rows[e.user].used \in Int
    BY <2>1 DEF Row
  <2>3. [pc |-> "write", entries |-> adding[h].entries \ {e}, user |-> e.user,
         traffic |-> e.traffic, read |-> rows[e.user].used] \in Adder
    BY <2>1, <2>2 DEF Adder
  <2> QED BY <1>4, <2>3 DEF ReadUsed
<1>5. ASSUME NEW h \in Handlers, UpdateUsed(h) PROVE AccountsTypeOK'
  <2> DEFINE a == adding[h]
             next == IF a.entries = {} THEN NotAdding
                     ELSE [NotAdding EXCEPT !.pc = "read", !.entries = a.entries]
  <2>1. a \in Adder
    OBVIOUS
  <2>2. next \in Adder
    BY <2>1, NotAddingType DEF Adder
  <2>3. a.user \in Users /\ a.read + a.traffic \in Int
    BY <2>1 DEF Adder
  <2>4. adding' = [adding EXCEPT ![h] = next]
        /\ rows' = [rows EXCEPT ![a.user].used = a.read + a.traffic] /\ UNCHANGED renewing
    BY <1>5 DEF UpdateUsed
  <2>5. rows' \in [Users -> Row]
    BY <2>3, <2>4 DEF Row
  <2> HIDE DEF next
  <2> QED BY <2>2, <2>4, <2>5
<1>6. ASSUME NEW h \in Handlers, LoseReport(h) PROVE AccountsTypeOK'
  BY <1>6, NotAddingType DEF LoseReport
<1>7. ASSUME NEW users \in SUBSET Users, FindDue(users) PROVE AccountsTypeOK'
  BY <1>7 DEF FindDue
<1> QED
  BY <1>1, <1>2, <1>3, <1>4, <1>5, <1>6, <1>7

\* Each step of the composed system is one of the node and of the rows.
LEMMA NextType ==
  ASSUME TypeOK, [Next]_vars
  PROVE  TypeOK'
<1> USE DEF TypeOK
<1> DEFINE HistoriesOK == /\ moved \in [Users -> 0..MaxTraffic]
                          /\ forgiven \in [Users -> Int]
                          /\ shortchanged \in [Users -> BOOLEAN]
<1>0. ASSUME UNCHANGED <<proxyVars, statsVars>> PROVE StatsTypeOK'
  BY <1>0 DEF StatsTypeOK, ProxiesTypeOK, proxyVars, statsVars
<1>00. ASSUME UNCHANGED accountVars PROVE AccountsTypeOK'
  BY <1>00 DEF AccountsTypeOK, accountVars
<1>1. ASSUME NEW u \in Users, NewUser(u) PROVE TypeOK'
  BY <1>1, <1>0, AccountStepType DEF NewUser, histories
<1>2. ASSUME NEW u \in Users, Renew(u) PROVE TypeOK'
  <2>1. rows[u].used \in Int
    BY DEF AccountsTypeOK, Row
  <2> QED BY <1>2, <2>1, <1>0, AccountStepType DEF Renew
<1>3. ASSUME NEW n \in Nodes, NEW u \in Users, Disconnect(n, u) PROVE TypeOK'
  BY <1>3, <1>00, ProxyStepType, ShortchangeType DEF Disconnect
<1>4. ASSUME NEW n \in Nodes, NEW u \in Users, NEW p \in Ports, Connect(n, u, p) PROVE TypeOK'
  BY <1>4, <1>00, ProxyStepType, ShortchangeType DEF Connect
<1>5. ASSUME NEW n \in Nodes, ClientConnects(n) PROVE TypeOK'
  BY <1>5, <1>00, ProxyStepType DEF ClientConnects, histories
<1>6. ASSUME NEW n \in Nodes, TunnelStarts(n) PROVE TypeOK'
  BY <1>6, <1>00, ProxyStepType, ShortchangeType DEF TunnelStarts
<1>7. ASSUME NEW n \in Nodes, ClientCloses(n) PROVE TypeOK'
  BY <1>7, <1>00, ProxyStepType DEF ClientCloses, histories
<1>8. ASSUME NEW n \in Nodes, NEW t \in tunnels[n], Transfer(n, t) \/ TransferRaces(n, t)
      PROVE TypeOK'
  <2>1. t.user \in Users
    BY DEF StatsTypeOK, Tunnel
  <2>2. moved' \in [Users -> 0..MaxTraffic]
    BY <1>8, <2>1, TrafficAssumption DEF Transfer, TransferRaces
  <2>3. shortchanged' \in [Users -> BOOLEAN]
    BY <1>8, ShortchangeType DEF Transfer, TransferRaces
  <2>4. StatsTypeOK'
    BY <1>8, <1>0, ProxyStepType, StaleCount DEF Transfer, TransferRaces
  <2> QED BY <1>8, <1>00, <2>2, <2>3, <2>4 DEF Transfer, TransferRaces
<1>9. ASSUME NEW n \in Nodes, ReportRound(n) PROVE TypeOK'
  BY <1>9, <1>00, ReportStepType DEF ReportRound, histories
<1>10. ASSUME NEW n \in Nodes, ReportDropped(n) PROVE TypeOK'
  BY <1>10, <1>00, ReportStepType, ShortchangeType DEF ReportDropped
<1>11. ASSUME NEW n \in Nodes, NodeRestart(n) PROVE TypeOK'
  BY <1>11, <1>00, ProxyStepType, ShortchangeType DEF NodeRestart
<1>12. ASSUME NEW n \in Nodes, NEW h \in Handlers, ReportPosted(n, h) PROVE TypeOK'
  <2>1. report[n].entries \in SUBSET Entry
    BY DEF StatsTypeOK, Reporter
  <2> QED BY <1>12, <2>1, ReportStepType, AccountStepType DEF ReportPosted, histories
<1>13. ASSUME NEW h \in Handlers, AddTraffic(h) PROVE TypeOK'
  <2>1. AccountsTypeOK'
    BY <1>13, AccountStepType DEF AddTraffic
  <2>2. shortchanged' \in [Users -> BOOLEAN]
    BY <1>13, ShortchangeType DEF AddTraffic
  <2> QED BY <1>13, <1>0, <2>1, <2>2 DEF AddTraffic
<1>14. ASSUME NEW h \in Handlers, ReportLost(h) PROVE TypeOK'
  BY <1>14, <1>0, AccountStepType, ShortchangeType DEF ReportLost
<1>15. ASSUME PlanMonitor PROVE TypeOK'
  BY <1>15, <1>0, AccountStepType DEF PlanMonitor, histories
<1>16. ASSUME UNCHANGED vars PROVE TypeOK'
  BY <1>16, <1>0, <1>00 DEF vars, histories
<1> QED
  BY <1>1, <1>2, <1>3, <1>4, <1>5, <1>6, <1>7, <1>8, <1>9, <1>10, <1>11, <1>12, <1>13,
     <1>14, <1>15, <1>16 DEF Next

LEMMA InitType == Init => TypeOK
<1> SUFFICES ASSUME Init PROVE TypeOK
  OBVIOUS
<1>1. StatsTypeOK
  BY NoReportType DEF Init, NodeProxiesInit, TrafficStatsInit, StatsTypeOK, ProxiesTypeOK
<1>2. AccountsTypeOK
  <2>1. NoRow \in Row
    BY DEF NoRow, Row
  <2> QED BY <2>1, NotAddingType DEF Init, AccountsInit, AccountsTypeOK
<1> QED BY <1>1, <1>2, TrafficAssumption DEF Init, TypeOK

\* However reports overlap and get lost, every counter of a node and every row
\* keeps its type: a deleted counter is never reported, so that no traffic is
\* computed from a missing entry of statsStore (node/server.go:310-325).
THEOREM TypeCorrect == Spec => []TypeOK
BY InitType, NextType, PTL DEF Spec

-----------------------------------------------------------------------------
(* Ports and their users. *)

\* A step that gives no user a port and moves no byte.
NothingGained ==
  \A m \in Nodes, q \in Ports :
    /\ Excess(m, q)' > 0 => Excess(m, q)' <= Excess(m, q)
    /\ \A v \in Users : Claims(m, v, q)' => Claims(m, v, q)

LEMMA ExcessType ==
  ASSUME StatsTypeOK, NEW n \in Nodes, NEW p \in Ports
  PROVE  /\ Excess(n, p) \in Int /\ Collected(n, p) \in Nat
         /\ statsStore[n][p] \in Nat \cup {-1}
BY DEF StatsTypeOK, Reporter, Excess, Collected, Absent

LEMMA ExcessTypeNext ==
  ASSUME StatsTypeOK', NEW n \in Nodes, NEW p \in Ports
  PROVE  Excess(n, p)' \in Int
BY DEF StatsTypeOK, Reporter, Excess, Collected, Absent

\* The other nodes are as they were.
LEMMA OtherNodes ==
  ASSUME NEW n \in Nodes, NEW m \in Nodes, m # n, StatsTypeOK,
         \/ \E u \in Users, p \in Ports : OpenProxy(n, u, p)
         \/ \E l \in listeners[n] : Accept(n, l)
         \/ \E t \in tunnels[n] : LoadOrStore(n, t) \/ CountByte(n, t) \/ CloseTunnel(n, t)
         \/ \E u \in Users : CloseProxy(n, u) \/ ReportSkip(n, u) \/ ReportDiff(n, u)
         \/ StatsReset(n) \/ ReportSnapshot(n) \/ ReportCache(n) \/ ReportEnd(n)
  PROVE  /\ connections'[m] = connections[m] /\ listeners'[m] = listeners[m]
         /\ statsStore'[m] = statsStore[m] /\ statsCache'[m] = statsCache[m]
         /\ tunnels'[m] = tunnels[m] /\ report'[m] = report[m]
<1> USE DEF StatsTypeOK, ProxiesTypeOK, statsVars, proxyVars
<1>1. ASSUME NEW u \in Users, NEW p \in Ports, OpenProxy(n, u, p)
      PROVE  connections'[m] = connections[m] /\ listeners'[m] = listeners[m]
             /\ UNCHANGED statsVars
  BY <1>1 DEF OpenProxy
<1>2. ASSUME \/ \E l \in listeners[n] : Accept(n, l)
             \/ \E t \in tunnels[n] : LoadOrStore(n, t) \/ CountByte(n, t) \/ CloseTunnel(n, t)
      PROVE  /\ statsStore'[m] = statsStore[m] /\ tunnels'[m] = tunnels[m]
             /\ UNCHANGED <<proxyVars, statsCache, report>>
  BY <1>2 DEF Accept, LoadOrStore, CountByte, CloseTunnel
<1>3. ASSUME NEW u \in Users, CloseProxy(n, u)
      PROVE  /\ connections'[m] = connections[m] /\ listeners'[m] = listeners[m]
             /\ statsStore'[m] = statsStore[m] /\ tunnels'[m] = tunnels[m]
             /\ UNCHANGED <<statsCache, report>>
  BY <1>3 DEF CloseProxy, handleDisconnect
<1>4. ASSUME StatsReset(n)
      PROVE  /\ connections'[m] = connections[m] /\ listeners'[m] = listeners[m]
             /\ statsStore'[m] = statsStore[m] /\ statsCache'[m] = statsCache[m]
             /\ tunnels'[m] = tunnels[m] /\ report'[m] = report[m]
  BY <1>4 DEF StatsReset, NodeReset
<1>5. ASSUME \/ \E u \in Users : ReportSkip(n, u) \/ ReportDiff(n, u)
             \/ ReportSnapshot(n) \/ ReportCache(n) \/ ReportEnd(n)
      PROVE  /\ UNCHANGED <<proxyVars, statsStore, tunnels>>
             /\ statsCache'[m] = statsCache[m] /\ report'[m] = report[m]
  BY <1>5 DEF ReportSkip, ReportDiff, ReportSnapshot, ReportCache, ReportEnd
<1> QED
  BY <1>1, <1>2, <1>3, <1>4, <1>5

\* It is enough to look at the node that takes the step.
LEMMA NothingGainedAt ==
  ASSUME NEW n \in Nodes, StatsTypeOK,
         \A m \in Nodes \ {n} :
            /\ connections'[m] = connections[m]
            /\ statsStore'[m] = statsStore[m] /\ statsCache'[m] = statsCache[m]
            /\ tunnels'[m] = tunnels[m] /\ report'[m] = report[m],
         \A q \in Ports :
            /\ Excess(n, q)' > 0 => Excess(n, q)' <= Excess(n, q)
            /\ \A v \in Users : Claims(n, v, q)' => Claims(n, v, q)
  PROVE  NothingGained
<1> SUFFICES ASSUME NEW m \in Nodes, NEW q \in Ports, m # n
             PROVE  /\ Excess(m, q)' > 0 => Excess(m, q)' <= Excess(m, q)
                    /\ \A v \in Users : Claims(m, v, q)' => Claims(m, v, q)
  BY DEF NothingGained
<1>1. Excess(m, q)' = Excess(m, q)
  BY DEF Excess, Collected
<1>2. \A v \in Users : Claims(m, v, q)' => Claims(m, v, q)
  BY DEF Claims
<1> QED BY <1>1, <1>2, ExcessType

\* Tunnels open, start and close, proxies and nodes go: no user gets a port, and
\* what a late tunnel counts begins below what was reported.
LEMMA ProxyStepGainsNothing ==
  ASSUME StatsTypeOK, PortsRecorded, NEW n \in Nodes,
         \/ \E l \in listeners[n] : Accept(n, l)
         \/ \E t \in tunnels[n] : LoadOrStore(n, t) \/ CloseTunnel(n, t)
         \/ \E u \in Users : CloseProxy(n, u)
         \/ StatsReset(n)
  PROVE  NothingGained
<1>o. \A m \in Nodes \ {n} :
        /\ connections'[m] = connections[m]
        /\ statsStore'[m] = statsStore[m] /\ statsCache'[m] = statsCache[m]
        /\ tunnels'[m] = tunnels[m] /\ report'[m] = report[m]
  BY OtherNodes
<1> SUFFICES ASSUME NEW q \in Ports
             PROVE  /\ Excess(n, q)' > 0 => Excess(n, q)' <= Excess(n, q)
                    /\ \A v \in Users : Claims(n, v, q)' => Claims(n, v, q)
  BY <1>o, NothingGainedAt
<1> USE DEF StatsTypeOK, ProxiesTypeOK, statsVars, proxyVars
<1>q. q # NoPort
  BY PortAssumption
<1>e. /\ Excess(n, q) \in Int /\ Collected(n, q) \in Nat
      /\ statsStore[n][q] \in Nat \cup {-1}
  BY ExcessType
<1>1. ASSUME NEW l \in listeners[n], Accept(n, l)
      PROVE  /\ Excess(n, q)' > 0 => Excess(n, q)' <= Excess(n, q)
             /\ \A v \in Users : Claims(n, v, q)' => Claims(n, v, q)
  <2>1. Excess(n, q)' = Excess(n, q)
    BY <1>1 DEF Accept, Excess, Collected
  <2>2. l.user \in Users /\ l.port \in Ports /\ l = [user |-> l.user, port |-> l.port]
    BY DEF Listener
  <2>3. connections[n][l.user] = l.port
    BY <2>2 DEF PortsRecorded
  <2>4. tunnels'[n] = tunnels[n] \cup {[user |-> l.user, port |-> l.port, stats |-> "none"]}
        /\ UNCHANGED <<connections, report>>
    BY <1>1 DEF Accept
  <2>5. \A v \in Users : Claims(n, v, q)' => Claims(n, v, q)
    BY <2>3, <2>4 DEF Claims
  <2> QED BY <2>1, <2>5, <1>e
<1>2. ASSUME NEW t \in tunnels[n], LoadOrStore(n, t)
      PROVE  /\ Excess(n, q)' > 0 => Excess(n, q)' <= Excess(n, q)
             /\ \A v \in Users : Claims(n, v, q)' => Claims(n, v, q)
  <2>1. t \in Tunnel
    OBVIOUS
  <2>2. t.port \in Ports /\ t.user \in Users
        /\ [t EXCEPT !.stats = "stored"].user = t.user /\ [t EXCEPT !.stats = "stored"].port = t.port
    BY <2>1 DEF Tunnel
  <2>3. statsStore'[n][q] = statsStore[n][q] \/ statsStore'[n][q] = 0
    BY <1>2, <2>2 DEF LoadOrStore
  <2>4. Excess(n, q)' = statsStore'[n][q] - Collected(n, q)
    BY <1>2 DEF LoadOrStore, Excess, Collected
  <2>5. Excess(n, q)' > 0 => Excess(n, q)' <= Excess(n, q)
    BY <2>3, <2>4, <1>e DEF Excess
  <2>6. tunnels'[n] = (tunnels[n] \ {t}) \cup {[t EXCEPT !.stats = "stored"]}
        /\ UNCHANGED <<connections, report>>
    BY <1>2 DEF LoadOrStore
  <2>7. \A v \in Users : Claims(n, v, q)' => Claims(n, v, q)
    BY <2>2, <2>6 DEF Claims
  <2> QED BY <2>5, <2>7
<1>3. ASSUME NEW t \in tunnels[n], CloseTunnel(n, t)
      PROVE  /\ Excess(n, q)' > 0 => Excess(n, q)' <= Excess(n, q)
             /\ \A v \in Users : Claims(n, v, q)' => Claims(n, v, q)
  <2>1. Excess(n, q)' = Excess(n, q)
    BY <1>3 DEF CloseTunnel, Excess, Collected
  <2>2. \A v \in Users : Claims(n, v, q)' => Claims(n, v, q)
    BY <1>3 DEF CloseTunnel, Claims
  <2> QED BY <2>1, <2>2, <1>e
<1>4. ASSUME NEW u \in Users, CloseProxy(n, u)
      PROVE  /\ Excess(n, q)' > 0 => Excess(n, q)' <= Excess(n, q)
             /\ \A v \in Users : Claims(n, v, q)' => Claims(n, v, q)
  <2> DEFINE p == connections[n][u]
             Left(t) == IF t.port = p /\ t.stats = "stored"
                        THEN [t EXCEPT !.stats = "deleted"] ELSE t
  <2>1. statsStore'[n][q] = statsStore[n][q] \/ statsStore'[n][q] = -1
    BY <1>4 DEF CloseProxy, Absent
  <2>2. Excess(n, q)' = statsStore'[n][q] - Collected(n, q)
    BY <1>4 DEF CloseProxy, Excess, Collected
  <2>3. Excess(n, q)' > 0 => Excess(n, q)' <= Excess(n, q)
    BY <2>1, <2>2, <1>e DEF Excess
  <2>4. tunnels'[n] = {Left(t) : t \in tunnels[n]}
    BY <1>4 DEF CloseProxy
  <2>5. \A t \in Tunnel : Left(t).user = t.user /\ Left(t).port = t.port
    BY DEF Tunnel
  <2>6. \A v \in Users : connections'[n][v] = connections[n][v] \/ connections'[n][v] = NoPort
    BY <1>4 DEF CloseProxy, handleDisconnect
  <2>7. report' = report
    BY <1>4 DEF CloseProxy
  <2> HIDE DEF Left, p
  <2>8. \A t \in tunnels[n] : t \in Tunnel
    OBVIOUS
  <2>9. \A v \in Users : Claims(n, v, q)' => Claims(n, v, q)
    <3> SUFFICES ASSUME NEW v \in Users, Claims(n, v, q)' PROVE Claims(n, v, q)
      OBVIOUS
    <3>1. ASSUME NEW s \in tunnels'[n], s.user = v, s.port = q PROVE Claims(n, v, q)
      <4>1. PICK t \in tunnels[n] : s = Left(t)
        BY <2>4
      <4>2. t.user = v /\ t.port = q
        BY <3>1, <4>1, <2>5, <2>8
      <4> QED BY <4>2 DEF Claims
    <3> QED BY <1>q, <2>6, <2>7, <3>1 DEF Claims
  <2> QED BY <2>3, <2>9
<1>5. ASSUME StatsReset(n)
      PROVE  /\ Excess(n, q)' > 0 => Excess(n, q)' <= Excess(n, q)
             /\ \A v \in Users : Claims(n, v, q)' => Claims(n, v, q)
  <2>1. /\ statsStore'[n][q] = -1 /\ statsCache'[n][q] = 0 /\ report'[n] = NoReport
        /\ tunnels'[n] = {} /\ \A v \in Users : connections'[n][v] = NoPort
    BY <1>5 DEF StatsReset, NodeReset, Absent
  <2>2. NoReport.port = NoPort /\ \A v \in Users : NoReport.todo[v] = NoPort
    BY DEF NoReport
  <2>3. Excess(n, q)' = -1
    BY <1>q, <2>1, <2>2 DEF Excess, Collected
  <2>4. \A v \in Users : ~Claims(n, v, q)'
    BY <1>q, <2>1, <2>2 DEF Claims
  <2> QED BY <2>3, <2>4
<1> QED
  BY <1>1, <1>2, <1>3, <1>4, <1>5

\* Nor does the reporter.  What it has copied is collected.
LEMMA ReportStepGainsNothing ==
  ASSUME StatsTypeOK, ReporterInv, NEW n \in Nodes,
         \/ ReportSnapshot(n)
         \/ \E u \in Users : ReportSkip(n, u) \/ ReportDiff(n, u)
         \/ ReportCache(n)
         \/ ReportEnd(n)
  PROVE  NothingGained
<1>o. \A m \in Nodes \ {n} :
        /\ connections'[m] = connections[m]
        /\ statsStore'[m] = statsStore[m] /\ statsCache'[m] = statsCache[m]
        /\ tunnels'[m] = tunnels[m] /\ report'[m] = report[m]
  BY OtherNodes
<1> SUFFICES ASSUME NEW q \in Ports
             PROVE  /\ Excess(n, q)' > 0 => Excess(n, q)' <= Excess(n, q)
                    /\ \A v \in Users : Claims(n, v, q)' => Claims(n, v, q)
  BY <1>o, NothingGainedAt
<1> USE DEF StatsTypeOK, ProxiesTypeOK, proxyVars
<1>q. q # NoPort
  BY PortAssumption
<1>r. report[n] \in Reporter
  OBVIOUS
<1>e. /\ Excess(n, q) \in Int /\ Collected(n, q) \in Nat
      /\ statsStore[n][q] \in Nat \cup {-1}
  BY ExcessType
<1>n. NoReport.port = NoPort /\ \A v \in Users : NoReport.todo[v] = NoPort
  BY DEF NoReport
<1>1. ASSUME ReportSnapshot(n) \/ ReportEnd(n)
      PROVE  /\ Excess(n, q)' > 0 => Excess(n, q)' <= Excess(n, q)
             /\ \A v \in Users : Claims(n, v, q)' => Claims(n, v, q)
  <2>1. report[n].port = NoPort
    BY <1>1 DEF ReportSnapshot, ReportEnd, ReporterInv
  <2>2. /\ report'[n].port = NoPort
        /\ \A v \in Users : report'[n].todo[v] \in {NoPort, connections[n][v]}
        /\ UNCHANGED <<connections, tunnels, statsStore, statsCache>>
    BY <1>1, <1>n DEF ReportSnapshot, ReportEnd, NoReport
  <2>3. Excess(n, q)' = Excess(n, q)
    BY <1>q, <2>1, <2>2 DEF Excess, Collected
  <2>4. \A v \in Users : Claims(n, v, q)' => Claims(n, v, q)
    BY <1>q, <2>2 DEF Claims
  <2> QED BY <2>3, <2>4, <1>e
<1>2. ASSUME NEW u \in Users, ReportSkip(n, u)
      PROVE  /\ Excess(n, q)' > 0 => Excess(n, q)' <= Excess(n, q)
             /\ \A v \in Users : Claims(n, v, q)' => Claims(n, v, q)
  <2>1. report' = [report EXCEPT ![n] = [report[n] EXCEPT !.todo[u] = NoPort]]
        /\ UNCHANGED <<connections, tunnels, statsStore, statsCache>>
    BY <1>2 DEF ReportSkip
  <2>2. /\ report'[n].port = report[n].port /\ report'[n].count = report[n].count
        /\ \A v \in Users : report'[n].todo[v] \in {NoPort, report[n].todo[v]}
    BY <1>r, <2>1 DEF Reporter
  <2>3. Excess(n, q)' = Excess(n, q)
    BY <2>1, <2>2 DEF Excess, Collected
  <2>4. \A v \in Users : Claims(n, v, q)' => Claims(n, v, q)
    BY <1>q, <2>1, <2>2 DEF Claims
  <2> QED BY <2>3, <2>4, <1>e
<1>3. ASSUME NEW u \in Users, ReportDiff(n, u)
      PROVE  /\ Excess(n, q)' > 0 => Excess(n, q)' <= Excess(n, q)
             /\ \A v \in Users : Claims(n, v, q)' => Claims(n, v, q)
  <2>1. report[n].port = NoPort
    BY <1>3 DEF ReportDiff, ReporterInv
  <2>2. /\ report'[n].port = report[n].todo[u]
        /\ report'[n].count = statsStore[n][report[n].todo[u]]
        /\ \A v \in Users : report'[n].todo[v] \in {NoPort, report[n].todo[v]}
        /\ UNCHANGED <<connections, tunnels, statsStore, statsCache>>
    BY <1>3, <1>r DEF ReportDiff, Reporter
  <2>3. Excess(n, q)' = IF q = report[n].todo[u] THEN 0 ELSE Excess(n, q)
    BY <1>q, <1>e, <2>1, <2>2 DEF Excess, Collected
  <2>4. \A v \in Users : Claims(n, v, q)' => Claims(n, v, q)
    BY <1>q, <2>2 DEF Claims
  <2> QED BY <2>3, <2>4, <1>e
<1>4. ASSUME ReportCache(n)
      PROVE  /\ Excess(n, q)' > 0 => Excess(n, q)' <= Excess(n, q)
             /\ \A v \in Users : Claims(n, v, q)' => Claims(n, v, q)
  <2>1. /\ report'[n].port = NoPort /\ report'[n].todo = report[n].todo
        /\ statsCache'[n][q] =
             IF q # report[n].port THEN statsCache[n][q]
             ELSE IF statsStore[n][q] = -1 THEN report[n].count ELSE statsStore[n][q]
        /\ UNCHANGED <<connections, tunnels, statsStore>>
    BY <1>4, <1>r DEF ReportCache, Reporter, Absent
  <2>2. report[n].count \in Nat
    BY <1>r DEF Reporter
  <2>3. Excess(n, q)' = IF q # report[n].port THEN Excess(n, q)
                        ELSE IF statsStore[n][q] = -1 THEN -1 - report[n].count ELSE 0
    BY <1>q, <1>e, <2>1, <2>2 DEF Excess, Collected
  <2>4. \A v \in Users : Claims(n, v, q)' => Claims(n, v, q)
    BY <2>1 DEF Claims
  <2> QED BY <2>2, <2>3, <2>4, <1>e
<1> QED
  BY <1>1, <1>2, <1>3, <1>4

\* A connect gives the user a port that was nobody's, without statistics.
LEMMA ConnectClaims ==
  ASSUME StatsTypeOK, PortsRecorded, NEW n \in Nodes, NEW u \in Users, NEW p \in Ports,
         OpenProxy(n, u, p), Unmentioned(n, p)
  PROVE  /\ \A v \in Users : ~Claims(n, v, p)
         /\ \A m \in Nodes, q \in Ports :
              /\ Excess(m, q)' = Excess(m, q)
              /\ \A v \in Users : Claims(m, v, q)' =>
                   Claims(m, v, q) \/ (m = n /\ v = u /\ q = p)
         /\ Excess(n, p) < 0
<1> USE DEF StatsTypeOK, ProxiesTypeOK, statsVars
<1>0. UNCHANGED <<statsStore, statsCache, report, tunnels>>
      /\ connections' = [connections EXCEPT ![n][u] = p]
  BY DEF OpenProxy
<1>1. \A v \in Users : connections[n][v] # p
  <2> SUFFICES ASSUME NEW v \in Users, connections[n][v] = p PROVE FALSE
    OBVIOUS
  <2>1. [user |-> v, port |-> p] \in listeners[n]
    BY DEF PortsRecorded
  <2>2. [user |-> v, port |-> p].port \in {l.port : l \in listeners[n]}
    BY <2>1
  <2> QED BY <2>2 DEF OpenProxy, FreePorts
<1>2. \A v \in Users : ~Claims(n, v, p)
  BY <1>1 DEF Unmentioned, Claims
<1>3. \A m \in Nodes, q \in Ports : Excess(m, q)' = Excess(m, q)
  BY <1>0 DEF Excess, Collected
<1>4. ASSUME NEW m \in Nodes, NEW q \in Ports, NEW v \in Users, Claims(m, v, q)'
      PROVE  Claims(m, v, q) \/ (m = n /\ v = u /\ q = p)
  BY <1>0, <1>4 DEF Claims
<1>5. Excess(n, p) < 0
  BY ExcessType DEF Unmentioned, Excess, Absent
<1> QED BY <1>2, <1>3, <1>4, <1>5

\* A node keeps recording the ports it listens on.
LEMMA PortsRecordedStep ==
  ASSUME StatsTypeOK, PortsRecorded, NEW n \in Nodes,
         \/ \E u \in Users, p \in Ports : OpenProxy(n, u, p)
         \/ \E u \in Users : CloseProxy(n, u)
         \/ StatsReset(n)
         \/ UNCHANGED proxyVars
  PROVE  PortsRecorded'
<1> USE DEF StatsTypeOK, ProxiesTypeOK, statsVars, proxyVars
<1>1. CASE UNCHANGED proxyVars
  BY <1>1 DEF PortsRecorded
<1>2. ASSUME NEW u \in Users, NEW p \in Ports, OpenProxy(n, u, p) PROVE PortsRecorded'
  <2>1. connections[n][u] = NoPort
    BY <1>2 DEF OpenProxy, HasProxy
  <2>2. /\ connections' = [connections EXCEPT ![n][u] = p]
        /\ listeners' = [listeners EXCEPT ![n] = @ \cup {[user |-> u, port |-> p]}]
    BY <1>2 DEF OpenProxy
  <2> SUFFICES ASSUME NEW m \in Nodes, NEW v \in Users, NEW q \in Ports
               PROVE  connections'[m][v] = q <=> [user |-> v, port |-> q] \in listeners'[m]
    BY DEF PortsRecorded
  <2>3. connections[m][v] = q <=> [user |-> v, port |-> q] \in listeners[m]
    BY DEF PortsRecorded
  <2>4. [user |-> v, port |-> q] = [user |-> u, port |-> p] <=> v = u /\ q = p
    OBVIOUS
  <2>5. q # NoPort
    BY PortAssumption
  <2>6. connections'[m][v] = IF m = n /\ v = u THEN p ELSE connections[m][v]
    BY <2>2
  <2>7. listeners'[m] = IF m = n THEN listeners[n] \cup {[user |-> u, port |-> p]} ELSE listeners[m]
    BY <2>2
  <2> QED BY <2>1, <2>3, <2>4, <2>5, <2>6, <2>7
<1>3. ASSUME NEW u \in Users, CloseProxy(n, u) PROVE PortsRecorded'
  <2>1. /\ connections' = [connections EXCEPT ![n] =
             [v \in Users |-> IF v \in {u} THEN NoPort ELSE connections[n][v]]]
        /\ listeners' = [listeners EXCEPT ![n] = Uncancelled(n, {u}, listeners[n])]
    BY <1>3 DEF CloseProxy, handleDisconnect
  <2> SUFFICES ASSUME NEW m \in Nodes, NEW v \in Users, NEW q \in Ports
               PROVE  connections'[m][v] = q <=> [user |-> v, port |-> q] \in listeners'[m]
    BY DEF PortsRecorded
  <2>2. connections[m][v] = q <=> [user |-> v, port |-> q] \in listeners[m]
    BY DEF PortsRecorded
  <2>3. q # NoPort
    BY PortAssumption
  <2>4. m = n => ([user |-> v, port |-> q] \in listeners'[m] <=>
                    [user |-> v, port |-> q] \in listeners[n]
                    /\ ~(v = u /\ q = connections[n][v]))
    BY <2>1 DEF Uncancelled
  <2>5. connections'[m][v] = IF m = n /\ v = u THEN NoPort ELSE connections[m][v]
    BY <2>1
  <2>6. m # n => listeners'[m] = listeners[m]
    BY <2>1
  <2> QED BY <2>2, <2>3, <2>4, <2>5, <2>6
<1>4. ASSUME StatsReset(n) PROVE PortsRecorded'
  <2>1. /\ \A m \in Nodes \ {n} : connections'[m] = connections[m] /\ listeners'[m] = listeners[m]
        /\ listeners'[n] = {} /\ \A v \in Users : connections'[n][v] = NoPort
    BY <1>4 DEF StatsReset, NodeReset
  <2> SUFFICES ASSUME NEW m \in Nodes, NEW v \in Users, NEW q \in Ports
               PROVE  connections'[m][v] = q <=> [user |-> v, port |-> q] \in listeners'[m]
    BY DEF PortsRecorded
  <2>2. CASE m = n
    BY <2>1, <2>2, PortAssumption
  <2>3. CASE m # n
    BY <2>1, <2>3 DEF PortsRecorded
  <2> QED BY <2>2, <2>3
<1> QED
  BY <1>1, <1>2, <1>3, <1>4

\* The reporter's port, after a step of a node.
LEMMA ReporterInvStep ==
  ASSUME StatsTypeOK, ReporterInv, NEW n \in Nodes,
         \/ UNCHANGED report
         \/ StatsReset(n) \/ ReportSnapshot(n) \/ ReportCache(n) \/ ReportEnd(n)
         \/ \E u \in Users : ReportSkip(n, u) \/ ReportDiff(n, u)
  PROVE  ReporterInv'
<1> USE DEF StatsTypeOK, ReporterInv
<1>r. report[n] \in Reporter
  OBVIOUS
<1>n. NoReport.port = NoPort
  BY DEF NoReport
<1>1. CASE UNCHANGED report
  BY <1>1
<1>2. CASE StatsReset(n) \/ ReportEnd(n)
  <2>1. report' = [report EXCEPT ![n] = NoReport]
    BY <1>2 DEF StatsReset, ReportEnd
  <2> QED BY <2>1, <1>n
<1>3. CASE ReportSnapshot(n)
  BY <1>3, <1>n DEF ReportSnapshot, NoReport
<1>4. CASE ReportCache(n)
  BY <1>4, <1>r DEF ReportCache, Reporter
<1>5. ASSUME NEW u \in Users, ReportSkip(n, u) PROVE ReporterInv'
  BY <1>5, <1>r DEF ReportSkip, Reporter
<1>6. ASSUME NEW u \in Users, ReportDiff(n, u) PROVE ReporterInv'
  BY <1>6, <1>r DEF ReportDiff, Reporter
<1> QED
  BY <1>1, <1>2, <1>3, <1>4, <1>5, <1>6

\* The rows, after a step on them.
LEMMA RowsInvStep ==
  ASSUME AccountsTypeOK, RowsInv,
         \/ UNCHANGED accountVars
         \/ \E u \in Users : Signup(u) \/ SaveRenewed(u)
         \/ \E h \in Handlers : \/ \E entries \in SUBSET Entry : PostReport(h, entries)
                                \/ \E e \in adding[h].entries : ReadUsed(h, e)
                                \/ UpdateUsed(h)
                                \/ LoseReport(h)
         \/ \E users \in SUBSET Users : FindDue(users)
  PROVE  RowsInv'
<1> USE DEF AccountsTypeOK, RowsInv
<1>n. NotAdding.pc = "idle" /\ NotAdding.entries = {}
  BY DEF NotAdding
<1>r. \A u \in Users : rows[u] \in Row
  OBVIOUS
<1>a. \A h \in Handlers : adding[h] \in Adder /\ adding[h].user \in Users
  BY DEF Adder
<1>1. CASE UNCHANGED accountVars
  BY <1>1 DEF accountVars
<1>2. ASSUME NEW u \in Users, Signup(u) PROVE RowsInv'
  <2>1. rows' = [rows EXCEPT ![u] = [exists |-> TRUE, used |-> 0]] /\ UNCHANGED <<adding, renewing>>
    BY <1>2 DEF Signup
  <2>2. \A v \in Users : rows'[v] = rows[v] \/ (rows'[v].exists /\ rows'[v].used = 0)
    BY <2>1
  <2> QED BY <2>1, <2>2, <1>a
<1>3. ASSUME NEW u \in Users, SaveRenewed(u) PROVE RowsInv'
  <2>1. rows' = [rows EXCEPT ![u].used = 0] /\ renewing' \subseteq renewing /\ UNCHANGED adding
    BY <1>3 DEF SaveRenewed
  <2>2. \A v \in Users : (rows'[v].exists <=> rows[v].exists)
                         /\ (rows'[v].used = rows[v].used \/ rows'[v].used = 0)
    BY <1>r, <2>1 DEF Row
  <2> QED BY <2>1, <2>2, <1>a
<1>4. ASSUME NEW h \in Handlers, NEW entries \in SUBSET Entry, PostReport(h, entries)
      PROVE RowsInv'
  <2>1. adding' = [adding EXCEPT ![h] = [NotAdding EXCEPT !.pc = "read", !.entries = entries]]
        /\ UNCHANGED <<rows, renewing>>
    BY <1>4 DEF PostReport
  <2>2. [NotAdding EXCEPT !.pc = "read", !.entries = entries].pc = "read"
    BY DEF NotAdding
  <2> QED BY <2>1, <2>2
<1>5. ASSUME NEW h \in Handlers, NEW e \in adding[h].entries, ReadUsed(h, e) PROVE RowsInv'
  BY <1>5 DEF ReadUsed
<1>6. ASSUME NEW h \in Handlers, UpdateUsed(h) PROVE RowsInv'
  <2> DEFINE a == adding[h]
             next == IF a.entries = {} THEN NotAdding
                     ELSE [NotAdding EXCEPT !.pc = "read", !.entries = a.entries]
  <2>1. a.pc = "write" /\ adding' = [adding EXCEPT ![h] = next]
        /\ rows' = [rows EXCEPT ![a.user].used = a.read + a.traffic] /\ UNCHANGED renewing
    BY <1>6 DEF UpdateUsed
  <2>2. next.pc # "write" /\ (next.pc = "idle" => next.entries = {})
    BY DEF NotAdding
  <2> HIDE DEF next
  <2>3. a.user \in Users /\ rows[a.user].exists
    BY <1>a, <2>1
  <2>4. \A v \in Users : (rows'[v].exists <=> rows[v].exists)
                         /\ (v # a.user => rows'[v].used = rows[v].used)
    BY <1>r, <2>1, <2>3 DEF Row
  <2>5. \A g \in Handlers : adding'[g] = IF g = h THEN next ELSE adding[g]
    BY <2>1
  <2> HIDE DEF a
  <2> QED BY <1>a, <2>1, <2>2, <2>3, <2>4, <2>5
<1>7. ASSUME NEW h \in Handlers, LoseReport(h) PROVE RowsInv'
  BY <1>7, <1>n DEF LoseReport
<1>8. ASSUME NEW users \in SUBSET Users, FindDue(users) PROVE RowsInv'
  BY <1>8 DEF FindDue
<1> QED
  BY <1>1, <1>2, <1>3, <1>4, <1>5, <1>6, <1>7, <1>8

-----------------------------------------------------------------------------
(* Sets of bytes. *)

LEMMA BlockSize ==
  ASSUME NEW a, NEW b, NEW d \in Int
  PROVE  /\ IsFiniteSet(Block(a, b, d))
         /\ Cardinality(Block(a, b, d)) = IF d > 0 THEN d ELSE 0
<1> DEFINE f == [i \in 1..d |-> <<a, b, i>>]
<1>1. f \in [1..d -> Block(a, b, d)]
  BY DEF Block
<1>2. \A i, j \in 1..d : f[i] = f[j] => i = j
  OBVIOUS
<1>3. \A x \in Block(a, b, d) : \E i \in 1..d : f[i] = x
  BY DEF Block
<1> HIDE DEF f
<1>4. f \in Bijection(1..d, Block(a, b, d))
  BY <1>1, <1>2, <1>3 DEF Bijection, Injection, Surjection, IsInjective
<1>5. IsFiniteSet(1..d) /\ Cardinality(1..d) = IF d > 0 THEN d ELSE 0
  BY FS_Interval
<1>6. ExistsBijection(1..d, Block(a, b, d))
  BY <1>4 DEF ExistsBijection
<1> QED BY <1>5, <1>6, FS_Bijection

\* A set that has become smaller.
LEMMA Fewer ==
  ASSUME NEW S, NEW T, IsFiniteSet(S), T \subseteq S
  PROVE  /\ IsFiniteSet(T) /\ Cardinality(T) <= Cardinality(S)
         /\ Cardinality(S) \in Nat /\ Cardinality(T) \in Nat
BY FS_Subset, FS_CardinalityType

\* A set that may have got the elements of B.
LEMMA Joined ==
  ASSUME NEW S, NEW T, NEW B, IsFiniteSet(S), IsFiniteSet(B), T \subseteq S \cup B
  PROVE  /\ IsFiniteSet(T) /\ Cardinality(T) <= Cardinality(S) + Cardinality(B)
         /\ Cardinality(S) \in Nat /\ Cardinality(T) \in Nat /\ Cardinality(B) \in Nat
<1>1. /\ IsFiniteSet(S \cup B)
      /\ Cardinality(S \cup B) = Cardinality(S) + Cardinality(B) - Cardinality(S \cap B)
  BY FS_Union
<1>2. IsFiniteSet(S \cap B)
  BY FS_Intersection
<1>3. /\ Cardinality(S) \in Nat /\ Cardinality(B) \in Nat /\ Cardinality(S \cap B) \in Nat
      /\ Cardinality(S \cup B) \in Nat
  BY <1>1, <1>2, FS_CardinalityType
<1>4. /\ IsFiniteSet(T) /\ Cardinality(T) <= Cardinality(S \cup B)
      /\ Cardinality(T) \in Nat
  BY <1>1, Fewer
<1> QED BY <1>1, <1>3, <1>4

\* A set that has lost the elements of B.
LEMMA Parted ==
  ASSUME NEW S, NEW T, NEW B, IsFiniteSet(S), B \subseteq S, T \subseteq S \ B
  PROVE  /\ IsFiniteSet(T) /\ Cardinality(T) + Cardinality(B) <= Cardinality(S)
         /\ Cardinality(S) \in Nat /\ Cardinality(T) \in Nat /\ Cardinality(B) \in Nat
         /\ IsFiniteSet(B)
<1>1. S \cap B = B /\ IsFiniteSet(B)
  BY FS_Subset
<1>2. IsFiniteSet(S \ B) /\ Cardinality(S \ B) = Cardinality(S) - Cardinality(B)
  BY <1>1, FS_Difference
<1>3. Cardinality(S) \in Nat /\ Cardinality(B) \in Nat /\ Cardinality(S \ B) \in Nat
  BY <1>1, <1>2, FS_CardinalityType
<1>4. /\ IsFiniteSet(T) /\ Cardinality(T) <= Cardinality(S \ B)
      /\ Cardinality(T) \in Nat
  BY <1>2, Fewer
<1> QED BY <1>1, <1>2, <1>3, <1>4

\* Bytes that have got to another place.
LEMMA Relabelled ==
  ASSUME NEW D, IsFiniteSet(D), NEW h
  PROVE  LET I == {<<h, b[2], b[3]>> : b \in D}
         IN  IsFiniteSet(I) /\ Cardinality(I) <= Cardinality(D)
<1> DEFINE I == {<<h, b[2], b[3]>> : b \in D}
           f == [b \in D |-> <<h, b[2], b[3]>>]
<1>1. f \in [D -> I] /\ \A x \in I : \E b \in D : f[b] = x
  OBVIOUS
<1> HIDE DEF f, I
<1>2. f \in Surjection(D, I)
  BY <1>1 DEF Surjection
<1>3. IsFiniteSet(I) /\ Cardinality(I) <= Cardinality(D)
  BY <1>2, FS_Surjection
<1> QED BY <1>3 DEF I

-----------------------------------------------------------------------------
(* Charges. *)

\* The sets of bytes after a step that adds none to them.
LEMMA PendingShrinks ==
  ASSUME NEW u \in Users, PendingFinite(u),
         CountedBytes(u)' \subseteq CountedBytes(u), EntryBytes(u)' \subseteq EntryBytes(u),
         PostedBytes(u)' \subseteq PostedBytes(u), WrittenBytes(u)' \subseteq WrittenBytes(u)
  PROVE  PendingFinite(u)' /\ Pending(u)' <= Pending(u)
<1>1. /\ IsFiniteSet(CountedBytes(u)') /\ Cardinality(CountedBytes(u)') <= Cardinality(CountedBytes(u))
      /\ Cardinality(CountedBytes(u)) \in Nat /\ Cardinality(CountedBytes(u)') \in Nat
  BY Fewer DEF PendingFinite
<1>2. /\ IsFiniteSet(EntryBytes(u)') /\ Cardinality(EntryBytes(u)') <= Cardinality(EntryBytes(u))
      /\ Cardinality(EntryBytes(u)) \in Nat /\ Cardinality(EntryBytes(u)') \in Nat
  BY Fewer DEF PendingFinite
<1>3. /\ IsFiniteSet(PostedBytes(u)') /\ Cardinality(PostedBytes(u)') <= Cardinality(PostedBytes(u))
      /\ Cardinality(PostedBytes(u)) \in Nat /\ Cardinality(PostedBytes(u)') \in Nat
  BY Fewer DEF PendingFinite
<1>4. /\ IsFiniteSet(WrittenBytes(u)') /\ Cardinality(WrittenBytes(u)') <= Cardinality(WrittenBytes(u))
      /\ Cardinality(WrittenBytes(u)) \in Nat /\ Cardinality(WrittenBytes(u)') \in Nat
  BY Fewer DEF PendingFinite
<1> QED BY <1>1, <1>2, <1>3, <1>4 DEF PendingFinite, Pending

LEMMA PendingType ==
  ASSUME NEW u \in Users, PendingFinite(u)
  PROVE  Pending(u) \in Nat
BY FS_CardinalityType DEF PendingFinite, Pending

LEMMA PendingTypeNext ==
  ASSUME NEW u \in Users, PendingFinite(u)'
  PROVE  Pending(u)' \in Nat
BY FS_CardinalityType DEF PendingFinite, Pending

\* The charges stay bounded when the row is the same and what is pending grows
\* no faster than what the user moves.
LEMMA ChargesStay ==
  ASSUME TypeOK, TypeOK', NEW u \in Users, PendingFinite(u), ChargesBounded(u),
         PendingFinite(u)', Pending(u)' <= Pending(u) + (moved'[u] - moved[u]),
         moved'[u] >= moved[u], rows'[u].used = rows[u].used, forgiven'[u] = forgiven[u],
         \A h \in Handlers : adding'[h].pc = "write" /\ adding'[h].user = u =>
            \/ adding'[h].read = rows[u].used
            \/ adding[h].pc = "write" /\ adding[h].user = u /\ adding'[h].read = adding[h].read
  PROVE  ChargesBounded(u)'
<1>1. Pending(u) \in Nat /\ Pending(u)' \in Nat
  BY PendingType, PendingTypeNext
<1>2. /\ forgiven[u] \in Int /\ moved[u] \in Int /\ moved'[u] \in Int /\ rows[u].used \in Int
      /\ \A h \in Handlers : adding[h].read \in Int
  BY DEF TypeOK, AccountsTypeOK, Row, Adder
<1>3. forgiven[u] + rows[u].used + Pending(u)' <= moved'[u]
  BY <1>1, <1>2 DEF ChargesBounded
<1>4. ASSUME NEW h \in Handlers, adding'[h].pc = "write" /\ adding'[h].user = u
      PROVE  forgiven[u] + adding'[h].read + Pending(u)' <= moved'[u]
  BY <1>1, <1>2, <1>3, <1>4 DEF ChargesBounded
<1> QED BY <1>3, <1>4 DEF ChargesBounded

\* A step that gains nothing leaves the ports no new bytes.
LEMMA CountedShrinks ==
  ASSUME NothingGained, StatsTypeOK, StatsTypeOK', NEW u \in Users
  PROVE  CountedBytes(u)' \subseteq CountedBytes(u)
<1> SUFFICES ASSUME NEW b \in Nodes \X Ports \X Nat,
                    Claims(b[1], u, b[2])', b[3] \in 1..(Excess(b[1], b[2])')
             PROVE  Claims(b[1], u, b[2]) /\ b[3] \in 1..Excess(b[1], b[2])
  BY DEF CountedBytes
<1>1. b[1] \in Nodes /\ b[2] \in Ports /\ b[3] \in Nat
  OBVIOUS
<1> DEFINE x == Excess(b[1], b[2])'
<1>2. x \in Int /\ Excess(b[1], b[2]) \in Int
  BY <1>1, ExcessType, ExcessTypeNext
<1>3. x > 0
  BY <1>1, <1>2
<1>4. x <= Excess(b[1], b[2]) /\ Claims(b[1], u, b[2])
  BY <1>1, <1>3 DEF NothingGained
<1> QED BY <1>1, <1>2, <1>4

\* A step of a node that moves no byte and adds no entry.
LEMMA NodeStepCharges ==
  ASSUME TypeOK, TypeOK', ChargesInv, UNCHANGED <<accountVars, forgiven>>,
         \A u \in Users : moved'[u] >= moved[u],
         \A u \in Users : CountedBytes(u)' \subseteq CountedBytes(u),
         \A m \in Nodes : report'[m].entries \subseteq report[m].entries
  PROVE  ChargesInv'
<1> SUFFICES ASSUME NEW u \in Users PROVE PendingFinite(u)' /\ ChargesBounded(u)'
  BY DEF ChargesInv
<1>1. EntryBytes(u)' \subseteq EntryBytes(u)
  BY DEF EntryBytes
<1>2. PostedBytes(u)' = PostedBytes(u) /\ WrittenBytes(u)' = WrittenBytes(u)
  BY DEF PostedBytes, WrittenBytes, accountVars
<1>3. PendingFinite(u) /\ ChargesBounded(u)
  BY DEF ChargesInv
<1>4. PendingFinite(u)' /\ Pending(u)' <= Pending(u)
  BY <1>1, <1>2, <1>3, PendingShrinks
<1>5. moved[u] \in Int /\ moved'[u] \in Int /\ moved'[u] >= moved[u]
  BY DEF TypeOK
<1>6. Pending(u) \in Nat /\ Pending(u)' \in Nat
  BY <1>3, <1>4, PendingType, PendingTypeNext
<1>7. Pending(u)' <= Pending(u) + (moved'[u] - moved[u])
  BY <1>4, <1>5, <1>6
<1>8. rows' = rows /\ adding' = adding /\ forgiven' = forgiven
  BY DEF accountVars
<1> QED BY <1>3, <1>4, <1>5, <1>7, <1>8, ChargesStay

\* A new proxy has counted nothing.
LEMMA ConnectCharges ==
  ASSUME TypeOK, TypeOK', PortsRecorded, ChargesInv, Reuse = FALSE,
         NEW n \in Nodes, NEW u \in Users, NEW p \in Ports, Connect(n, u, p)
  PROVE  ChargesInv'
<1>1. OpenProxy(n, u, p) /\ Unmentioned(n, p) /\ UNCHANGED <<accountVars, moved, forgiven>>
  BY DEF Connect
<1>2. /\ \A m \in Nodes, q \in Ports :
           /\ Excess(m, q)' = Excess(m, q)
           /\ \A v \in Users : Claims(m, v, q)' => Claims(m, v, q) \/ (m = n /\ v = u /\ q = p)
      /\ Excess(n, p) < 0
  BY <1>1, ConnectClaims DEF TypeOK
<1>3. ASSUME NEW v \in Users PROVE CountedBytes(v)' \subseteq CountedBytes(v)
  <2> SUFFICES ASSUME NEW b \in Nodes \X Ports \X Nat,
                      Claims(b[1], v, b[2])', b[3] \in 1..(Excess(b[1], b[2])')
               PROVE  Claims(b[1], v, b[2]) /\ b[3] \in 1..Excess(b[1], b[2])
    BY DEF CountedBytes
  <2>1. b[1] \in Nodes /\ b[2] \in Ports /\ b[3] \in Nat
    OBVIOUS
  <2>2. Excess(b[1], b[2])' = Excess(b[1], b[2]) /\ Excess(b[1], b[2]) \in Int
    BY <1>2, <2>1, ExcessType DEF TypeOK
  <2>3. ~(b[1] = n /\ b[2] = p)
    BY <1>2, <2>1, <2>2
  <2> QED BY <1>2, <2>1, <2>2, <2>3
<1>4. report' = report /\ moved' = moved /\ forgiven' = forgiven /\ UNCHANGED accountVars
  BY <1>1 DEF OpenProxy, statsVars
<1>5. \A v \in Users : moved'[v] >= moved[v]
  BY <1>4 DEF TypeOK
<1>6. \A m \in Nodes : report'[m].entries \subseteq report[m].entries
  BY <1>4
<1> QED BY <1>3, <1>4, <1>5, <1>6, NodeStepCharges

\* A byte is moved and counted, or only moved.
LEMMA TransferCharges ==
  ASSUME TypeOK, TypeOK', PortsOwned, ChargesInv,
         NEW n \in Nodes, NEW t \in tunnels[n], Transfer(n, t)
  PROVE  ChargesInv'
<1>t. t \in Tunnel /\ t.user \in Users /\ t.port \in Ports
  BY DEF TypeOK, StatsTypeOK, Tunnel
<1> DEFINE p == t.port
           x == <<n, p, Excess(n, p)'>>
<1>1. /\ UNCHANGED <<accountVars, forgiven, proxyVars, statsCache, tunnels, report>>
      /\ moved' = [moved EXCEPT ![t.user] = @ + 1]
  BY DEF Transfer, CountByte
<1>2. \A m \in Nodes, q \in Ports :
        /\ Claims(m, t.user, q)' = Claims(m, t.user, q)
        /\ \A v \in Users : Claims(m, v, q)' = Claims(m, v, q)
  BY <1>1 DEF Claims, proxyVars
<1>3. \A m \in Nodes, q \in Ports :
        /\ Excess(m, q) \in Int
        /\ Excess(m, q)' = Excess(m, q) \/ (m = n /\ q = p /\ Excess(m, q)' = Excess(m, q) + 1)
  <2> SUFFICES ASSUME NEW m \in Nodes, NEW q \in Ports
               PROVE  /\ Excess(m, q) \in Int
                      /\ Excess(m, q)' = Excess(m, q)
                         \/ (m = n /\ q = p /\ Excess(m, q)' = Excess(m, q) + 1)
    OBVIOUS
  <2>1. /\ Excess(m, q) \in Int /\ Collected(m, q) \in Nat
        /\ statsStore[m][q] \in Int
    BY ExcessType DEF TypeOK
  <2>2. Collected(m, q)' = Collected(m, q)
    BY <1>1 DEF Collected
  <2>3. statsStore'[m][q] = statsStore[m][q]
        \/ (m = n /\ q = p /\ statsStore'[m][q] = statsStore[m][q] + 1)
    BY <1>t DEF Transfer, CountByte, TypeOK, StatsTypeOK
  <2> QED BY <2>1, <2>2, <2>3 DEF Excess
<1>4. Claims(n, t.user, p)
  BY DEF Claims
<1> SUFFICES ASSUME NEW u \in Users PROVE PendingFinite(u)' /\ ChargesBounded(u)'
  BY DEF ChargesInv
<1>5. PendingFinite(u) /\ ChargesBounded(u)
  BY DEF ChargesInv
<1>6. EntryBytes(u)' = EntryBytes(u) /\ PostedBytes(u)' = PostedBytes(u)
      /\ WrittenBytes(u)' = WrittenBytes(u)
  BY <1>1 DEF EntryBytes, PostedBytes, WrittenBytes, accountVars
<1>7. rows' = rows /\ adding' = adding /\ forgiven' = forgiven
  BY <1>1 DEF accountVars
<1>8. moved[u] \in Int /\ moved'[u] = IF u = t.user THEN moved[u] + 1 ELSE moved[u]
  BY <1>1, <1>t DEF TypeOK
<1>9. CASE u = t.user
  <2>1. CountedBytes(u)' \subseteq CountedBytes(u) \cup {x}
    <3> SUFFICES ASSUME NEW b \in Nodes \X Ports \X Nat,
                        Claims(b[1], u, b[2])', b[3] \in 1..(Excess(b[1], b[2])')
                 PROVE  b \in CountedBytes(u) \cup {x}
      BY DEF CountedBytes
    <3>1. b[1] \in Nodes /\ b[2] \in Ports /\ b[3] \in Nat /\ b = <<b[1], b[2], b[3]>>
      OBVIOUS
    <3>2. Claims(b[1], u, b[2])
      BY <1>2, <3>1
    <3>3. CASE b[3] \in 1..Excess(b[1], b[2])
      BY <3>2, <3>3 DEF CountedBytes
    <3>4. CASE b[3] \notin 1..Excess(b[1], b[2])
      <4>1. b[1] = n /\ b[2] = p /\ b[3] = Excess(n, p)'
        BY <1>3, <3>1, <3>4
      <4> QED BY <3>1, <4>1
    <3> QED BY <3>3, <3>4
  <2>2. IsFiniteSet({x}) /\ Cardinality({x}) = 1
    BY FS_Singleton
  <2>3. /\ IsFiniteSet(CountedBytes(u)')
        /\ Cardinality(CountedBytes(u)') <= Cardinality(CountedBytes(u)) + 1
        /\ Cardinality(CountedBytes(u)) \in Nat /\ Cardinality(CountedBytes(u)') \in Nat
    BY <1>5, <2>1, <2>2, Joined DEF PendingFinite
  <2>4. PendingFinite(u)'
    BY <1>5, <1>6, <2>3 DEF PendingFinite
  <2>5. /\ Cardinality(EntryBytes(u)) \in Nat /\ Cardinality(PostedBytes(u)) \in Nat
        /\ Cardinality(WrittenBytes(u)) \in Nat
    BY <1>5, FS_CardinalityType DEF PendingFinite
  <2>6. Pending(u)' <= Pending(u) + 1
    BY <1>6, <2>3, <2>5 DEF Pending
  <2>7. Pending(u)' <= Pending(u) + (moved'[u] - moved[u]) /\ moved'[u] >= moved[u]
    BY <1>8, <1>9, <2>6
  <2> QED BY <1>5, <1>7, <2>4, <2>7, ChargesStay
<1>10. CASE u # t.user
  <2>1. CountedBytes(u)' \subseteq CountedBytes(u)
    <3> SUFFICES ASSUME NEW b \in Nodes \X Ports \X Nat,
                        Claims(b[1], u, b[2])', b[3] \in 1..(Excess(b[1], b[2])')
                 PROVE  Claims(b[1], u, b[2]) /\ b[3] \in 1..Excess(b[1], b[2])
      BY DEF CountedBytes
    <3>1. b[1] \in Nodes /\ b[2] \in Ports /\ b[3] \in Nat
      OBVIOUS
    <3>2. Claims(b[1], u, b[2])
      BY <1>2, <3>1
    <3>3. ~(b[1] = n /\ b[2] = p)
      BY <1>t, <1>4, <1>10, <3>1, <3>2 DEF PortsOwned
    <3> QED BY <1>3, <3>1, <3>2, <3>3
  <2>2. PendingFinite(u)' /\ Pending(u)' <= Pending(u)
    BY <1>5, <1>6, <2>1, PendingShrinks
  <2>3. Pending(u) \in Nat /\ Pending(u)' \in Nat
    BY <1>5, <2>2, PendingType, PendingTypeNext
  <2>4. Pending(u)' <= Pending(u) + (moved'[u] - moved[u]) /\ moved'[u] >= moved[u]
    BY <1>8, <1>10, <2>2, <2>3
  <2> QED BY <1>5, <1>7, <2>2, <2>4, ChargesStay
<1> QED BY <1>9, <1>10

\* The reporter turns what a port has counted into an entry of the port's user.
LEMMA ReportDiffCharges ==
  ASSUME TypeOK, TypeOK', ReporterInv, ChargesInv, NEW n \in Nodes, NEW u \in Users,
         ReportDiff(n, u), UNCHANGED <<accountVars, histories>>
  PROVE  ChargesInv'
<1>r. report[n] \in Reporter /\ report \in [Nodes -> Reporter] /\ StatsTypeOK /\ StatsTypeOK'
  BY DEF TypeOK, StatsTypeOK
<1>1. PICK p \in Ports : p = report[n].todo[u]
  BY <1>r DEF ReportDiff, Reporter
<1>2. PICK d \in Int : d = Excess(n, p)
  BY <1>r, ExcessType
<1>d. report[n].port = NoPort /\ d = statsStore[n][p] - statsCache[n][p]
  BY <1>r, <1>1, <1>2, PortAssumption DEF ReportDiff, ReporterInv, Excess, Collected
<1> DEFINE e == [user |-> u, traffic |-> d]
<1>3. /\ report'[n].entries = report[n].entries \cup {e}
      /\ report'[n].port = p /\ report'[n].count = statsStore[n][p]
      /\ \A m \in Nodes \ {n} : report'[m] = report[m]
      /\ statsStore' = statsStore
  BY <1>r, <1>1, <1>d DEF ReportDiff, Reporter
<1>4. Excess(n, p)' = 0
  BY <1>3, <1>r, ExcessType DEF Excess, Collected
<1>5. NothingGained
  BY <1>r, ReportStepGainsNothing
<1>6. Claims(n, u, p)
  BY <1>1 DEF Claims
<1>7. e \in Entry
  BY DEF Entry
<1> SUFFICES ASSUME NEW v \in Users PROVE PendingFinite(v)' /\ ChargesBounded(v)'
  BY DEF ChargesInv
<1>8. PendingFinite(v) /\ ChargesBounded(v)
  BY DEF ChargesInv
<1>9. PostedBytes(v)' = PostedBytes(v) /\ WrittenBytes(v)' = WrittenBytes(v)
  BY DEF PostedBytes, WrittenBytes, accountVars
<1>10. CountedBytes(v)' \subseteq CountedBytes(v)
  BY <1>r, <1>5, CountedShrinks
<1>11. rows' = rows /\ adding' = adding /\ forgiven' = forgiven /\ moved' = moved
       /\ moved[v] \in Int
  BY DEF accountVars, histories, TypeOK
<1>12. PendingFinite(v)' /\ Pending(v)' <= Pending(v)
  <2>1. CASE v # u
    <3>1. EntryBytes(v)' \subseteq EntryBytes(v)
      <4> SUFFICES ASSUME NEW b \in Nodes \X Entry \X Nat, b[2] \in report'[b[1]].entries,
                          b[2].user = v, b[3] \in 1..b[2].traffic
                   PROVE  b[2] \in report[b[1]].entries
        BY DEF EntryBytes
      <4>1. b[1] \in Nodes /\ b[2] # e
        BY <2>1
      <4> QED BY <1>3, <4>1
    <3> QED BY <1>8, <1>9, <1>10, <3>1, PendingShrinks
  <2>2. CASE v = u
    <3> DEFINE B == Block(n, p, d)
               E == Block(n, e, d)
    <3>1. B \subseteq CountedBytes(v)
      <4> SUFFICES ASSUME NEW i \in 1..d PROVE <<n, p, i>> \in CountedBytes(v)
        BY DEF Block
      <4>1. i \in Nat /\ i \in 1..Excess(n, p)
        BY <1>2
      <4>2. <<n, p, i>> \in Nodes \X Ports \X Nat
        BY <1>1, <4>1
      <4> QED BY <1>6, <2>2, <4>1, <4>2 DEF CountedBytes
    <3>2. CountedBytes(v)' \subseteq CountedBytes(v) \ B
      <4> SUFFICES ASSUME NEW b \in CountedBytes(v)', b \in B PROVE FALSE
        BY <1>10
      <4>1. b[1] = n /\ b[2] = p /\ b[3] \in 1..(Excess(b[1], b[2])')
        BY DEF Block, CountedBytes
      <4>2. b[3] \in 1..0
        BY <1>4, <4>1
      <4> QED BY <4>2
    <3>3. EntryBytes(v)' \subseteq EntryBytes(v) \cup E
      <4> SUFFICES ASSUME NEW b \in Nodes \X Entry \X Nat, b[2] \in report'[b[1]].entries,
                          b[2].user = v, b[3] \in 1..b[2].traffic, b \notin EntryBytes(v)
                   PROVE  b \in E
        BY DEF EntryBytes
      <4>1. b[1] \in Nodes /\ b[2] \in Entry /\ b[3] \in Nat /\ b = <<b[1], b[2], b[3]>>
        OBVIOUS
      <4>2. b[2] \notin report[b[1]].entries
        BY DEF EntryBytes
      <4>3. b[1] = n /\ b[2] = e
        BY <1>3, <4>1, <4>2
      <4>4. b[3] \in 1..d
        BY <4>3
      <4> QED BY <4>1, <4>3, <4>4 DEF Block
    <3>4. /\ IsFiniteSet(B) /\ IsFiniteSet(E) /\ Cardinality(B) = Cardinality(E)
      BY <1>2, BlockSize
    <3> HIDE DEF B, E
    <3>5. /\ IsFiniteSet(CountedBytes(v)')
          /\ Cardinality(CountedBytes(v)') + Cardinality(B) <= Cardinality(CountedBytes(v))
          /\ Cardinality(CountedBytes(v)) \in Nat /\ Cardinality(CountedBytes(v)') \in Nat
          /\ Cardinality(B) \in Nat
      BY <1>8, <3>1, <3>2, Parted DEF PendingFinite
    <3>6. /\ IsFiniteSet(EntryBytes(v)')
          /\ Cardinality(EntryBytes(v)') <= Cardinality(EntryBytes(v)) + Cardinality(E)
          /\ Cardinality(EntryBytes(v)) \in Nat /\ Cardinality(EntryBytes(v)') \in Nat
      BY <1>8, <3>3, <3>4, Joined DEF PendingFinite
    <3>7. Cardinality(PostedBytes(v)) \in Nat /\ Cardinality(WrittenBytes(v)) \in Nat
      BY <1>8, FS_CardinalityType DEF PendingFinite
    <3>8. PendingFinite(v)'
      BY <1>8, <1>9, <3>5, <3>6 DEF PendingFinite
    <3>9. Pending(v)' <= Pending(v)
      BY <1>9, <3>4, <3>5, <3>6, <3>7 DEF Pending
    <3> QED BY <3>8, <3>9
  <2> QED BY <2>1, <2>2
<1>13. Pending(v)' <= Pending(v) + (moved'[v] - moved[v]) /\ moved'[v] >= moved[v]
  BY <1>8, <1>11, <1>12, PendingType, PendingTypeNext
<1> QED BY <1>8, <1>11, <1>12, <1>13, ChargesStay

\* The entries of a round become those of a request.
LEMMA ReportPostedCharges ==
  ASSUME TypeOK, TypeOK', ReporterInv, RowsInv, ChargesInv,
         NEW n \in Nodes, NEW h \in Handlers, ReportPosted(n, h)
  PROVE  ChargesInv'
<1> DEFINE entries == report[n].entries
<1>r. report[n] \in Reporter /\ report \in [Nodes -> Reporter] /\ StatsTypeOK /\ StatsTypeOK'
      /\ adding \in [Handlers -> Adder]
  BY DEF TypeOK, StatsTypeOK, AccountsTypeOK
<1>1. /\ report'[n].entries = {} /\ \A m \in Nodes \ {n} : report'[m] = report[m]
  BY <1>r DEF ReportPosted, ReportEnd, NoReport
<1>2. /\ adding[h].pc = "idle" /\ adding[h].entries = {}
      /\ adding'[h].pc = "read" /\ adding'[h].entries = entries
      /\ \A g \in Handlers \ {h} : adding'[g] = adding[g]
  BY <1>r DEF ReportPosted, PostReport, NotAdding, RowsInv
<1>3. rows' = rows /\ forgiven' = forgiven /\ moved' = moved
  BY DEF ReportPosted, PostReport, histories
<1>4. NothingGained
  BY <1>r, ReportStepGainsNothing DEF ReportPosted
<1> SUFFICES ASSUME NEW v \in Users PROVE PendingFinite(v)' /\ ChargesBounded(v)'
  BY DEF ChargesInv
<1>5. PendingFinite(v) /\ ChargesBounded(v)
  BY DEF ChargesInv
<1>6. CountedBytes(v)' \subseteq CountedBytes(v)
  BY <1>r, <1>4, CountedShrinks
<1>7. WrittenBytes(v)' \subseteq WrittenBytes(v)
  <2> SUFFICES ASSUME NEW b \in Handlers \X Users \X Nat, adding'[b[1]].pc = "write",
                      adding'[b[1]].user = v, b[2] = v, b[3] \in 1..adding'[b[1]].traffic
               PROVE  adding'[b[1]] = adding[b[1]]
    BY DEF WrittenBytes
  <2>1. b[1] \in Handlers /\ b[1] # h
    BY <1>2
  <2> QED BY <1>2, <2>1
<1> DEFINE D == {b \in EntryBytes(v) : b[1] = n}
           I == {<<h, b[2], b[3]>> : b \in D}
<1>8. D \subseteq EntryBytes(v) /\ EntryBytes(v)' \subseteq EntryBytes(v) \ D
  <2> SUFFICES ASSUME NEW b \in Nodes \X Entry \X Nat, b[2] \in report'[b[1]].entries,
                      b[2].user = v, b[3] \in 1..b[2].traffic
               PROVE  b[2] \in report[b[1]].entries /\ b[1] # n
    BY DEF EntryBytes
  <2>1. b[1] \in Nodes
    OBVIOUS
  <2> QED BY <1>1, <2>1
<1>9. PostedBytes(v)' \subseteq PostedBytes(v) \cup I
  <2> SUFFICES ASSUME NEW b \in Handlers \X Entry \X Nat, b[2] \in adding'[b[1]].entries,
                      b[2].user = v, b[3] \in 1..b[2].traffic
               PROVE  b \in PostedBytes(v) \cup I
    BY DEF PostedBytes
  <2>1. b[1] \in Handlers /\ b[2] \in Entry /\ b[3] \in Nat /\ b = <<b[1], b[2], b[3]>>
    OBVIOUS
  <2>2. CASE b[1] # h
    BY <1>2, <2>1, <2>2 DEF PostedBytes
  <2>3. CASE b[1] = h
    <3> DEFINE c == <<n, b[2], b[3]>>
    <3>1. c \in Nodes \X Entry \X Nat /\ c[1] = n /\ c[2] = b[2] /\ c[3] = b[3]
      BY <2>1
    <3>2. b[2] \in report[n].entries
      BY <1>2, <2>3
    <3>3. c \in EntryBytes(v)
      BY <3>1, <3>2 DEF EntryBytes
    <3>4. c \in D
      BY <3>1, <3>3
    <3> HIDE DEF c, D
    <3>5. b = <<h, c[2], c[3]>>
      BY <2>1, <2>3, <3>1
    <3> QED BY <3>4, <3>5
  <2> QED BY <2>2, <2>3
<1> HIDE DEF D
<1>10. /\ IsFiniteSet(EntryBytes(v)') /\ IsFiniteSet(D)
       /\ Cardinality(EntryBytes(v)') + Cardinality(D) <= Cardinality(EntryBytes(v))
       /\ Cardinality(EntryBytes(v)) \in Nat /\ Cardinality(EntryBytes(v)') \in Nat
       /\ Cardinality(D) \in Nat
  BY <1>5, <1>8, Parted DEF PendingFinite
<1>11. IsFiniteSet(I) /\ Cardinality(I) <= Cardinality(D)
  BY <1>10, Relabelled
<1> HIDE DEF I
<1>12. /\ IsFiniteSet(PostedBytes(v)')
       /\ Cardinality(PostedBytes(v)') <= Cardinality(PostedBytes(v)) + Cardinality(I)
       /\ Cardinality(PostedBytes(v)) \in Nat /\ Cardinality(PostedBytes(v)') \in Nat
       /\ Cardinality(I) \in Nat
  BY <1>5, <1>9, <1>11, Joined DEF PendingFinite
<1>13. /\ IsFiniteSet(CountedBytes(v)') /\ Cardinality(CountedBytes(v)') <= Cardinality(CountedBytes(v))
       /\ Cardinality(CountedBytes(v)) \in Nat /\ Cardinality(CountedBytes(v)') \in Nat
  BY <1>5, <1>6, Fewer DEF PendingFinite
<1>14. /\ IsFiniteSet(WrittenBytes(v)') /\ Cardinality(WrittenBytes(v)') <= Cardinality(WrittenBytes(v))
       /\ Cardinality(WrittenBytes(v)) \in Nat /\ Cardinality(WrittenBytes(v)') \in Nat
  BY <1>5, <1>7, Fewer DEF PendingFinite
<1>15. PendingFinite(v)'
  BY <1>10, <1>12, <1>13, <1>14 DEF PendingFinite
<1>16. Pending(v)' <= Pending(v)
  BY <1>10, <1>11, <1>12, <1>13, <1>14 DEF Pending
<1>17. Pending(v)' <= Pending(v) + (moved'[v] - moved[v]) /\ moved'[v] >= moved[v]
  BY <1>3, <1>5, <1>15, <1>16, PendingType, PendingTypeNext DEF TypeOK
<1>18. \A g \in Handlers : adding'[g].pc = "write" => adding'[g] = adding[g]
  BY <1>2
<1> QED BY <1>3, <1>5, <1>15, <1>17, <1>18, ChargesStay

\* The nodes' bytes stay when only rows change.
LEMMA NodesStay ==
  ASSUME UNCHANGED <<proxyVars, statsVars>>, NEW v \in Users
  PROVE  CountedBytes(v)' = CountedBytes(v) /\ EntryBytes(v)' = EntryBytes(v)
BY DEF CountedBytes, EntryBytes, Claims, Excess, Collected, proxyVars, statsVars

\* AddTraffic reads the row of an entry: the entry's bytes are written next.
LEMMA ReadUsedCharges ==
  ASSUME TypeOK, TypeOK', ChargesInv, NEW h \in Handlers, NEW e \in adding[h].entries,
         ReadUsed(h, e), UNCHANGED <<proxyVars, statsVars, moved, forgiven>>
  PROVE  ChargesInv'
<1>a. adding[h] \in Adder /\ adding \in [Handlers -> Adder]
  BY DEF TypeOK, AccountsTypeOK
<1>1. e \in Entry /\ e.user \in Users /\ e.traffic \in Int
  BY <1>a DEF Adder, Entry
<1>2. /\ adding[h].pc = "read"
      /\ adding'[h].pc = "write" /\ adding'[h].user = e.user /\ adding'[h].traffic = e.traffic
      /\ adding'[h].read = rows[e.user].used /\ adding'[h].entries = adding[h].entries \ {e}
      /\ \A g \in Handlers \ {h} : adding'[g] = adding[g]
      /\ rows' = rows /\ moved' = moved /\ forgiven' = forgiven
  BY <1>a DEF ReadUsed
<1> SUFFICES ASSUME NEW v \in Users PROVE PendingFinite(v)' /\ ChargesBounded(v)'
  BY DEF ChargesInv
<1>3. PendingFinite(v) /\ ChargesBounded(v)
  BY DEF ChargesInv
<1>4. CountedBytes(v)' = CountedBytes(v) /\ EntryBytes(v)' = EntryBytes(v)
  BY NodesStay
<1>5. PostedBytes(v)' \subseteq PostedBytes(v)
  <2> SUFFICES ASSUME NEW b \in Handlers \X Entry \X Nat, b[2] \in adding'[b[1]].entries,
                      b[2].user = v, b[3] \in 1..b[2].traffic
               PROVE  b[2] \in adding[b[1]].entries
    BY DEF PostedBytes
  <2>1. b[1] \in Handlers
    OBVIOUS
  <2> QED BY <1>2, <2>1
<1>6. PendingFinite(v)' /\ Pending(v)' <= Pending(v)
  <2>1. CASE v # e.user
    <3>1. WrittenBytes(v)' \subseteq WrittenBytes(v)
      <4> SUFFICES ASSUME NEW b \in Handlers \X Users \X Nat, adding'[b[1]].pc = "write",
                          adding'[b[1]].user = v, b[2] = v, b[3] \in 1..adding'[b[1]].traffic
                   PROVE  adding'[b[1]] = adding[b[1]]
        BY DEF WrittenBytes
      <4>1. b[1] \in Handlers /\ b[1] # h
        BY <1>2, <2>1
      <4> QED BY <1>2, <4>1
    <3> QED BY <1>3, <1>4, <1>5, <3>1, PendingShrinks
  <2>2. CASE v = e.user
    <3> DEFINE B == Block(h, e, e.traffic)
               W == Block(h, v, e.traffic)
    <3>1. B \subseteq PostedBytes(v)
      <4> SUFFICES ASSUME NEW i \in 1..e.traffic PROVE <<h, e, i>> \in PostedBytes(v)
        BY DEF Block
      <4>1. <<h, e, i>> \in Handlers \X Entry \X Nat
        BY <1>1
      <4> QED BY <2>2, <4>1 DEF PostedBytes
    <3>2. PostedBytes(v)' \subseteq PostedBytes(v) \ B
      <4> SUFFICES ASSUME NEW b \in PostedBytes(v)', b \in B PROVE FALSE
        BY <1>5
      <4>1. b[1] = h /\ b[2] = e /\ b[2] \in adding'[b[1]].entries
        BY DEF Block, PostedBytes
      <4> QED BY <1>2, <4>1
    <3>3. WrittenBytes(v)' \subseteq WrittenBytes(v) \cup W
      <4> SUFFICES ASSUME NEW b \in Handlers \X Users \X Nat, adding'[b[1]].pc = "write",
                          adding'[b[1]].user = v, b[2] = v, b[3] \in 1..adding'[b[1]].traffic
                   PROVE  b \in WrittenBytes(v) \cup W
        BY DEF WrittenBytes
      <4>1. b[1] \in Handlers /\ b = <<b[1], b[2], b[3]>>
        OBVIOUS
      <4>2. CASE b[1] # h
        BY <1>2, <4>1, <4>2 DEF WrittenBytes
      <4>3. CASE b[1] = h
        <5>1. b[3] \in 1..e.traffic /\ b = <<h, v, b[3]>>
          BY <1>2, <4>1, <4>3
        <5> QED BY <5>1 DEF Block
      <4> QED BY <4>2, <4>3
    <3>4. IsFiniteSet(B) /\ IsFiniteSet(W) /\ Cardinality(B) = Cardinality(W)
      BY <1>1, BlockSize
    <3> HIDE DEF B, W
    <3>5. /\ IsFiniteSet(PostedBytes(v)')
          /\ Cardinality(PostedBytes(v)') + Cardinality(B) <= Cardinality(PostedBytes(v))
          /\ Cardinality(PostedBytes(v)) \in Nat /\ Cardinality(PostedBytes(v)') \in Nat
          /\ Cardinality(B) \in Nat
      BY <1>3, <3>1, <3>2, Parted DEF PendingFinite
    <3>6. /\ IsFiniteSet(WrittenBytes(v)')
          /\ Cardinality(WrittenBytes(v)') <= Cardinality(WrittenBytes(v)) + Cardinality(W)
          /\ Cardinality(WrittenBytes(v)) \in Nat /\ Cardinality(WrittenBytes(v)') \in Nat
      BY <1>3, <3>3, <3>4, Joined DEF PendingFinite
    <3>7. Cardinality(CountedBytes(v)) \in Nat /\ Cardinality(EntryBytes(v)) \in Nat
      BY <1>3, FS_CardinalityType DEF PendingFinite
    <3>8. PendingFinite(v)'
      BY <1>3, <1>4, <3>5, <3>6 DEF PendingFinite
    <3>9. Pending(v)' <= Pending(v)
      BY <1>4, <3>4, <3>5, <3>6, <3>7 DEF Pending
    <3> QED BY <3>8, <3>9
  <2> QED BY <2>1, <2>2
<1>7. Pending(v)' <= Pending(v) + (moved'[v] - moved[v]) /\ moved'[v] >= moved[v]
  BY <1>2, <1>3, <1>6, PendingType, PendingTypeNext DEF TypeOK
<1>8. ASSUME NEW g \in Handlers, adding'[g].pc = "write" /\ adding'[g].user = v
      PROVE  \/ adding'[g].read = rows[v].used
             \/ adding[g].pc = "write" /\ adding[g].user = v /\ adding'[g].read = adding[g].read
  BY <1>2, <1>8
<1> QED BY <1>2, <1>3, <1>6, <1>7, <1>8, ChargesStay

\* AddTraffic writes: the bytes are charged, on top of the row as it was read.
LEMMA UpdateUsedCharges ==
  ASSUME TypeOK, TypeOK', ChargesInv, NEW h \in Handlers, UpdateUsed(h),
         UNCHANGED <<proxyVars, statsVars, moved, forgiven>>
  PROVE  ChargesInv'
<1> DEFINE next == IF adding[h].entries = {} THEN NotAdding
                   ELSE [NotAdding EXCEPT !.pc = "read", !.entries = adding[h].entries]
<1>a. adding[h] \in Adder /\ adding \in [Handlers -> Adder] /\ rows \in [Users -> Row]
  BY DEF TypeOK, AccountsTypeOK
<1>1. PICK w \in Users, d \in Int, r \in Int :
        w = adding[h].user /\ d = adding[h].traffic /\ r = adding[h].read
  BY <1>a DEF Adder
<1>n. next.pc # "write" /\ next.entries = adding[h].entries
  BY DEF NotAdding
<1>2. /\ adding[h].pc = "write" /\ adding' = [adding EXCEPT ![h] = next]
      /\ rows' = [rows EXCEPT ![w].used = r + d] /\ moved' = moved /\ forgiven' = forgiven
  BY <1>1 DEF UpdateUsed
<1> HIDE DEF next
<1>3. /\ adding'[h].pc # "write" /\ adding'[h].entries = adding[h].entries
      /\ \A g \in Handlers \ {h} : adding'[g] = adding[g]
  BY <1>a, <1>n, <1>2
<1>4. \A v \in Users : rows'[v].used = IF v = w THEN r + d ELSE rows[v].used
  BY <1>a, <1>2 DEF Row
<1> SUFFICES ASSUME NEW v \in Users PROVE PendingFinite(v)' /\ ChargesBounded(v)'
  BY DEF ChargesInv
<1>5. PendingFinite(v) /\ ChargesBounded(v)
  BY DEF ChargesInv
<1>6. CountedBytes(v)' = CountedBytes(v) /\ EntryBytes(v)' = EntryBytes(v)
  BY NodesStay
<1>7. PostedBytes(v)' = PostedBytes(v)
  <2>1. \A g \in Handlers : adding'[g].entries = adding[g].entries
    BY <1>3
  <2> QED BY <2>1 DEF PostedBytes
<1>8. WrittenBytes(v)' \subseteq WrittenBytes(v) /\ \A b \in WrittenBytes(v)' : b[1] # h
  <2> SUFFICES ASSUME NEW b \in Handlers \X Users \X Nat, adding'[b[1]].pc = "write",
                      adding'[b[1]].user = v, b[2] = v, b[3] \in 1..adding'[b[1]].traffic
               PROVE  adding'[b[1]] = adding[b[1]] /\ b[1] # h
    BY DEF WrittenBytes
  <2>1. b[1] \in Handlers
    OBVIOUS
  <2> QED BY <1>3, <2>1
<1>9. CASE v # w
  <2>1. PendingFinite(v)' /\ Pending(v)' <= Pending(v)
    BY <1>5, <1>6, <1>7, <1>8, PendingShrinks
  <2>2. Pending(v)' <= Pending(v) + (moved'[v] - moved[v]) /\ moved'[v] >= moved[v]
    BY <1>2, <1>5, <2>1, PendingType, PendingTypeNext DEF TypeOK
  <2>3. rows'[v].used = rows[v].used /\ forgiven'[v] = forgiven[v]
    BY <1>2, <1>4, <1>9
  <2>4. \A g \in Handlers : adding'[g].pc = "write" => adding'[g] = adding[g]
    BY <1>3
  <2> QED BY <1>5, <2>1, <2>2, <2>3, <2>4, ChargesStay
<1>10. CASE v = w
  <2> DEFINE W == Block(h, v, d)
  <2>1. W \subseteq WrittenBytes(v)
    <3> SUFFICES ASSUME NEW i \in 1..d PROVE <<h, v, i>> \in WrittenBytes(v)
      BY DEF Block
    <3>1. <<h, v, i>> \in Handlers \X Users \X Nat
      OBVIOUS
    <3> QED BY <1>1, <1>2, <1>10, <3>1 DEF WrittenBytes
  <2>2. WrittenBytes(v)' \subseteq WrittenBytes(v) \ W
    BY <1>8 DEF Block
  <2>3. Cardinality(W) = IF d > 0 THEN d ELSE 0
    BY BlockSize
  <2> HIDE DEF W
  <2>4. /\ IsFiniteSet(WrittenBytes(v)')
        /\ Cardinality(WrittenBytes(v)') + Cardinality(W) <= Cardinality(WrittenBytes(v))
        /\ Cardinality(WrittenBytes(v)) \in Nat /\ Cardinality(WrittenBytes(v)') \in Nat
    BY <1>5, <2>1, <2>2, Parted DEF PendingFinite
  <2>5. /\ Cardinality(CountedBytes(v)) \in Nat /\ Cardinality(EntryBytes(v)) \in Nat
        /\ Cardinality(PostedBytes(v)) \in Nat
    BY <1>5, FS_CardinalityType DEF PendingFinite
  <2>6. PendingFinite(v)'
    BY <1>5, <1>6, <1>7, <2>4 DEF PendingFinite
  <2>7. /\ Pending(v) \in Nat /\ Pending(v)' \in Nat
        /\ Pending(v)' <= Pending(v) /\ Pending(v)' + d <= Pending(v)
    BY <1>6, <1>7, <2>3, <2>4, <2>5 DEF Pending
  <2>8. forgiven[v] \in Int /\ moved[v] \in Int /\ \A g \in Handlers : adding[g].read \in Int
    BY DEF TypeOK, AccountsTypeOK, Adder
  <2>9. forgiven[v] + (r + d) + Pending(v)' <= moved[v]
    <3>1. forgiven[v] + r + Pending(v) <= moved[v]
      BY <1>1, <1>2, <1>5, <1>10 DEF ChargesBounded
    <3> QED BY <2>7, <2>8, <3>1
  <2>10. ASSUME NEW g \in Handlers, adding'[g].pc = "write" /\ adding'[g].user = v
         PROVE  forgiven[v] + adding'[g].read + Pending(v)' <= moved[v]
    <3>1. adding'[g] = adding[g]
      BY <1>3, <2>10
    <3>2. forgiven[v] + adding[g].read + Pending(v) <= moved[v]
      BY <1>5, <2>10, <3>1 DEF ChargesBounded
    <3> QED BY <2>7, <2>8, <3>1, <3>2
  <2>11. rows'[v].used = r + d
    BY <1>4, <1>10
  <2>12. ChargesBounded(v)'
    BY <1>2, <2>9, <2>10, <2>11 DEF ChargesBounded
  <2> QED BY <2>6, <2>12
<1> QED BY <1>9, <1>10

\* The other steps on the rows: a report is lost, a user signs up, a cycle begins.
LEMMA RowStepCharges ==
  ASSUME TypeOK, TypeOK', RowsInv, ChargesInv, Overtaking = FALSE,
         \/ \E h \in Handlers : ReportLost(h)
         \/ \E u \in Users : NewUser(u) \/ Renew(u)
         \/ PlanMonitor
  PROVE  ChargesInv'
<1>a. adding \in [Handlers -> Adder] /\ rows \in [Users -> Row] /\ rows' \in [Users -> Row]
  BY DEF TypeOK, AccountsTypeOK
<1>n. NotAdding.pc = "idle" /\ NotAdding.entries = {}
  BY DEF NotAdding
<1>1. UNCHANGED <<proxyVars, statsVars, moved>>
  BY DEF ReportLost, NewUser, Renew, PlanMonitor, histories
<1>2. \A g \in Handlers : adding'[g] = adding[g] \/ adding'[g] = NotAdding
  BY <1>a DEF ReportLost, LoseReport, NewUser, Signup, Renew, SaveRenewed, PlanMonitor, FindDue
<1> SUFFICES ASSUME NEW v \in Users PROVE PendingFinite(v)' /\ ChargesBounded(v)'
  BY DEF ChargesInv
<1>3. PendingFinite(v) /\ ChargesBounded(v)
  BY DEF ChargesInv
<1>4. CountedBytes(v)' = CountedBytes(v) /\ EntryBytes(v)' = EntryBytes(v)
  BY <1>1, NodesStay
<1>5. PostedBytes(v)' \subseteq PostedBytes(v)
  <2> SUFFICES ASSUME NEW b \in Handlers \X Entry \X Nat, b[2] \in adding'[b[1]].entries
               PROVE  b[2] \in adding[b[1]].entries
    BY DEF PostedBytes
  <2>1. b[1] \in Handlers
    OBVIOUS
  <2> QED BY <1>2, <1>n, <2>1
<1>6. WrittenBytes(v)' \subseteq WrittenBytes(v)
  <2> SUFFICES ASSUME NEW b \in Handlers \X Users \X Nat, adding'[b[1]].pc = "write"
               PROVE  adding'[b[1]] = adding[b[1]]
    BY DEF WrittenBytes
  <2>1. b[1] \in Handlers
    OBVIOUS
  <2> QED BY <1>2, <1>n, <2>1
<1>7. PendingFinite(v)' /\ Pending(v)' <= Pending(v)
  BY <1>3, <1>4, <1>5, <1>6, PendingShrinks
<1>8. Pending(v) \in Nat /\ Pending(v)' \in Nat
  BY <1>3, <1>7, PendingType, PendingTypeNext
<1>9. /\ forgiven[v] \in Int /\ moved[v] \in Int /\ rows[v].used \in Int
      /\ \A g \in Handlers : adding[g].read \in Int
  BY DEF TypeOK, AccountsTypeOK, Adder, Row
<1>10. CASE rows'[v].used = rows[v].used /\ forgiven'[v] = forgiven[v]
  <2>1. Pending(v)' <= Pending(v) + (moved'[v] - moved[v]) /\ moved'[v] >= moved[v]
    BY <1>1, <1>7, <1>8, <1>9
  <2>2. \A g \in Handlers : adding'[g].pc = "write" => adding'[g] = adding[g]
    BY <1>2, <1>n
  <2> QED BY <1>3, <1>7, <1>10, <2>1, <2>2, ChargesStay
<1>11. CASE Renew(v)
  <2>1. /\ rows'[v].used = 0 /\ forgiven'[v] = forgiven[v] + rows[v].used
        /\ adding' = adding /\ \A h \in Handlers : ~(adding[h].pc = "write" /\ adding[h].user = v)
    BY <1>a, <1>11 DEF Renew, SaveRenewed, Row, TypeOK
  <2>2. forgiven[v] + rows[v].used + Pending(v) <= moved[v]
    BY <1>3 DEF ChargesBounded
  <2>3. forgiven'[v] + rows'[v].used + Pending(v)' <= moved'[v]
    BY <1>1, <1>7, <1>8, <1>9, <2>1, <2>2
  <2> QED BY <1>7, <2>1, <2>3 DEF ChargesBounded
<1>12. CASE ~Renew(v)
  <2>1. ASSUME NEW u \in Users, NewUser(u) PROVE rows'[v].used = rows[v].used
    BY <1>a, <2>1 DEF NewUser, Signup, RowsInv
  <2>2. ASSUME NEW u \in Users, Renew(u) PROVE rows'[v].used = rows[v].used /\ forgiven'[v] = forgiven[v]
    <3>1. u # v
      BY <1>12, <2>2
    <3> QED BY <1>a, <2>2, <3>1 DEF Renew, SaveRenewed, TypeOK
  <2> QED BY <1>10, <2>1, <2>2
       DEF ReportLost, LoseReport, NewUser, PlanMonitor, FindDue, histories
<1> QED BY <1>11, <1>12

-----------------------------------------------------------------------------
\* A step that gains nothing gives no port to a second user.
LEMMA PortsOwnedStays ==
  ASSUME PortsOwned, NothingGained
  PROVE  PortsOwned'
BY DEF PortsOwned, NothingGained

\* The invariant, after a step of a node that leaves the rows alone.
LEMMA NodeStepInv ==
  ASSUME TypeOK, TypeOK', AccountingInv, NEW n \in Nodes, UNCHANGED <<accountVars, moved, forgiven>>,
         \/ \E l \in listeners[n] : Accept(n, l)
         \/ \E t \in tunnels[n] : LoadOrStore(n, t) \/ CloseTunnel(n, t)
         \/ \E u \in Users : CloseProxy(n, u) \/ ReportSkip(n, u)
         \/ StatsReset(n) \/ ReportSnapshot(n) \/ ReportCache(n) \/ ReportEnd(n)
  PROVE  AccountingInv'
<1> USE DEF AccountingInv
<1>t. StatsTypeOK /\ StatsTypeOK' /\ AccountsTypeOK /\ report \in [Nodes -> Reporter]
  BY DEF TypeOK, StatsTypeOK
<1>1. NothingGained
  BY <1>t, ProxyStepGainsNothing, ReportStepGainsNothing
<1>2. PortsOwned'
  BY <1>1, PortsOwnedStays
<1>3. PortsRecorded'
  <2>1. \/ \E u \in Users : CloseProxy(n, u)
        \/ StatsReset(n)
        \/ UNCHANGED proxyVars
    BY DEF Accept, LoadOrStore, CloseTunnel, ReportSkip, ReportSnapshot, ReportCache, ReportEnd
  <2> QED BY <1>t, <2>1, PortsRecordedStep
<1>4. ReporterInv'
  <2>1. \/ UNCHANGED report
        \/ StatsReset(n) \/ ReportSnapshot(n) \/ ReportCache(n) \/ ReportEnd(n)
        \/ \E u \in Users : ReportSkip(n, u)
    BY DEF Accept, LoadOrStore, CloseTunnel, CloseProxy
  <2> QED BY <1>t, <2>1, ReporterInvStep
<1>5. RowsInv'
  BY <1>t, RowsInvStep
<1>6. \A u \in Users : CountedBytes(u)' \subseteq CountedBytes(u)
  BY <1>t, <1>1, CountedShrinks
<1>7. \A u \in Users : moved'[u] >= moved[u]
  BY DEF TypeOK
<1>8. \A m \in Nodes : report'[m].entries \subseteq report[m].entries
  <2>1. NoReport.entries = {} /\ [NoReport EXCEPT !.pc = "collect", !.todo = connections[n]].entries = {}
    BY DEF NoReport
  <2>2. CASE \/ \E l \in listeners[n] : Accept(n, l)
             \/ \E t \in tunnels[n] : LoadOrStore(n, t) \/ CloseTunnel(n, t)
             \/ \E u \in Users : CloseProxy(n, u)
    BY <2>2 DEF Accept, LoadOrStore, CloseTunnel, CloseProxy
  <2>3. CASE StatsReset(n) \/ ReportEnd(n) \/ ReportSnapshot(n)
    BY <1>t, <2>1, <2>3 DEF StatsReset, ReportEnd, ReportSnapshot
  <2>4. CASE ReportCache(n) \/ \E u \in Users : ReportSkip(n, u)
    <3>1. report[n] \in Reporter
      BY <1>t
    <3>2. CASE ReportCache(n)
      BY <1>t, <3>1, <3>2 DEF ReportCache, Reporter
    <3>3. ASSUME NEW u \in Users, ReportSkip(n, u)
          PROVE  \A m \in Nodes : report'[m].entries \subseteq report[m].entries
      <4>1. report' = [report EXCEPT ![n] = [report[n] EXCEPT !.todo[u] = NoPort]]
        BY <3>3 DEF ReportSkip
      <4>2. [report[n] EXCEPT !.todo[u] = NoPort].entries = report[n].entries
        BY <3>1 DEF Reporter
      <4> QED BY <1>t, <4>1, <4>2
    <3> QED BY <2>4, <3>2, <3>3
  <2> QED BY <2>2, <2>3, <2>4
<1>9. ChargesInv'
  BY <1>6, <1>7, <1>8, NodeStepCharges
<1> QED BY <1>2, <1>3, <1>4, <1>5, <1>9

\* The invariant, after a step that leaves the nodes alone.
LEMMA RowStepInv ==
  ASSUME TypeOK, AccountingInv, UNCHANGED <<proxyVars, statsVars>>, RowsInv', ChargesInv'
  PROVE  AccountingInv'
BY DEF AccountingInv, PortsRecorded, PortsOwned, Claims, ReporterInv, proxyVars, statsVars

\* Every step keeps the invariant.
LEMMA AccountingInvStep ==
  ASSUME Reuse = FALSE, Overtaking = FALSE, TypeOK, TypeOK', AccountingInv, [Next]_vars
  PROVE  AccountingInv'
<1>t. StatsTypeOK /\ StatsTypeOK' /\ AccountsTypeOK
  BY DEF TypeOK
<1>i. PortsRecorded /\ PortsOwned /\ ReporterInv /\ RowsInv /\ ChargesInv
  BY DEF AccountingInv
<1>1. ASSUME NEW n \in Nodes, ClientConnects(n) \/ TunnelStarts(n) \/ ClientCloses(n)
      PROVE AccountingInv'
  BY <1>1, NodeStepInv DEF ClientConnects, TunnelStarts, ClientCloses, histories
<1>2. ASSUME NEW n \in Nodes, ReportDropped(n) \/ NodeRestart(n) PROVE AccountingInv'
  BY <1>2, NodeStepInv DEF ReportDropped, NodeRestart
<1>3. ASSUME NEW n \in Nodes, NEW u \in Users, Disconnect(n, u) PROVE AccountingInv'
  BY <1>3, NodeStepInv DEF Disconnect
<1>4. ASSUME NEW n \in Nodes, ReportRound(n) PROVE AccountingInv'
  <2>1. UNCHANGED <<accountVars, histories>> /\ UNCHANGED <<accountVars, moved, forgiven>>
    BY <1>4 DEF ReportRound, histories
  <2>2. ASSUME NEW u \in Users, ReportDiff(n, u) PROVE AccountingInv'
    <3>1. NothingGained
      BY <1>t, <1>i, <2>2, ReportStepGainsNothing
    <3>2. PortsOwned'
      BY <1>i, <3>1, PortsOwnedStays
    <3>3. PortsRecorded'
      BY <1>t, <1>i, <2>2, PortsRecordedStep DEF ReportDiff
    <3>4. ReporterInv'
      BY <1>t, <1>i, <2>2, ReporterInvStep
    <3>5. RowsInv'
      BY <1>t, <1>i, <2>1, RowsInvStep
    <3>6. ChargesInv'
      BY <1>i, <2>1, <2>2, ReportDiffCharges
    <3> QED BY <3>2, <3>3, <3>4, <3>5, <3>6 DEF AccountingInv
  <2>3. CASE \/ ReportSnapshot(n) \/ ReportCache(n) \/ ReportEnd(n)
             \/ \E u \in Users : ReportSkip(n, u)
    BY <2>1, <2>3, NodeStepInv
  <2> QED BY <1>4, <2>2, <2>3 DEF ReportRound
<1>5. ASSUME NEW n \in Nodes, NEW h \in Handlers, ReportPosted(n, h) PROVE AccountingInv'
  <2>0. ReportEnd(n) /\ report[n].entries \in SUBSET Entry /\ PostReport(h, report[n].entries)
    BY <1>5 DEF ReportPosted, TypeOK, StatsTypeOK, Reporter
  <2>1. NothingGained
    BY <1>t, <1>i, <2>0, ReportStepGainsNothing
  <2>2. PortsOwned'
    BY <1>i, <2>1, PortsOwnedStays
  <2>3. PortsRecorded'
    BY <1>t, <1>i, <2>0, PortsRecordedStep DEF ReportEnd
  <2>4. ReporterInv'
    BY <1>t, <1>i, <2>0, ReporterInvStep
  <2>5. RowsInv'
    BY <1>t, <1>i, <2>0, RowsInvStep
  <2>6. ChargesInv'
    BY <1>i, <1>5, ReportPostedCharges
  <2> QED BY <2>2, <2>3, <2>4, <2>5, <2>6 DEF AccountingInv
<1>6. ASSUME NEW n \in Nodes, NEW u \in Users, NEW p \in Ports, Connect(n, u, p)
      PROVE AccountingInv'
  <2>0. OpenProxy(n, u, p) /\ Unmentioned(n, p) /\ UNCHANGED accountVars
    BY <1>6 DEF Connect
  <2>1. PortsRecorded'
    BY <1>t, <1>i, <2>0, PortsRecordedStep
  <2>2. PortsOwned'
    <3>1. /\ \A v \in Users : ~Claims(n, v, p)
          /\ \A m \in Nodes, q \in Ports, v \in Users :
               Claims(m, v, q)' => Claims(m, v, q) \/ (m = n /\ v = u /\ q = p)
      BY <1>t, <1>i, <2>0, ConnectClaims
    <3> QED BY <1>i, <3>1 DEF PortsOwned
  <2>3. ReporterInv'
    BY <1>t, <1>i, <2>0, ReporterInvStep DEF OpenProxy, statsVars
  <2>4. RowsInv'
    BY <1>t, <1>i, <2>0, RowsInvStep
  <2>5. ChargesInv'
    BY <1>i, <1>6, ConnectCharges
  <2> QED BY <2>1, <2>2, <2>3, <2>4, <2>5 DEF AccountingInv
<1>7. ASSUME NEW n \in Nodes, NEW t \in tunnels[n], Transfer(n, t) PROVE AccountingInv'
  <2>0. UNCHANGED <<accountVars, proxyVars, tunnels, report>>
    BY <1>7 DEF Transfer, CountByte
  <2>1. PortsRecorded' /\ PortsOwned' /\ ReporterInv'
    BY <1>i, <2>0 DEF PortsRecorded, PortsOwned, Claims, ReporterInv, proxyVars
  <2>2. RowsInv'
    BY <1>t, <1>i, <2>0, RowsInvStep
  <2>3. ChargesInv'
    BY <1>i, <1>7, TransferCharges
  <2> QED BY <2>1, <2>2, <2>3 DEF AccountingInv
<1>8. ASSUME NEW n \in Nodes, NEW t \in tunnels[n], TransferRaces(n, t) PROVE AccountingInv'
  <2>0. UNCHANGED <<accountVars, forgiven>> /\ CountStale(n, t)
        /\ moved' = [moved EXCEPT ![t.user] = @ + 1]
    BY <1>8 DEF TransferRaces
  <2>1. /\ UNCHANGED <<proxyVars, statsCache, tunnels, report>>
        /\ \A m \in Nodes, q \in Ports :
             \/ statsStore'[m][q] = statsStore[m][q]
             \/ m = n /\ q = t.port /\ statsStore'[m][q] \in 1..statsStore[m][q]
    BY <1>t, <2>0, StaleCount
  <2>2. \A u \in Users : moved'[u] >= moved[u]
    BY <2>0 DEF TypeOK
  <2>3. ASSUME NEW u \in Users PROVE CountedBytes(u)' \subseteq CountedBytes(u)
    <3>1. \A m \in Nodes, q \in Ports : Excess(m, q)' \in Int /\ Excess(m, q)' <= Excess(m, q)
      <4> SUFFICES ASSUME NEW m \in Nodes, NEW q \in Ports
                   PROVE  Excess(m, q)' \in Int /\ Excess(m, q)' <= Excess(m, q)
        OBVIOUS
      <4>1. Collected(m, q) \in Nat /\ statsStore[m][q] \in Int /\ Excess(m, q) \in Int
        BY <1>t, ExcessType
      <4>2. Collected(m, q)' = Collected(m, q)
        BY <2>1 DEF Collected
      <4>3. statsStore'[m][q] \in Int /\ statsStore'[m][q] <= statsStore[m][q]
        BY <2>1, <4>1
      <4> QED BY <4>1, <4>2, <4>3 DEF Excess
    <3>2. \A m \in Nodes, q \in Ports : Claims(m, u, q)' = Claims(m, u, q)
      BY <2>1 DEF Claims, proxyVars
    <3> SUFFICES ASSUME NEW b \in Nodes \X Ports \X Nat,
                        Claims(b[1], u, b[2])', b[3] \in 1..(Excess(b[1], b[2])')
                 PROVE  Claims(b[1], u, b[2]) /\ b[3] \in 1..Excess(b[1], b[2])
      BY DEF CountedBytes
    <3>3. b[1] \in Nodes /\ b[2] \in Ports /\ b[3] \in Nat /\ Excess(b[1], b[2]) \in Int
      BY <1>t, ExcessType
    <3> QED BY <3>1, <3>2, <3>3
  <2>4. ChargesInv'
    BY <1>i, <2>0, <2>1, <2>2, <2>3, NodeStepCharges
  <2>5. PortsRecorded' /\ PortsOwned' /\ ReporterInv'
    BY <1>i, <2>1 DEF PortsRecorded, PortsOwned, Claims, ReporterInv, proxyVars
  <2>6. RowsInv'
    BY <1>t, <1>i, <2>0, RowsInvStep
  <2> QED BY <2>4, <2>5, <2>6 DEF AccountingInv
<1>9. ASSUME NEW h \in Handlers, AddTraffic(h) PROVE AccountingInv'
  <2>0. UNCHANGED <<proxyVars, statsVars>> /\ UNCHANGED <<proxyVars, statsVars, moved, forgiven>>
    BY <1>9 DEF AddTraffic
  <2>1. (\E e \in adding[h].entries : ReadUsed(h, e)) \/ UpdateUsed(h)
    BY <1>9 DEF AddTraffic
  <2>2. RowsInv'
    BY <1>t, <1>i, <2>1, RowsInvStep
  <2>3. ChargesInv'
    BY <1>i, <2>0, <2>1, ReadUsedCharges, UpdateUsedCharges
  <2> QED BY <2>0, <2>2, <2>3, RowStepInv
<1>10. ASSUME \/ \E h \in Handlers : ReportLost(h)
              \/ \E u \in Users : NewUser(u) \/ Renew(u)
              \/ PlanMonitor
       PROVE  AccountingInv'
  <2>0. UNCHANGED <<proxyVars, statsVars>>
    BY <1>10 DEF ReportLost, NewUser, Renew, PlanMonitor
  <2>1. RowsInv'
    BY <1>t, <1>i, <1>10, RowsInvStep DEF ReportLost, NewUser, Renew, PlanMonitor
  <2>2. ChargesInv'
    BY <1>i, <1>10, RowStepCharges
  <2> QED BY <2>0, <2>1, <2>2, RowStepInv
<1>11. CASE UNCHANGED vars
  <2>0. UNCHANGED <<proxyVars, statsVars>> /\ UNCHANGED <<accountVars, forgiven>>
        /\ moved' = moved /\ report' = report /\ UNCHANGED accountVars
    BY <1>11 DEF vars, histories, statsVars
  <2>1. RowsInv'
    BY <1>t, <1>i, <2>0, RowsInvStep
  <2>2. \A u \in Users : moved'[u] >= moved[u] /\ CountedBytes(u)' \subseteq CountedBytes(u)
    BY <2>0, NodesStay DEF TypeOK
  <2>3. ChargesInv'
    BY <1>i, <2>0, <2>2, NodeStepCharges
  <2> QED BY <2>0, <2>1, <2>3, RowStepInv
<1> QED
  BY <1>1, <1>2, <1>3, <1>4, <1>5, <1>6, <1>7, <1>8, <1>9, <1>10, <1>11 DEF Next

LEMMA InitAccountingInv == Init => AccountingInv
<1> SUFFICES ASSUME Init PROVE AccountingInv
  OBVIOUS
<1> USE DEF Init, NodeProxiesInit, TrafficStatsInit, AccountsInit
<1>n. /\ NoReport.port = NoPort /\ NoReport.entries = {}
      /\ \A v \in Users : NoReport.todo[v] = NoPort
      /\ NotAdding.pc = "idle" /\ NotAdding.entries = {} /\ NoRow.used = 0
  BY DEF NoReport, NotAdding, NoRow
<1>1. PortsRecorded /\ ReporterInv
  BY <1>n, PortAssumption DEF PortsRecorded, ReporterInv
<1>2. \A n \in Nodes, u \in Users, p \in Ports : ~Claims(n, u, p)
  BY <1>n, PortAssumption DEF Claims
<1>3. PortsOwned
  BY <1>2 DEF PortsOwned
<1>4. RowsInv
  BY <1>n DEF RowsInv
<1>5. ASSUME NEW u \in Users PROVE PendingFinite(u) /\ ChargesBounded(u)
  <2>1. CountedBytes(u) = {}
    BY <1>2 DEF CountedBytes
  <2>2. EntryBytes(u) = {} /\ PostedBytes(u) = {} /\ WrittenBytes(u) = {}
    BY <1>n DEF EntryBytes, PostedBytes, WrittenBytes
  <2>3. PendingFinite(u) /\ Pending(u) = 0
    BY <2>1, <2>2, FS_EmptySet DEF PendingFinite, Pending
  <2> QED BY <1>n, <2>3 DEF ChargesBounded
<1> QED BY <1>1, <1>3, <1>4, <1>5 DEF AccountingInv, ChargesInv

\* Nobody is charged for more than it has moved (node/server.go:295-334,
\* controllers.go:464-489): not by overlapping additions that write an old row
\* back, not by a late tunnel whose statistics nobody has deleted, and not by the
\* negative difference with which the second session of a port begins, lost or
\* not.  Renewals do not overtake additions, and no port is picked again while
\* its old use is remembered.
THEOREM AlwaysNeverOvercharged ==
  ASSUME Reuse = FALSE, Overtaking = FALSE
  PROVE  Spec => []NeverOvercharged
<1>1. TypeOK /\ TypeOK' /\ AccountingInv /\ [Next]_vars => AccountingInv'
  BY AccountingInvStep
<1>2. Spec => []TypeOK
  BY TypeCorrect
<1>3. TypeOK /\ AccountingInv => NeverOvercharged
  <2> SUFFICES ASSUME TypeOK, AccountingInv, NEW u \in Users PROVE Charged(u) <= moved[u]
    BY DEF NeverOvercharged
  <2>1. PendingFinite(u) /\ forgiven[u] + rows[u].used + Pending(u) <= moved[u]
    BY DEF AccountingInv, ChargesInv, ChargesBounded
  <2>2. Pending(u) \in Nat /\ forgiven[u] \in Int /\ rows[u].used \in Int /\ moved[u] \in Int
    BY <2>1, PendingType DEF TypeOK, AccountsTypeOK, Row
  <2> QED BY <2>1, <2>2 DEF Charged
<1> QED BY <1>1, <1>2, <1>3, InitAccountingInv, PTL DEF Spec

-----------------------------------------------------------------------------
(* No byte goes astray. *)

\* What the counters of port p of node n say about user u.  While u has the port,
\* its counter is never behind what was collected, and a counter that the reporter
\* has in hand stands still.  A port that u has left has nothing to report.
PortLedger(n, u, p) ==
  /\ connections[n][u] = p =>
       IF report[n].port = p THEN statsStore[n][p] = report[n].count
       ELSE IF statsStore[n][p] = Absent THEN statsCache[n][p] = 0
       ELSE statsStore[n][p] >= statsCache[n][p]
  /\ Claims(n, u, p) /\ connections[n][u] # p =>
       /\ Excess(n, p) <= 0
       /\ report[n].port # p /\ statsStore[n][p] # Absent => statsStore[n][p] = statsCache[n][p]

\* No entry of user u is below 0.
EntriesCounted(u) ==
  /\ \A n \in Nodes : \A e \in report[n].entries : e.user = u => e.traffic >= 0
  /\ \A h \in Handlers : \A e \in adding[h].entries : e.user = u => e.traffic >= 0
  /\ \A h \in Handlers : adding[h].pc = "write" /\ adding[h].user = u => adding[h].traffic >= 0

Ledger(u) ==
  /\ \A n \in Nodes, p \in Ports : PortLedger(n, u, p)
  /\ EntriesCounted(u)
  /\ moved[u] <= forgiven[u] + rows[u].used + Pending(u)

\* Between rounds there are no entries.  A round has none of a user it has yet to
\* come to: two equal entries of one user would count once.
RoundInv ==
  \A n \in Nodes :
    /\ report[n].pc = "idle" => report[n].entries = {}
    /\ \A u \in Users : report[n].todo[u] # NoPort => \A e \in report[n].entries : e.user # u

\* The statistics that a tunnel was given are there, unless they were deleted.
StoredTunnels ==
  \A n \in Nodes : \A t \in tunnels[n] : t.stats = "stored" => statsStore[n][t.port] # Absent

\* The inductive invariant.
LedgerInv ==
  /\ RoundInv
  /\ StoredTunnels
  /\ \A u \in Users : ~shortchanged[u] => Ledger(u)

-----------------------------------------------------------------------------
\* A step keeps the ledger of a port, and what the port has counted for its user.
PortStep(n, u, p) ==
  /\ PortLedger(n, u, p)'
  /\ connections[n][u] = p /\ Excess(n, p) > 0 =>
       connections'[n][u] = p /\ Excess(n, p)' >= Excess(n, p)

\* Ports that a step leaves alone.
LEMMA PortKept ==
  ASSUME StatsTypeOK, NEW n \in Nodes, NEW u \in Users, NEW p \in Ports, PortLedger(n, u, p),
         connections'[n][u] = p <=> connections[n][u] = p,
         statsStore'[n][p] = statsStore[n][p], statsCache'[n][p] = statsCache[n][p],
         report'[n].port = p <=> report[n].port = p,
         report[n].port = p => report'[n].count = report[n].count,
         Claims(n, u, p)' => Claims(n, u, p)
  PROVE  PortStep(n, u, p)
<1>1. Excess(n, p)' = Excess(n, p)
  BY DEF Excess, Collected
<1>2. Excess(n, p) \in Int
  BY ExcessType
<1>3. PortLedger(n, u, p)'
  BY <1>1 DEF PortLedger
<1> QED BY <1>1, <1>2, <1>3 DEF PortStep

\* A port that is not the user's.
LEMMA OthersPort ==
  ASSUME NEW n \in Nodes, NEW u \in Users, NEW p \in Ports,
         connections[n][u] # p, ~Claims(n, u, p)'
  PROVE  PortStep(n, u, p)
<1>1. connections'[n][u] # p
  BY DEF Claims
<1> QED BY <1>1 DEF PortStep, PortLedger

\* The ports of the other nodes.
LEMMA OtherNodesPorts ==
  ASSUME StatsTypeOK, NEW n \in Nodes, NEW m \in Nodes, m # n, NEW u \in Users,
         NEW q \in Ports, PortLedger(m, u, q),
         \/ \E v \in Users, p \in Ports : OpenProxy(n, v, p)
         \/ \E l \in listeners[n] : Accept(n, l)
         \/ \E t \in tunnels[n] : LoadOrStore(n, t) \/ CountByte(n, t) \/ CloseTunnel(n, t)
         \/ \E v \in Users : CloseProxy(n, v) \/ ReportSkip(n, v) \/ ReportDiff(n, v)
         \/ StatsReset(n) \/ ReportSnapshot(n) \/ ReportCache(n) \/ ReportEnd(n)
  PROVE  PortStep(m, u, q)
<1>1. /\ connections'[m] = connections[m]
      /\ statsStore'[m] = statsStore[m] /\ statsCache'[m] = statsCache[m]
      /\ tunnels'[m] = tunnels[m] /\ report'[m] = report[m]
  BY OtherNodes
<1>2. Claims(m, u, q)' => Claims(m, u, q)
  BY <1>1 DEF Claims
<1> QED BY <1>1, <1>2, PortKept

\* What is uncollected is what the port has in excess.
LEMMA UncollectedExcess ==
  ASSUME NEW n \in Nodes, NEW u \in Users, NEW p \in Ports, connections[n][u] = p
  PROVE  Uncollected(n, u) = IF statsStore[n][p] = Absent THEN 0 ELSE Excess(n, p)
<1>1. p # NoPort
  BY PortAssumption
<1> QED BY <1>1 DEF Uncollected, Excess, Collected

\* Tunnels open, start and close, proxies and nodes go.
LEMMA ProxyStepPorts ==
  ASSUME StatsTypeOK, PortsRecorded, PortsOwned, NEW u \in Users,
         \A m \in Nodes, q \in Ports : PortLedger(m, u, q), NEW n \in Nodes,
         \/ \E l \in listeners[n] : Accept(n, l)
         \/ \E t \in tunnels[n] :
              \/ CloseTunnel(n, t)
              \/ /\ LoadOrStore(n, t)
                 /\ ~(t.user = u /\ ~Recorded(n, t) /\ statsCache[n][t.port] # 0)
         \/ \E v \in Users : CloseProxy(n, v) /\ ~(v = u /\ Uncollected(n, u) # 0)
         \/ StatsReset(n) /\ Uncollected(n, u) = 0
  PROVE  \A m \in Nodes, q \in Ports : PortStep(m, u, q)
<1>g. NothingGained
  BY ProxyStepGainsNothing
<1> SUFFICES ASSUME NEW q \in Ports PROVE PortStep(n, u, q)
  BY OtherNodesPorts
<1>q. q # NoPort /\ PortLedger(n, u, q)
  BY PortAssumption
<1>c. Claims(n, u, q)' => Claims(n, u, q)
  BY <1>g DEF NothingGained
<1>e. /\ Excess(n, q) \in Int /\ Collected(n, q) \in Nat
      /\ statsStore[n][q] \in Nat \cup {-1} /\ statsCache[n][q] \in Nat
      /\ report[n].count \in Nat
  BY ExcessType DEF StatsTypeOK, Reporter
<1>1. CASE \/ \E l \in listeners[n] : Accept(n, l)
           \/ \E t \in tunnels[n] : CloseTunnel(n, t)
  <2>1. UNCHANGED <<connections, statsStore, statsCache, report>>
    BY <1>1 DEF Accept, CloseTunnel, proxyVars
  <2> QED BY <1>q, <1>c, <2>1, PortKept
<1>2. ASSUME NEW t \in tunnels[n], LoadOrStore(n, t),
             ~(t.user = u /\ ~Recorded(n, t) /\ statsCache[n][t.port] # 0)
      PROVE  PortStep(n, u, q)
  <2>1. t \in Tunnel /\ t.user \in Users /\ t.port \in Ports
    BY DEF StatsTypeOK, Tunnel
  <2>2. UNCHANGED <<connections, statsCache, report>> /\ t.stats = "none"
    BY <1>2 DEF LoadOrStore, proxyVars
  <2>3. statsStore'[n][q] = IF q = t.port /\ statsStore[n][q] = -1 THEN 0 ELSE statsStore[n][q]
    BY <1>2, <2>1 DEF LoadOrStore, StatsTypeOK, Absent
  <2>4. CASE q # t.port \/ statsStore[n][q] # -1
    <3>1. statsStore'[n][q] = statsStore[n][q]
      BY <2>3, <2>4
    <3> QED BY <1>q, <1>c, <2>2, <3>1, PortKept
  <2>5. CASE q = t.port /\ statsStore[n][q] = -1
    <3>1. Claims(n, t.user, q)
      BY <2>5 DEF Claims
    <3>2. CASE connections[n][u] = q
      <4>1. Claims(n, u, q)
        BY <3>2 DEF Claims
      <4>2. t.user = u
        BY <2>1, <3>1, <4>1 DEF PortsOwned
      <4>3. report[n].port # q /\ statsCache[n][q] = 0
        BY <1>e, <1>q, <2>5, <3>2 DEF PortLedger, Absent
      <4>4. Excess(n, q) <= 0
        BY <1>e, <2>5, <4>3 DEF Excess, Collected
      <4>5. PortLedger(n, u, q)'
        BY <2>2, <2>3, <2>5, <3>2, <4>3 DEF PortLedger, Absent
      <4> QED BY <1>e, <4>4, <4>5 DEF PortStep
    <3>3. CASE connections[n][u] # q /\ Claims(n, u, q)
      <4>1. t.user = u
        BY <2>1, <3>1, <3>3 DEF PortsOwned
      <4>2. statsCache[n][q] = 0
        BY <1>2, <2>5, <3>3, <4>1 DEF Recorded
      <4>3. Excess(n, q)' = 0 - Collected(n, q)
        BY <2>2, <2>3, <2>5 DEF Excess, Collected
      <4>4. PortLedger(n, u, q)'
        BY <1>e, <2>2, <2>3, <2>5, <3>3, <4>2, <4>3 DEF PortLedger
      <4> QED BY <3>3, <4>4 DEF PortStep
    <3>4. CASE ~Claims(n, u, q)
      <4>1. connections[n][u] # q
        BY <3>4 DEF Claims
      <4> QED BY <1>c, <3>4, <4>1, OthersPort
    <3> QED BY <3>2, <3>3, <3>4
  <2> QED BY <2>4, <2>5
<1>3. ASSUME NEW v \in Users, CloseProxy(n, v), ~(v = u /\ Uncollected(n, u) # 0)
      PROVE  PortStep(n, u, q)
  <2>1. /\ UNCHANGED <<statsCache, report>>
        /\ statsStore'[n][q] = IF q = connections[n][v] THEN -1 ELSE statsStore[n][q]
        /\ connections'[n][u] = IF u = v THEN NoPort ELSE connections[n][u]
    BY <1>3 DEF CloseProxy, handleDisconnect, StatsTypeOK, ProxiesTypeOK, Absent
  <2>2. CASE q # connections[n][v]
    BY <1>q, <1>c, <2>1, <2>2, PortKept
  <2>3. CASE q = connections[n][v] /\ u # v
    <3>1. Claims(n, v, q)
      BY <2>3 DEF Claims
    <3>2. ~Claims(n, u, q)
      BY <2>3, <3>1 DEF PortsOwned
    <3>3. connections[n][u] # q
      BY <3>2 DEF Claims
    <3> QED BY <1>c, <3>2, <3>3, OthersPort
  <2>4. CASE q = connections[n][v] /\ u = v
    <3>1. Excess(n, q) <= 0
      <4>1. Uncollected(n, u) = 0 /\ connections[n][u] = q
        BY <1>3, <2>4
      <4>2. CASE statsStore[n][q] = -1
        BY <1>e, <4>2 DEF Excess
      <4>3. CASE statsStore[n][q] # -1
        BY <4>1, <4>3, UncollectedExcess DEF Absent
      <4> QED BY <4>2, <4>3
    <3>2. Excess(n, q)' = -1 - Collected(n, q)
      BY <2>1, <2>4 DEF Excess, Collected
    <3>3. PortLedger(n, u, q)'
      BY <1>e, <1>q, <2>1, <2>4, <3>2 DEF PortLedger, Absent
    <3> QED BY <1>e, <3>1, <3>3 DEF PortStep
  <2> QED BY <2>2, <2>3, <2>4
<1>4. ASSUME StatsReset(n), Uncollected(n, u) = 0
      PROVE  PortStep(n, u, q)
  <2>1. /\ report'[n] = NoReport /\ tunnels'[n] = {} /\ connections'[n][u] = NoPort
        /\ NoReport.todo[u] = NoPort
    BY <1>4 DEF StatsReset, NodeReset, NoReport, StatsTypeOK, ProxiesTypeOK
  <2>2. ~Claims(n, u, q)' /\ connections'[n][u] # q
    BY <1>q, <2>1 DEF Claims
  <2>3. ASSUME connections[n][u] = q PROVE Excess(n, q) <= 0
    <3>1. CASE statsStore[n][q] = -1
      BY <1>e, <3>1 DEF Excess
    <3>2. CASE statsStore[n][q] # -1
      BY <1>4, <2>3, <3>2, UncollectedExcess DEF Absent
    <3> QED BY <3>1, <3>2
  <2> QED BY <1>e, <2>2, <2>3 DEF PortStep, PortLedger
<1> QED
  BY <1>1, <1>2, <1>3, <1>4

\* A new proxy, on a port that the reporter has no memory of.
LEMMA ConnectPorts ==
  ASSUME StatsTypeOK, PortsRecorded, NEW u \in Users,
         \A m \in Nodes, q \in Ports : PortLedger(m, u, q),
         NEW n \in Nodes, NEW v \in Users, NEW p \in Ports,
         OpenProxy(n, v, p), Unmentioned(n, p), ~(v = u /\ statsCache[n][p] # 0)
  PROVE  \A m \in Nodes, q \in Ports : PortStep(m, u, q)
<1> SUFFICES ASSUME NEW q \in Ports PROVE PortStep(n, u, q)
  BY OtherNodesPorts
<1>q. q # NoPort /\ PortLedger(n, u, q)
  BY PortAssumption
<1>1. /\ UNCHANGED <<statsStore, statsCache, report>>
      /\ connections'[n][u] = IF u = v THEN p ELSE connections[n][u]
      /\ connections[n][v] = NoPort
  BY DEF OpenProxy, statsVars, HasProxy, StatsTypeOK, ProxiesTypeOK
<1>2. /\ ~Claims(n, u, p)
      /\ Claims(n, u, q)' => Claims(n, u, q) \/ (u = v /\ q = p)
  BY ConnectClaims
<1>3. CASE q # p
  BY <1>q, <1>1, <1>2, <1>3, PortKept
<1>4. CASE q = p /\ u # v
  <2>1. connections[n][u] # p
    BY <1>2 DEF Claims
  <2> QED BY <1>2, <1>4, <2>1, OthersPort
<1>5. CASE q = p /\ u = v
  <2>1. connections[n][u] # p
    BY <1>2 DEF Claims
  <2>2. PortLedger(n, u, q)'
    BY <1>1, <1>5 DEF PortLedger, Unmentioned
  <2> QED BY <1>5, <2>1, <2>2 DEF PortStep
<1> QED
  BY <1>3, <1>4, <1>5

\* The reporter, but for the step that makes an entry.
LEMMA ReportStepPorts ==
  ASSUME StatsTypeOK, ReporterInv, NEW u \in Users,
         \A m \in Nodes, q \in Ports : PortLedger(m, u, q), NEW n \in Nodes,
         \/ ReportSnapshot(n) \/ ReportCache(n) \/ ReportEnd(n)
         \/ \E v \in Users : ReportSkip(n, v)
  PROVE  \A m \in Nodes, q \in Ports : PortStep(m, u, q)
<1>g. NothingGained
  BY ReportStepGainsNothing
<1> SUFFICES ASSUME NEW q \in Ports PROVE PortStep(n, u, q)
  BY OtherNodesPorts
<1>q. q # NoPort /\ PortLedger(n, u, q)
  BY PortAssumption
<1>r. report[n] \in Reporter /\ report[n].count \in Nat
  BY DEF StatsTypeOK, Reporter
<1>c. Claims(n, u, q)' => Claims(n, u, q)
  BY <1>g DEF NothingGained
<1>e. /\ Excess(n, q) \in Int /\ Collected(n, q) \in Nat
      /\ statsStore[n][q] \in Nat \cup {-1}
  BY ExcessType
<1>1. CASE ReportSnapshot(n) \/ ReportEnd(n)
  <2>1. report[n].port = NoPort
    BY <1>1 DEF ReportSnapshot, ReportEnd, ReporterInv
  <2>2. report'[n].port = NoPort /\ UNCHANGED <<connections, statsStore, statsCache>>
    <3>1. CASE ReportSnapshot(n)
      BY <3>1 DEF ReportSnapshot, NoReport, StatsTypeOK, proxyVars
    <3>2. CASE ReportEnd(n)
      BY <3>2 DEF ReportEnd, NoReport, StatsTypeOK, proxyVars
    <3> QED BY <1>1, <3>1, <3>2
  <2> QED BY <1>q, <1>c, <2>1, <2>2, PortKept
<1>2. ASSUME NEW v \in Users, ReportSkip(n, v) PROVE PortStep(n, u, q)
  <2>1. report' = [report EXCEPT ![n] = [report[n] EXCEPT !.todo[v] = NoPort]]
        /\ UNCHANGED <<connections, statsStore, statsCache>>
    BY <1>2 DEF ReportSkip, proxyVars
  <2>2. report'[n].port = report[n].port /\ report'[n].count = report[n].count
    BY <1>r, <2>1 DEF Reporter, StatsTypeOK
  <2> QED BY <1>q, <1>c, <2>1, <2>2, PortKept
<1>3. CASE ReportCache(n)
  <2>1. /\ report'[n].port = NoPort
        /\ statsCache'[n][q] =
             IF q # report[n].port THEN statsCache[n][q]
             ELSE IF statsStore[n][q] = -1 THEN report[n].count ELSE statsStore[n][q]
        /\ UNCHANGED <<connections, statsStore>>
    BY <1>3, <1>r DEF ReportCache, Reporter, Absent, StatsTypeOK, proxyVars
  <2>2. CASE q # report[n].port
    BY <1>q, <1>c, <2>1, <2>2, PortKept
  <2>3. CASE q = report[n].port
    <3>1. Excess(n, q)' = IF statsStore[n][q] = -1 THEN -1 - report[n].count ELSE 0
      BY <1>q, <1>e, <1>r, <2>1, <2>3 DEF Excess, Collected
    <3>2. CASE connections[n][u] = q
      <4>1. statsStore[n][q] = report[n].count
        BY <1>q, <2>3, <3>2 DEF PortLedger
      <4>2. Excess(n, q) = 0 /\ Excess(n, q)' = 0
        BY <1>e, <1>r, <2>3, <3>1, <4>1 DEF Excess, Collected
      <4>3. PortLedger(n, u, q)'
        BY <1>q, <1>e, <1>r, <2>1, <2>3, <3>2, <4>1 DEF PortLedger, Absent
      <4> QED BY <4>2, <4>3 DEF PortStep
    <3>3. CASE connections[n][u] # q
      <4>1. PortLedger(n, u, q)'
        BY <1>q, <1>e, <1>r, <2>1, <2>3, <3>1, <3>3 DEF PortLedger, Absent
      <4> QED BY <3>3, <4>1 DEF PortStep
    <3> QED BY <3>2, <3>3
  <2> QED BY <2>2, <2>3
<1> QED
  BY <1>1, <1>2, <1>3

\* The step that makes an entry: the port of the entry is collected, the others
\* stay.
LEMMA ReportDiffPorts ==
  ASSUME StatsTypeOK, ReporterInv, PortsOwned, NEW u \in Users,
         \A m \in Nodes, q \in Ports : PortLedger(m, u, q), NEW n \in Nodes,
         NEW v \in Users, NEW p \in Ports, p = report[n].todo[v], ReportDiff(n, v)
  PROVE  /\ \A m \in Nodes, q \in Ports : PortLedger(m, u, q)'
         /\ \A m \in Nodes, q \in Ports : (m # n \/ q # p \/ u # v) => PortStep(m, u, q)
<1>g. NothingGained
  BY ReportStepGainsNothing
<1>r. report[n] \in Reporter /\ report[n].port = NoPort
  BY DEF StatsTypeOK, ReportDiff, ReporterInv
<1>1. /\ report'[n].port = p /\ report'[n].count = statsStore[n][p]
      /\ UNCHANGED <<connections, statsStore, statsCache>>
  BY <1>r DEF ReportDiff, Reporter, StatsTypeOK, proxyVars
<1>2. ASSUME NEW q \in Ports, q # p PROVE PortStep(n, u, q)
  <2>1. q # NoPort /\ PortLedger(n, u, q)
    BY PortAssumption
  <2>2. Claims(n, u, q)' => Claims(n, u, q)
    BY <1>g DEF NothingGained
  <2> QED BY <1>r, <1>1, <1>2, <2>1, <2>2, PortKept
<1>3. ASSUME u # v PROVE PortStep(n, u, p)
  <2>1. Claims(n, v, p)
    BY DEF Claims
  <2>2. ~Claims(n, u, p)
    BY <1>3, <2>1 DEF PortsOwned
  <2>3. connections[n][u] # p
    BY <2>2 DEF Claims
  <2>4. ~Claims(n, u, p)'
    BY <1>g, <2>2 DEF NothingGained
  <2> QED BY <2>3, <2>4, OthersPort
<1>4. PortLedger(n, u, p)'
  <2>1. Excess(n, p)' = 0
    BY <1>1, ExcessType DEF Excess, Collected
  <2> QED BY <1>1, <2>1 DEF PortLedger
<1>5. ASSUME NEW m \in Nodes, NEW q \in Ports, m # n PROVE PortStep(m, u, q)
  BY <1>5, OtherNodesPorts
<1>6. \A m \in Nodes, q \in Ports : (m # n \/ q # p \/ u # v) => PortStep(m, u, q)
  BY <1>2, <1>3, <1>5
<1>7. \A m \in Nodes, q \in Ports : PortLedger(m, u, q)'
  BY <1>4, <1>6 DEF PortStep
<1> QED BY <1>6, <1>7

\* A byte is counted, by a proxy that is not closed and when the reporter is not
\* between its accesses.
LEMMA CountBytePorts ==
  ASSUME StatsTypeOK, PortsOwned, StoredTunnels, NEW u \in Users,
         \A m \in Nodes, q \in Ports : PortLedger(m, u, q), NEW n \in Nodes,
         NEW t \in tunnels[n], CountByte(n, t),
         t.user = u => Recorded(n, t) /\ report[n].port # t.port
  PROVE  /\ \A m \in Nodes, q \in Ports : PortStep(m, u, q)
         /\ t.user = u => /\ connections[n][u] = t.port /\ connections' = connections
                          /\ Excess(n, t.port) \in Nat
                          /\ Excess(n, t.port)' = Excess(n, t.port) + 1
<1>t. t \in Tunnel /\ t.user \in Users /\ t.port \in Ports
  BY DEF StatsTypeOK, Tunnel
<1>1. /\ UNCHANGED <<connections, statsCache, tunnels, report>> /\ t.stats # "none"
      /\ \A q \in Ports : q # t.port => statsStore'[n][q] = statsStore[n][q]
      /\ t.stats = "stored" => statsStore'[n][t.port] = statsStore[n][t.port] + 1
  BY <1>t DEF CountByte, proxyVars, StatsTypeOK
<1>2. ASSUME NEW q \in Ports PROVE Claims(n, u, q)' => Claims(n, u, q)
  BY <1>1 DEF Claims
<1>3. ASSUME NEW q \in Ports, q # t.port PROVE PortStep(n, u, q)
  BY <1>1, <1>2, <1>3, PortKept
<1>4. ASSUME t.user # u PROVE PortStep(n, u, t.port)
  <2>1. Claims(n, t.user, t.port)
    BY DEF Claims
  <2>2. ~Claims(n, u, t.port)
    BY <1>t, <1>4, <2>1 DEF PortsOwned
  <2>3. connections[n][u] # t.port
    BY <2>2 DEF Claims
  <2> QED BY <1>t, <1>2, <2>2, <2>3, OthersPort
<1>5. ASSUME t.user = u
      PROVE  /\ PortStep(n, u, t.port)
             /\ connections[n][u] = t.port /\ Excess(n, t.port) \in Nat
             /\ Excess(n, t.port)' = Excess(n, t.port) + 1
  <2>1. t.stats = "stored" /\ connections[n][u] = t.port /\ report[n].port # t.port
    BY <1>t, <1>1, <1>5 DEF Recorded, Tunnel
  <2>2. statsStore[n][t.port] \in Nat /\ statsCache[n][t.port] \in Nat
    BY <1>t, <2>1 DEF StoredTunnels, StatsTypeOK
  <2>3. PortLedger(n, u, t.port)
    BY <1>t
  <2>4. statsStore[n][t.port] >= statsCache[n][t.port]
    BY <2>1, <2>2, <2>3 DEF PortLedger, Absent
  <2>5. /\ Excess(n, t.port) = statsStore[n][t.port] - statsCache[n][t.port]
        /\ Excess(n, t.port)' = statsStore[n][t.port] + 1 - statsCache[n][t.port]
    <3>1. statsStore'[n][t.port] = statsStore[n][t.port] + 1
      BY <1>1, <2>1
    <3>2. report' = report /\ statsCache' = statsCache
      BY <1>1
    <3>3. Collected(n, t.port) = statsCache[n][t.port] /\ Collected(n, t.port)' = statsCache[n][t.port]
      BY <2>1, <3>2 DEF Collected
    <3> QED BY <2>2, <3>1, <3>3 DEF Excess
  <2>6. Excess(n, t.port) \in Nat /\ Excess(n, t.port)' = Excess(n, t.port) + 1
    BY <2>2, <2>4, <2>5
  <2>7. PortLedger(n, u, t.port)'
    BY <1>1, <2>1, <2>2, <2>4 DEF PortLedger, Absent
  <2> QED BY <1>1, <2>1, <2>6, <2>7 DEF PortStep
<1>6. ASSUME NEW m \in Nodes, NEW q \in Ports, m # n PROVE PortStep(m, u, q)
  BY <1>6, OtherNodesPorts
<1> QED
  BY <1>1, <1>3, <1>4, <1>5, <1>6

-----------------------------------------------------------------------------
\* What the user's ports have counted is still counted.
LEMMA CountedKept ==
  ASSUME StatsTypeOK, StatsTypeOK', NEW u \in Users,
         \A n \in Nodes, p \in Ports : PortLedger(n, u, p),
         NEW b \in CountedBytes(u), PortStep(b[1], u, b[2])
  PROVE  b \in CountedBytes(u)'
<1>1. b[1] \in Nodes /\ b[2] \in Ports /\ b[3] \in Nat /\ b \in Nodes \X Ports \X Nat
      /\ Claims(b[1], u, b[2]) /\ b[3] \in 1..Excess(b[1], b[2])
  BY DEF CountedBytes
<1>2. Excess(b[1], b[2]) \in Int /\ Excess(b[1], b[2]) > 0
  BY <1>1, ExcessType
<1>3. connections[b[1]][u] = b[2]
  BY <1>1, <1>2 DEF PortLedger
<1>4. PICK n \in Nodes, p \in Ports : n = b[1] /\ p = b[2]
  BY <1>1
<1>5. connections'[n][u] = p /\ Excess(n, p)' >= Excess(n, p) /\ Excess(n, p)' \in Int
  BY <1>2, <1>3, <1>4, ExcessTypeNext DEF PortStep
<1>6. Claims(n, u, p)'
  BY <1>5 DEF Claims
<1>7. b[3] \in 1..(Excess(n, p)')
  BY <1>1, <1>2, <1>4, <1>5
<1> QED BY <1>1, <1>4, <1>6, <1>7 DEF CountedBytes

\* The sets of bytes after a step that takes none from them.
LEMMA PendingKept ==
  ASSUME NEW u \in Users, PendingFinite(u)',
         CountedBytes(u) \subseteq CountedBytes(u)', EntryBytes(u) \subseteq EntryBytes(u)',
         PostedBytes(u) \subseteq PostedBytes(u)', WrittenBytes(u) \subseteq WrittenBytes(u)'
  PROVE  Pending(u) <= Pending(u)'
<1>1. /\ Cardinality(CountedBytes(u)) <= Cardinality(CountedBytes(u)')
      /\ Cardinality(CountedBytes(u)) \in Nat /\ Cardinality(CountedBytes(u)') \in Nat
  BY Fewer DEF PendingFinite
<1>2. /\ Cardinality(EntryBytes(u)) <= Cardinality(EntryBytes(u)')
      /\ Cardinality(EntryBytes(u)) \in Nat /\ Cardinality(EntryBytes(u)') \in Nat
  BY Fewer DEF PendingFinite
<1>3. /\ Cardinality(PostedBytes(u)) <= Cardinality(PostedBytes(u)')
      /\ Cardinality(PostedBytes(u)) \in Nat /\ Cardinality(PostedBytes(u)') \in Nat
  BY Fewer DEF PendingFinite
<1>4. /\ Cardinality(WrittenBytes(u)) <= Cardinality(WrittenBytes(u)')
      /\ Cardinality(WrittenBytes(u)) \in Nat /\ Cardinality(WrittenBytes(u)') \in Nat
  BY Fewer DEF PendingFinite
<1> QED BY <1>1, <1>2, <1>3, <1>4 DEF Pending

\* Nothing is missing when the row is the same and what is pending grows as what
\* the user moves.
LEMMA LedgerStays ==
  ASSUME TypeOK, TypeOK', NEW u \in Users, PendingFinite(u), PendingFinite(u)',
         moved[u] <= forgiven[u] + rows[u].used + Pending(u),
         Pending(u)' >= Pending(u) + (moved'[u] - moved[u]),
         rows'[u].used = rows[u].used, forgiven'[u] = forgiven[u]
  PROVE  moved'[u] <= forgiven'[u] + rows'[u].used + Pending(u)'
<1>1. Pending(u) \in Nat /\ Pending(u)' \in Nat
  BY PendingType, PendingTypeNext
<1>2. forgiven[u] \in Int /\ moved[u] \in Int /\ moved'[u] \in Int /\ rows[u].used \in Int
  BY DEF TypeOK, AccountsTypeOK, Row
<1> QED BY <1>1, <1>2

\* A step of a node that moves no byte, keeps what its ports have counted and drops
\* no entry that would be charged.
LEMMA NodeStepLedger ==
  ASSUME TypeOK, TypeOK', NEW u \in Users, PendingFinite(u), PendingFinite(u)', Ledger(u),
         UNCHANGED <<accountVars, forgiven>>, moved'[u] = moved[u],
         \A n \in Nodes, p \in Ports : PortStep(n, u, p),
         \A n \in Nodes : report'[n].entries \subseteq report[n].entries,
         \A n \in Nodes : \A e \in report[n].entries :
            e.user = u /\ e.traffic # 0 => e \in report'[n].entries
  PROVE  Ledger(u)'
<1>t. StatsTypeOK /\ StatsTypeOK'
  BY DEF TypeOK
<1>1. CountedBytes(u) \subseteq CountedBytes(u)'
  <2> SUFFICES ASSUME NEW b \in CountedBytes(u) PROVE b \in CountedBytes(u)'
    OBVIOUS
  <2>1. b[1] \in Nodes /\ b[2] \in Ports
    BY DEF CountedBytes
  <2> QED BY <1>t, <2>1, CountedKept DEF Ledger
<1>2. EntryBytes(u) \subseteq EntryBytes(u)'
  <2> SUFFICES ASSUME NEW b \in Nodes \X Entry \X Nat, b[2] \in report[b[1]].entries,
                      b[2].user = u, b[3] \in 1..b[2].traffic
               PROVE  b[2] \in report'[b[1]].entries
    BY DEF EntryBytes
  <2>1. b[1] \in Nodes /\ b[2].traffic # 0
    OBVIOUS
  <2> QED BY <2>1
<1>3. PostedBytes(u)' = PostedBytes(u) /\ WrittenBytes(u)' = WrittenBytes(u)
  BY DEF PostedBytes, WrittenBytes, accountVars
<1>4. Pending(u)' >= Pending(u) /\ Pending(u) \in Nat /\ Pending(u)' \in Nat
  BY <1>1, <1>2, <1>3, PendingKept, PendingType, PendingTypeNext
<1>5. Pending(u)' >= Pending(u) + (moved'[u] - moved[u])
  BY <1>4 DEF TypeOK
<1>6. rows' = rows /\ adding' = adding /\ forgiven' = forgiven
  BY DEF accountVars
<1>7. moved'[u] <= forgiven'[u] + rows'[u].used + Pending(u)'
  BY <1>5, <1>6, LedgerStays DEF Ledger
<1>8. EntriesCounted(u)'
  BY <1>6 DEF Ledger, EntriesCounted
<1> QED BY <1>7, <1>8 DEF Ledger, PortStep

\* A byte is moved and counted.
LEMMA TransferLedger ==
  ASSUME TypeOK, TypeOK', PortsOwned, StoredTunnels, NEW u \in Users,
         PendingFinite(u), PendingFinite(u)', Ledger(u),
         NEW n \in Nodes, NEW t \in tunnels[n], Transfer(n, t), ~shortchanged'[u]
  PROVE  Ledger(u)'
<1>t. StatsTypeOK /\ StatsTypeOK' /\ t.user \in Users /\ t.port \in Ports
  BY DEF TypeOK, StatsTypeOK, Tunnel
<1>1. /\ UNCHANGED <<accountVars, forgiven, tunnels, report>> /\ CountByte(n, t)
      /\ moved' = [moved EXCEPT ![t.user] = @ + 1]
      /\ t.user = u => Recorded(n, t) /\ report[n].port # t.port
  BY DEF Transfer, CountByte, Shortchange
<1>2. PICK p \in Ports : p = t.port
  BY <1>t
<1>3. /\ \A m \in Nodes, q \in Ports : PortStep(m, u, q)
      /\ t.user = u => /\ connections[n][u] = p /\ connections' = connections
                       /\ Excess(n, p) \in Nat /\ Excess(n, p)' = Excess(n, p) + 1
  BY <1>t, <1>1, <1>2, CountBytePorts DEF Ledger
<1>4. EntryBytes(u)' = EntryBytes(u) /\ PostedBytes(u)' = PostedBytes(u)
      /\ WrittenBytes(u)' = WrittenBytes(u)
  BY <1>1 DEF EntryBytes, PostedBytes, WrittenBytes, accountVars
<1>5. rows' = rows /\ adding' = adding /\ forgiven' = forgiven
  BY <1>1 DEF accountVars
<1>6. moved[u] \in Int /\ moved'[u] = IF u = t.user THEN moved[u] + 1 ELSE moved[u]
  BY <1>1, <1>t DEF TypeOK
<1>7. CountedBytes(u) \subseteq CountedBytes(u)'
  <2> SUFFICES ASSUME NEW b \in CountedBytes(u) PROVE b \in CountedBytes(u)'
    OBVIOUS
  <2>1. b[1] \in Nodes /\ b[2] \in Ports
    BY DEF CountedBytes
  <2> QED BY <1>t, <1>3, <2>1, CountedKept DEF Ledger
<1>8. /\ Cardinality(EntryBytes(u)) \in Nat /\ Cardinality(PostedBytes(u)) \in Nat
      /\ Cardinality(WrittenBytes(u)) \in Nat
  BY FS_CardinalityType DEF PendingFinite
<1>9. Pending(u)' >= Pending(u) + (moved'[u] - moved[u])
  <2>1. CASE u # t.user
    <3>1. Pending(u)' >= Pending(u) /\ Pending(u) \in Nat /\ Pending(u)' \in Nat
      BY <1>4, <1>7, PendingKept, PendingType, PendingTypeNext
    <3> QED BY <1>6, <2>1, <3>1
  <2>2. CASE u = t.user
    <3>1. PICK d \in Nat : d = Excess(n, p)
      BY <1>3, <2>2
    <3> DEFINE x == <<n, p, d + 1>>
    <3>2. x \in CountedBytes(u)'
      <4>1. Claims(n, u, p)' /\ d + 1 \in 1..(Excess(n, p)')
        BY <1>3, <2>2, <3>1 DEF Claims
      <4> QED BY <3>1, <4>1 DEF CountedBytes
    <3>3. x \notin CountedBytes(u)
      <4>1. ~(d + 1 \in 1..Excess(n, p))
        BY <3>1
      <4> QED BY <4>1 DEF CountedBytes
    <3> HIDE DEF x
    <3>4. IsFiniteSet({x}) /\ Cardinality({x}) = 1
      BY FS_Singleton
    <3>5. /\ Cardinality(CountedBytes(u)) + 1 <= Cardinality(CountedBytes(u)')
          /\ Cardinality(CountedBytes(u)) \in Nat /\ Cardinality(CountedBytes(u)') \in Nat
      BY <1>7, <3>2, <3>3, <3>4, Parted DEF PendingFinite
    <3> QED BY <1>4, <1>6, <1>8, <2>2, <3>5 DEF Pending
  <2> QED BY <2>1, <2>2
<1>10. moved'[u] <= forgiven'[u] + rows'[u].used + Pending(u)'
  BY <1>5, <1>9, LedgerStays DEF Ledger
<1>11. EntriesCounted(u)'
  BY <1>1, <1>5 DEF Ledger, EntriesCounted
<1> QED BY <1>3, <1>10, <1>11 DEF Ledger, PortStep

\* The reporter makes an entry of what the port has counted.
LEMMA ReportDiffLedger ==
  ASSUME TypeOK, TypeOK', ReporterInv, PortsOwned, RoundInv, NEW u \in Users,
         PendingFinite(u), PendingFinite(u)', Ledger(u), NEW n \in Nodes, NEW v \in Users,
         ReportDiff(n, v), UNCHANGED <<accountVars, histories>>
  PROVE  Ledger(u)'
<1>r. report[n] \in Reporter /\ report \in [Nodes -> Reporter] /\ StatsTypeOK /\ StatsTypeOK'
  BY DEF TypeOK, StatsTypeOK
<1>1. PICK p \in Ports : p = report[n].todo[v] /\ p # NoPort
  BY <1>r, PortAssumption DEF ReportDiff, Reporter
<1>2. PICK d \in Int : d = Excess(n, p)
  BY <1>r, ExcessType
<1>3. report[n].port = NoPort /\ d = statsStore[n][p] - statsCache[n][p]
  BY <1>r, <1>1, <1>2 DEF ReportDiff, ReporterInv, Excess, Collected
<1> DEFINE e == [user |-> v, traffic |-> d]
<1>4. /\ report'[n].entries = report[n].entries \cup {e}
      /\ \A m \in Nodes \ {n} : report'[m] = report[m]
  BY <1>r, <1>1, <1>3 DEF ReportDiff, Reporter
<1>5. /\ \A m \in Nodes, q \in Ports : PortLedger(m, u, q)'
      /\ \A m \in Nodes, q \in Ports : (m # n \/ q # p \/ u # v) => PortStep(m, u, q)
  BY <1>r, <1>1, ReportDiffPorts DEF Ledger
<1>6. rows' = rows /\ adding' = adding /\ forgiven' = forgiven /\ moved' = moved
      /\ moved[u] \in Int
  BY DEF accountVars, histories, TypeOK
<1>7. PostedBytes(u)' = PostedBytes(u) /\ WrittenBytes(u)' = WrittenBytes(u)
  BY <1>6 DEF PostedBytes, WrittenBytes
<1>8. EntryBytes(u) \subseteq EntryBytes(u)'
  <2> SUFFICES ASSUME NEW b \in Nodes \X Entry \X Nat, b[2] \in report[b[1]].entries
               PROVE  b[2] \in report'[b[1]].entries
    BY DEF EntryBytes
  <2>1. b[1] \in Nodes
    OBVIOUS
  <2> QED BY <1>4, <2>1
<1>9. ASSUME NEW b \in CountedBytes(u), u = v => b[1] # n \/ b[2] # p
      PROVE  b \in CountedBytes(u)'
  <2>1. b[1] \in Nodes /\ b[2] \in Ports
    BY DEF CountedBytes
  <2>2. PortStep(b[1], u, b[2])
    BY <1>5, <1>9, <2>1
  <2> QED BY <1>r, <2>1, <2>2, CountedKept DEF Ledger
<1>10. u = v => d >= 0
  <2> SUFFICES ASSUME u = v PROVE d >= 0
    OBVIOUS
  <2>1. PortLedger(n, u, p) /\ Claims(n, u, p) /\ statsStore[n][p] \in Nat /\ statsCache[n][p] \in Nat
    BY <1>r, <1>1 DEF Ledger, Claims, ReportDiff, StatsTypeOK
  <2> QED BY <1>1, <1>3, <2>1 DEF PortLedger, Absent
<1>11. Pending(u)' >= Pending(u) /\ Pending(u)' \in Nat /\ Pending(u) \in Nat
  <2>1. CASE u # v
    <3>1. CountedBytes(u) \subseteq CountedBytes(u)'
      BY <1>9, <2>1
    <3> QED BY <1>7, <1>8, <3>1, PendingKept, PendingType, PendingTypeNext
  <2>2. CASE u = v
    <3> DEFINE B == Block(n, p, d)
               E == Block(n, e, d)
    <3>1. CountedBytes(u) \subseteq CountedBytes(u)' \cup B
      <4> SUFFICES ASSUME NEW b \in CountedBytes(u), b[1] = n, b[2] = p PROVE b \in B
        BY <1>9
      <4>1. b = <<n, p, b[3]>> /\ b[3] \in 1..Excess(b[1], b[2])
        BY DEF CountedBytes
      <4>2. b[3] \in 1..d
        BY <1>2, <4>1
      <4> QED BY <4>1, <4>2 DEF Block
    <3>2. E \subseteq EntryBytes(u)'
      <4> SUFFICES ASSUME NEW i \in 1..d PROVE <<n, e, i>> \in EntryBytes(u)'
        BY DEF Block
      <4>1. <<n, e, i>> \in Nodes \X Entry \X Nat
        BY DEF Entry
      <4>2. e \in report'[n].entries
        BY <1>4
      <4> QED BY <2>2, <4>1, <4>2 DEF EntryBytes
    <3>3. EntryBytes(u) \subseteq EntryBytes(u)' \ E
      <4> SUFFICES ASSUME NEW b \in EntryBytes(u), b \in E PROVE FALSE
        BY <1>8
      <4>1. b[1] = n /\ b[2] = e /\ b[2] \in report[b[1]].entries
        BY DEF Block, EntryBytes
      <4>2. e \in report[n].entries /\ e.user = v
        BY <4>1
      <4> QED BY <1>1, <4>2 DEF RoundInv
    <3>4. IsFiniteSet(B) /\ IsFiniteSet(E) /\ Cardinality(B) = Cardinality(E)
      BY <1>2, BlockSize
    <3> HIDE DEF B, E
    <3>5. /\ Cardinality(CountedBytes(u)) <= Cardinality(CountedBytes(u)') + Cardinality(B)
          /\ Cardinality(CountedBytes(u)) \in Nat /\ Cardinality(CountedBytes(u)') \in Nat
          /\ Cardinality(B) \in Nat
      BY <3>1, <3>4, Joined DEF PendingFinite
    <3>6. /\ Cardinality(EntryBytes(u)) + Cardinality(E) <= Cardinality(EntryBytes(u)')
          /\ Cardinality(EntryBytes(u)) \in Nat /\ Cardinality(EntryBytes(u)') \in Nat
      BY <3>2, <3>3, Parted DEF PendingFinite
    <3>7. Cardinality(PostedBytes(u)) \in Nat /\ Cardinality(WrittenBytes(u)) \in Nat
      BY FS_CardinalityType DEF PendingFinite
    <3> QED BY <1>7, <3>4, <3>5, <3>6, <3>7 DEF Pending
  <2> QED BY <2>1, <2>2
<1>12. Pending(u)' >= Pending(u) + (moved'[u] - moved[u])
  BY <1>6, <1>11
<1>13. moved'[u] <= forgiven'[u] + rows'[u].used + Pending(u)'
  BY <1>6, <1>12, LedgerStays DEF Ledger
<1>14. EntriesCounted(u)'
  <2>1. ASSUME NEW m \in Nodes, NEW f \in report'[m].entries, f.user = u PROVE f.traffic >= 0
    <3>1. CASE f = e
      BY <1>10, <2>1, <3>1
    <3>2. CASE f # e
      BY <1>4, <2>1, <3>2 DEF Ledger, EntriesCounted
    <3> QED BY <3>1, <3>2
  <2> QED BY <1>6, <2>1 DEF Ledger, EntriesCounted
<1> QED BY <1>5, <1>13, <1>14 DEF Ledger

\* The entries of a round are posted.
LEMMA ReportPostedLedger ==
  ASSUME TypeOK, TypeOK', ReporterInv, RowsInv, NEW u \in Users,
         PendingFinite(u), PendingFinite(u)', Ledger(u),
         NEW n \in Nodes, NEW h \in Handlers, ReportPosted(n, h)
  PROVE  Ledger(u)'
<1>r. report[n] \in Reporter /\ report \in [Nodes -> Reporter] /\ StatsTypeOK /\ StatsTypeOK'
      /\ adding \in [Handlers -> Adder]
  BY DEF TypeOK, StatsTypeOK, AccountsTypeOK
<1>1. /\ ReportEnd(n) /\ report'[n].entries = {}
      /\ \A m \in Nodes \ {n} : report'[m] = report[m]
  BY <1>r DEF ReportPosted, ReportEnd, NoReport
<1>2. /\ adding[h].pc = "idle" /\ adding[h].entries = {}
      /\ adding'[h].pc = "read" /\ adding'[h].entries = report[n].entries
      /\ \A g \in Handlers \ {h} : adding'[g] = adding[g]
  BY <1>r DEF ReportPosted, PostReport, NotAdding, RowsInv
<1>3. rows' = rows /\ forgiven' = forgiven /\ moved' = moved /\ moved[u] \in Int
  BY DEF ReportPosted, PostReport, histories, TypeOK
<1>4. \A m \in Nodes, q \in Ports : PortStep(m, u, q)
  BY <1>r, <1>1, ReportStepPorts DEF Ledger
<1>5. CountedBytes(u) \subseteq CountedBytes(u)'
  <2> SUFFICES ASSUME NEW b \in CountedBytes(u) PROVE b \in CountedBytes(u)'
    OBVIOUS
  <2>1. b[1] \in Nodes /\ b[2] \in Ports
    BY DEF CountedBytes
  <2> QED BY <1>r, <1>4, <2>1, CountedKept DEF Ledger
<1>6. WrittenBytes(u) \subseteq WrittenBytes(u)'
  <2> SUFFICES ASSUME NEW b \in Handlers \X Users \X Nat, adding[b[1]].pc = "write"
               PROVE  adding'[b[1]] = adding[b[1]]
    BY DEF WrittenBytes
  <2>1. b[1] \in Handlers /\ b[1] # h
    BY <1>2
  <2> QED BY <1>2, <2>1
<1> DEFINE D == {b \in EntryBytes(u) : b[1] = n}
           I == {b \in PostedBytes(u)' : b[1] = h}
<1>7. EntryBytes(u) \subseteq EntryBytes(u)' \cup D
  <2> SUFFICES ASSUME NEW b \in Nodes \X Entry \X Nat, b[2] \in report[b[1]].entries, b[1] # n
               PROVE  b[2] \in report'[b[1]].entries
    BY DEF EntryBytes
  <2>1. b[1] \in Nodes
    OBVIOUS
  <2> QED BY <1>1, <2>1
<1>8. I \subseteq PostedBytes(u)' /\ PostedBytes(u) \subseteq PostedBytes(u)' \ I
  <2> SUFFICES ASSUME NEW b \in Handlers \X Entry \X Nat, b[2] \in adding[b[1]].entries
               PROVE  b[2] \in adding'[b[1]].entries /\ b[1] # h
    BY DEF PostedBytes
  <2>1. b[1] \in Handlers
    OBVIOUS
  <2> QED BY <1>2, <2>1
<1>9. D \subseteq {<<n, b[2], b[3]>> : b \in I}
  <2> SUFFICES ASSUME NEW b \in Nodes \X Entry \X Nat, b[2] \in report[b[1]].entries,
                      b[2].user = u, b[3] \in 1..b[2].traffic, b[1] = n
               PROVE  \E c \in I : b = <<n, c[2], c[3]>>
    BY DEF EntryBytes
  <2> DEFINE c == <<h, b[2], b[3]>>
  <2>1. b[2] \in Entry /\ b[3] \in Nat /\ b = <<b[1], b[2], b[3]>>
    OBVIOUS
  <2>2. c \in Handlers \X Entry \X Nat /\ c[1] = h /\ c[2] = b[2] /\ c[3] = b[3]
    BY <2>1
  <2>3. b[2] \in adding'[h].entries
    BY <1>2
  <2>4. c \in I
    BY <2>2, <2>3 DEF PostedBytes
  <2> HIDE DEF c, I
  <2> QED BY <2>1, <2>2, <2>4
<1> HIDE DEF D, I
<1>10. /\ IsFiniteSet(I) /\ Cardinality(PostedBytes(u)) + Cardinality(I) <= Cardinality(PostedBytes(u)')
       /\ Cardinality(PostedBytes(u)) \in Nat /\ Cardinality(PostedBytes(u)') \in Nat
       /\ Cardinality(I) \in Nat
  BY <1>8, Parted DEF PendingFinite
<1>11. IsFiniteSet(D) /\ Cardinality(D) <= Cardinality(I) /\ Cardinality(D) \in Nat
  <2> DEFINE R == {<<n, b[2], b[3]>> : b \in I}
  <2>1. IsFiniteSet(R) /\ Cardinality(R) <= Cardinality(I)
    BY <1>10, Relabelled
  <2>2. D \subseteq R
    BY <1>9
  <2> HIDE DEF R
  <2>3. IsFiniteSet(D) /\ Cardinality(D) <= Cardinality(R)
        /\ Cardinality(R) \in Nat /\ Cardinality(D) \in Nat
    BY <2>1, <2>2, Fewer
  <2> QED BY <1>10, <2>1, <2>3
<1>12. /\ Cardinality(EntryBytes(u)) <= Cardinality(EntryBytes(u)') + Cardinality(D)
       /\ Cardinality(EntryBytes(u)) \in Nat /\ Cardinality(EntryBytes(u)') \in Nat
  BY <1>7, <1>11, Joined DEF PendingFinite
<1>13. /\ Cardinality(CountedBytes(u)) <= Cardinality(CountedBytes(u)')
       /\ Cardinality(CountedBytes(u)) \in Nat /\ Cardinality(CountedBytes(u)') \in Nat
  BY <1>5, Fewer DEF PendingFinite
<1>14. /\ Cardinality(WrittenBytes(u)) <= Cardinality(WrittenBytes(u)')
       /\ Cardinality(WrittenBytes(u)) \in Nat /\ Cardinality(WrittenBytes(u)') \in Nat
  BY <1>6, Fewer DEF PendingFinite
<1>15. Pending(u)' >= Pending(u) + (moved'[u] - moved[u])
  BY <1>3, <1>10, <1>11, <1>12, <1>13, <1>14 DEF Pending
<1>16. moved'[u] <= forgiven'[u] + rows'[u].used + Pending(u)'
  BY <1>3, <1>15, LedgerStays DEF Ledger
<1>17. EntriesCounted(u)'
  <2>1. \A m \in Nodes : report'[m].entries \subseteq report[m].entries
    BY <1>1
  <2>2. \A g \in Handlers : adding'[g] = adding[g]
           \/ (adding'[g].entries = report[n].entries /\ adding'[g].pc = "read")
    BY <1>2
  <2> QED BY <2>1, <2>2 DEF Ledger, EntriesCounted
<1> QED BY <1>4, <1>16, <1>17 DEF Ledger, PortStep

\* The ports and entries of the nodes stay when only rows change.
LEMMA NodesLedger ==
  ASSUME UNCHANGED <<proxyVars, statsVars>>, NEW u \in Users, Ledger(u)
  PROVE  /\ \A n \in Nodes, p \in Ports : PortLedger(n, u, p)'
         /\ \A n \in Nodes : \A e \in report'[n].entries : e.user = u => e.traffic >= 0
BY DEF Ledger, PortLedger, EntriesCounted, Claims, Excess, Collected, proxyVars, statsVars

\* AddTraffic reads the row of an entry.
LEMMA ReadUsedLedger ==
  ASSUME TypeOK, TypeOK', NEW u \in Users, PendingFinite(u), PendingFinite(u)', Ledger(u),
         NEW h \in Handlers, NEW e \in adding[h].entries, ReadUsed(h, e),
         UNCHANGED <<proxyVars, statsVars, moved, forgiven>>
  PROVE  Ledger(u)'
<1>a. adding[h] \in Adder /\ adding \in [Handlers -> Adder]
  BY DEF TypeOK, AccountsTypeOK
<1>1. e \in Entry /\ e.user \in Users /\ e.traffic \in Int
  BY <1>a DEF Adder, Entry
<1>2. /\ adding[h].pc = "read"
      /\ adding'[h].pc = "write" /\ adding'[h].user = e.user /\ adding'[h].traffic = e.traffic
      /\ adding'[h].entries = adding[h].entries \ {e}
      /\ \A g \in Handlers \ {h} : adding'[g] = adding[g]
      /\ rows' = rows /\ moved' = moved /\ forgiven' = forgiven
  BY <1>a DEF ReadUsed
<1>3. CountedBytes(u)' = CountedBytes(u) /\ EntryBytes(u)' = EntryBytes(u)
  BY NodesStay
<1> DEFINE B == IF u = e.user THEN Block(h, e, e.traffic) ELSE {}
           W == IF u = e.user THEN Block(h, u, e.traffic) ELSE {}
<1>4. IsFiniteSet(B) /\ IsFiniteSet(W) /\ Cardinality(B) = Cardinality(W)
  BY <1>1, BlockSize, FS_EmptySet
<1>5. PostedBytes(u) \subseteq PostedBytes(u)' \cup B
  <2> SUFFICES ASSUME NEW b \in Handlers \X Entry \X Nat, b[2] \in adding[b[1]].entries,
                      b[2].user = u, b[3] \in 1..b[2].traffic, b[2] \notin adding'[b[1]].entries
               PROVE  b \in B
    BY DEF PostedBytes
  <2>1. b[1] \in Handlers /\ b = <<b[1], b[2], b[3]>>
    OBVIOUS
  <2>2. b[1] = h /\ b[2] = e
    BY <1>2, <2>1
  <2>3. b = <<h, e, b[3]>> /\ b[3] \in 1..e.traffic /\ u = e.user
    BY <2>1, <2>2
  <2> QED BY <2>3 DEF Block
<1>6. W \subseteq WrittenBytes(u)'
  <2> SUFFICES ASSUME u = e.user, NEW i \in 1..e.traffic PROVE <<h, u, i>> \in WrittenBytes(u)'
    BY DEF Block
  <2>1. <<h, u, i>> \in Handlers \X Users \X Nat
    BY <1>1
  <2> QED BY <1>2, <2>1 DEF WrittenBytes
<1>7. WrittenBytes(u) \subseteq WrittenBytes(u)' \ W
  <2> SUFFICES ASSUME NEW b \in Handlers \X Users \X Nat, adding[b[1]].pc = "write"
               PROVE  adding'[b[1]] = adding[b[1]] /\ b \notin W
    BY DEF WrittenBytes
  <2>1. b[1] \in Handlers /\ b[1] # h
    BY <1>2
  <2>2. b \notin W
    BY <2>1 DEF Block
  <2> QED BY <1>2, <2>1, <2>2
<1> HIDE DEF B, W
<1>8. /\ Cardinality(PostedBytes(u)) <= Cardinality(PostedBytes(u)') + Cardinality(B)
      /\ Cardinality(PostedBytes(u)) \in Nat /\ Cardinality(PostedBytes(u)') \in Nat
      /\ Cardinality(B) \in Nat
  BY <1>4, <1>5, Joined DEF PendingFinite
<1>9. /\ Cardinality(WrittenBytes(u)) + Cardinality(W) <= Cardinality(WrittenBytes(u)')
      /\ Cardinality(WrittenBytes(u)) \in Nat /\ Cardinality(WrittenBytes(u)') \in Nat
  BY <1>6, <1>7, Parted DEF PendingFinite
<1>10. Cardinality(CountedBytes(u)) \in Nat /\ Cardinality(EntryBytes(u)) \in Nat
  BY FS_CardinalityType DEF PendingFinite
<1>11. Pending(u)' >= Pending(u) + (moved'[u] - moved[u])
  BY <1>2, <1>3, <1>4, <1>8, <1>9, <1>10 DEF Pending, TypeOK
<1>12. moved'[u] <= forgiven'[u] + rows'[u].used + Pending(u)'
  BY <1>2, <1>11, LedgerStays DEF Ledger
<1>13. EntriesCounted(u)'
  <2>1. e.user = u => e.traffic >= 0
    BY DEF Ledger, EntriesCounted
  <2>2. ASSUME NEW g \in Handlers
        PROVE  /\ \A f \in adding'[g].entries : f.user = u => f.traffic >= 0
               /\ adding'[g].pc = "write" /\ adding'[g].user = u => adding'[g].traffic >= 0
    <3>1. CASE g = h
      BY <1>2, <2>1, <3>1 DEF Ledger, EntriesCounted
    <3>2. CASE g # h
      BY <1>2, <3>2 DEF Ledger, EntriesCounted
    <3> QED BY <3>1, <3>2
  <2> QED BY <2>2, NodesLedger DEF EntriesCounted
<1> QED BY <1>12, <1>13, NodesLedger DEF Ledger

\* AddTraffic writes, and the row is still the one it has read.
LEMMA UpdateUsedLedger ==
  ASSUME TypeOK, TypeOK', NEW u \in Users, PendingFinite(u), PendingFinite(u)', Ledger(u),
         NEW h \in Handlers, UpdateUsed(h), UNCHANGED <<proxyVars, statsVars, moved, forgiven>>,
         ~(adding[h].user = u /\ rows[u].used # adding[h].read)
  PROVE  Ledger(u)'
<1> DEFINE next == IF adding[h].entries = {} THEN NotAdding
                   ELSE [NotAdding EXCEPT !.pc = "read", !.entries = adding[h].entries]
<1>a. adding[h] \in Adder /\ adding \in [Handlers -> Adder] /\ rows \in [Users -> Row]
  BY DEF TypeOK, AccountsTypeOK
<1>1. PICK w \in Users, d \in Int, r \in Int :
        w = adding[h].user /\ d = adding[h].traffic /\ r = adding[h].read
  BY <1>a DEF Adder
<1>n. next.pc # "write" /\ next.entries = adding[h].entries
  BY DEF NotAdding
<1>2. /\ adding[h].pc = "write" /\ adding' = [adding EXCEPT ![h] = next]
      /\ rows' = [rows EXCEPT ![w].used = r + d] /\ moved' = moved /\ forgiven' = forgiven
  BY <1>1 DEF UpdateUsed
<1> HIDE DEF next
<1>3. /\ adding'[h].pc # "write" /\ adding'[h].entries = adding[h].entries
      /\ \A g \in Handlers \ {h} : adding'[g] = adding[g]
  BY <1>a, <1>n, <1>2
<1>4. rows'[u].used = IF u = w THEN r + d ELSE rows[u].used
  BY <1>a, <1>2 DEF Row
<1>5. CountedBytes(u)' = CountedBytes(u) /\ EntryBytes(u)' = EntryBytes(u)
  BY NodesStay
<1>6. PostedBytes(u)' = PostedBytes(u)
  <2>1. \A g \in Handlers : adding'[g].entries = adding[g].entries
    BY <1>3
  <2> QED BY <2>1 DEF PostedBytes
<1>7. ASSUME NEW b \in WrittenBytes(u), u = w => b[1] # h PROVE b \in WrittenBytes(u)'
  <2>1. b[1] \in Handlers /\ adding[b[1]].user = u
    BY DEF WrittenBytes
  <2>2. b[1] # h
    BY <1>1, <1>7, <2>1
  <2>3. adding'[b[1]] = adding[b[1]]
    BY <1>3, <2>1, <2>2
  <2> QED BY <2>3 DEF WrittenBytes
<1>8. EntriesCounted(u)'
  <2>1. ASSUME NEW g \in Handlers
        PROVE  /\ \A f \in adding'[g].entries : f.user = u => f.traffic >= 0
               /\ adding'[g].pc = "write" /\ adding'[g].user = u => adding'[g].traffic >= 0
    <3>1. CASE g = h
      BY <1>3, <3>1 DEF Ledger, EntriesCounted
    <3>2. CASE g # h
      BY <1>3, <3>2 DEF Ledger, EntriesCounted
    <3> QED BY <3>1, <3>2
  <2> QED BY <2>1, NodesLedger DEF EntriesCounted
<1>9. moved'[u] <= forgiven'[u] + rows'[u].used + Pending(u)'
  <2>1. CASE u # w
    <3>1. Pending(u)' >= Pending(u) /\ Pending(u)' \in Nat /\ Pending(u) \in Nat
      BY <1>5, <1>6, <1>7, <2>1, PendingKept, PendingType, PendingTypeNext
    <3>2. Pending(u)' >= Pending(u) + (moved'[u] - moved[u])
      BY <1>2, <3>1 DEF TypeOK
    <3> QED BY <1>2, <1>4, <2>1, <3>2, LedgerStays DEF Ledger
  <2>2. CASE u = w
    <3> DEFINE W == Block(h, u, d)
    <3>1. WrittenBytes(u) \subseteq WrittenBytes(u)' \cup W
      <4> SUFFICES ASSUME NEW b \in WrittenBytes(u), b[1] = h PROVE b \in W
        BY <1>7
      <4>1. b = <<h, u, b[3]>> /\ b[3] \in 1..d
        BY <1>1 DEF WrittenBytes
      <4> QED BY <4>1 DEF Block
    <3>2. d >= 0
      BY <1>1, <1>2, <2>2 DEF Ledger, EntriesCounted
    <3>3. IsFiniteSet(W) /\ Cardinality(W) = d
      BY <3>2, BlockSize
    <3> HIDE DEF W
    <3>4. /\ Cardinality(WrittenBytes(u)) <= Cardinality(WrittenBytes(u)') + d
          /\ Cardinality(WrittenBytes(u)) \in Nat /\ Cardinality(WrittenBytes(u)') \in Nat
      BY <3>1, <3>3, Joined DEF PendingFinite
    <3>5. /\ Cardinality(CountedBytes(u)) \in Nat /\ Cardinality(EntryBytes(u)) \in Nat
          /\ Cardinality(PostedBytes(u)) \in Nat
      BY FS_CardinalityType DEF PendingFinite
    <3>6. Pending(u) <= Pending(u)' + d /\ Pending(u) \in Nat /\ Pending(u)' \in Nat
      BY <1>5, <1>6, <3>4, <3>5 DEF Pending
    <3>7. /\ rows[u].used = r /\ rows'[u].used = r + d
          /\ forgiven[u] \in Int /\ moved[u] \in Int
      BY <1>1, <1>4, <2>2 DEF TypeOK
    <3>8. moved[u] <= forgiven[u] + r + Pending(u)
      BY <3>7 DEF Ledger
    <3> QED BY <1>2, <3>6, <3>7, <3>8
  <2> QED BY <2>1, <2>2
<1> QED BY <1>8, <1>9, NodesLedger DEF Ledger

\* A report is lost, without anything for the user; a user signs up; a cycle begins.
LEMMA RowStepLedger ==
  ASSUME TypeOK, TypeOK', RowsInv, NEW u \in Users,
         PendingFinite(u), PendingFinite(u)', Ledger(u), ~shortchanged'[u],
         \/ \E h \in Handlers : ReportLost(h)
         \/ \E v \in Users : NewUser(v) \/ Renew(v)
         \/ PlanMonitor
  PROVE  Ledger(u)'
<1>a. adding \in [Handlers -> Adder] /\ rows \in [Users -> Row] /\ rows' \in [Users -> Row]
  BY DEF TypeOK, AccountsTypeOK
<1>n. NotAdding.pc = "idle" /\ NotAdding.entries = {}
  BY DEF NotAdding
<1>1. UNCHANGED <<proxyVars, statsVars, moved>>
  BY DEF ReportLost, NewUser, Renew, PlanMonitor, histories
<1>2. ASSUME NEW g \in Handlers
      PROVE  \/ adding'[g] = adding[g]
             \/ /\ adding'[g] = NotAdding
                /\ u \notin Charging(adding[g].entries)
                /\ ~(adding[g].pc = "write" /\ adding[g].user = u /\ adding[g].traffic # 0)
  BY <1>a, <1>2 DEF ReportLost, LoseReport, NewUser, Signup, Renew, SaveRenewed, PlanMonitor,
                    FindDue, Shortchange
<1>3. CountedBytes(u)' = CountedBytes(u) /\ EntryBytes(u)' = EntryBytes(u)
  BY <1>1, NodesStay
<1>4. PostedBytes(u) \subseteq PostedBytes(u)'
  <2> SUFFICES ASSUME NEW b \in Handlers \X Entry \X Nat, b[2] \in adding[b[1]].entries,
                      b[2].user = u, b[3] \in 1..b[2].traffic
               PROVE  b[2] \in adding'[b[1]].entries
    BY DEF PostedBytes
  <2>1. b[1] \in Handlers /\ b[2].traffic # 0
    OBVIOUS
  <2>2. u \in Charging(adding[b[1]].entries)
    BY <2>1 DEF Charging
  <2> QED BY <1>2, <2>1, <2>2
<1>5. WrittenBytes(u) \subseteq WrittenBytes(u)'
  <2> SUFFICES ASSUME NEW b \in Handlers \X Users \X Nat, adding[b[1]].pc = "write",
                      adding[b[1]].user = u, b[3] \in 1..adding[b[1]].traffic
               PROVE  adding'[b[1]] = adding[b[1]]
    BY DEF WrittenBytes
  <2>1. b[1] \in Handlers /\ adding[b[1]].traffic # 0
    OBVIOUS
  <2> QED BY <1>2, <2>1
<1>6. Pending(u)' >= Pending(u) /\ Pending(u)' \in Nat /\ Pending(u) \in Nat
  BY <1>3, <1>4, <1>5, PendingKept, PendingType, PendingTypeNext
<1>7. /\ forgiven[u] \in Int /\ moved[u] \in Int /\ rows[u].used \in Int
      /\ moved[u] <= forgiven[u] + rows[u].used + Pending(u)
  BY DEF TypeOK, AccountsTypeOK, Row, Ledger
<1>8. forgiven'[u] + rows'[u].used = forgiven[u] + rows[u].used
      /\ forgiven'[u] \in Int /\ rows'[u].used \in Int
  <2>1. CASE UNCHANGED <<rows, forgiven>>
    BY <1>7, <2>1
  <2>2. ASSUME NEW v \in Users, NewUser(v) PROVE rows'[u].used = rows[u].used /\ UNCHANGED forgiven
    BY <1>a, <2>2 DEF NewUser, Signup, RowsInv, histories
  <2>3. ASSUME NEW v \in Users, Renew(v)
        PROVE  \/ rows'[u].used = 0 /\ forgiven'[u] = forgiven[u] + rows[u].used
               \/ rows'[u].used = rows[u].used /\ forgiven'[u] = forgiven[u]
    BY <1>a, <2>3 DEF Renew, SaveRenewed, Row, TypeOK
  <2>4. CASE (\E h \in Handlers : ReportLost(h)) \/ PlanMonitor
    BY <2>1, <2>4 DEF ReportLost, LoseReport, PlanMonitor, FindDue, histories
  <2> QED BY <1>7, <2>2, <2>3, <2>4
<1>9. moved'[u] <= forgiven'[u] + rows'[u].used + Pending(u)'
  BY <1>1, <1>6, <1>7, <1>8
<1>10. EntriesCounted(u)'
  BY <1>1, <1>2, <1>n, NodesLedger DEF Ledger, EntriesCounted
<1> QED BY <1>1, <1>9, <1>10, NodesLedger DEF Ledger

-----------------------------------------------------------------------------
\* The reporter's round, after a step.
LEMMA RoundInvStep ==
  ASSUME StatsTypeOK, RoundInv, NEW n \in Nodes,
         \/ UNCHANGED report
         \/ StatsReset(n) \/ ReportSnapshot(n) \/ ReportCache(n) \/ ReportEnd(n)
         \/ \E u \in Users : ReportSkip(n, u) \/ ReportDiff(n, u)
  PROVE  RoundInv'
<1>r. report[n] \in Reporter /\ report \in [Nodes -> Reporter]
  BY DEF StatsTypeOK
<1> DEFINE Round(r) == /\ r.pc = "idle" => r.entries = {}
                       /\ \A u \in Users : r.todo[u] # NoPort => \A e \in r.entries : e.user # u
<1>i. \A m \in Nodes : Round(report[m])
  BY DEF RoundInv
<1> SUFFICES ASSUME report' # report PROVE \A m \in Nodes : Round(report'[m])
  BY <1>i DEF RoundInv
<1>1. ASSUME NEW r, report' = [report EXCEPT ![n] = r], Round(r)
      PROVE  \A m \in Nodes : Round(report'[m])
  BY <1>r, <1>i, <1>1
<1>2. CASE StatsReset(n) \/ ReportEnd(n)
  <2>1. Round(NoReport)
    BY DEF NoReport
  <2>2. report' = [report EXCEPT ![n] = NoReport]
    BY <1>2 DEF StatsReset, ReportEnd
  <2> HIDE DEF Round
  <2> QED BY <1>1, <2>1, <2>2
<1>3. CASE ReportSnapshot(n)
  <2> DEFINE r == [NoReport EXCEPT !.pc = "collect", !.todo = connections[n]]
  <2>1. r.entries = {} /\ r.pc = "collect"
    BY DEF NoReport
  <2>2. report' = [report EXCEPT ![n] = r]
    BY <1>3 DEF ReportSnapshot
  <2> HIDE DEF r
  <2>3. Round(r)
    BY <2>1
  <2> HIDE DEF Round
  <2> QED BY <1>1, <2>2, <2>3
<1>4. CASE ReportCache(n)
  <2> DEFINE r == [report[n] EXCEPT !.pc = "collect", !.port = NoPort, !.count = 0]
  <2>1. r.entries = report[n].entries /\ r.pc = "collect" /\ r.todo = report[n].todo
    BY <1>r DEF Reporter
  <2>2. report' = [report EXCEPT ![n] = r]
    BY <1>4 DEF ReportCache
  <2> HIDE DEF r
  <2>3. Round(r)
    BY <1>i, <2>1
  <2> HIDE DEF Round
  <2> QED BY <1>1, <2>2, <2>3
<1>5. ASSUME NEW u \in Users, ReportSkip(n, u) PROVE \A m \in Nodes : Round(report'[m])
  <2> DEFINE r == [report[n] EXCEPT !.todo[u] = NoPort]
  <2>1. r.entries = report[n].entries /\ r.pc = report[n].pc
        /\ \A v \in Users : r.todo[v] \in {NoPort, report[n].todo[v]}
    BY <1>r DEF Reporter
  <2>2. report' = [report EXCEPT ![n] = r]
    BY <1>5 DEF ReportSkip
  <2> HIDE DEF r
  <2>3. Round(r)
    BY <1>i, <2>1
  <2> HIDE DEF Round
  <2> QED BY <1>1, <2>2, <2>3
<1>6. ASSUME NEW u \in Users, ReportDiff(n, u) PROVE \A m \in Nodes : Round(report'[m])
  <2>1. PICK d : d = statsStore[n][report[n].todo[u]] - statsCache[n][report[n].todo[u]]
    OBVIOUS
  <2>2. report'[n].pc = "cache" /\ \A m \in Nodes \ {n} : report'[m] = report[m]
    BY <1>6, <1>r DEF ReportDiff, Reporter
  <2>t. report'[n].todo = [report[n].todo EXCEPT ![u] = NoPort]
    BY <1>6, <1>r DEF ReportDiff, Reporter
  <2>e. report'[n].entries = report[n].entries \cup {[user |-> u, traffic |-> d]}
    BY <1>6, <1>r, <2>1 DEF ReportDiff, Reporter
  <2>3. Round(report'[n])
    BY <1>i, <1>r, <2>2, <2>e, <2>t DEF Reporter
  <2> HIDE DEF Round
  <2> QED BY <1>i, <2>2, <2>3
<1> QED
  BY <1>2, <1>3, <1>4, <1>5, <1>6

\* The tunnels' statistics, after a step.
LEMMA StoredTunnelsStep ==
  ASSUME StatsTypeOK, StoredTunnels, NEW n \in Nodes,
         \/ UNCHANGED <<statsStore, tunnels>>
         \/ \E l \in listeners[n] : Accept(n, l)
         \/ \E t \in tunnels[n] : LoadOrStore(n, t) \/ CountByte(n, t) \/ CloseTunnel(n, t)
         \/ \E u \in Users : CloseProxy(n, u)
         \/ StatsReset(n)
  PROVE  StoredTunnels'
<1> USE DEF StatsTypeOK
<1>i. \A m \in Nodes : \A t \in tunnels[m] : t.stats = "stored" => statsStore[m][t.port] # -1
  BY DEF StoredTunnels, Absent
<1> SUFFICES ASSUME NEW m \in Nodes, NEW s \in tunnels'[m], s.stats = "stored"
             PROVE  statsStore'[m][s.port] # -1
  BY DEF StoredTunnels, Absent
<1>1. CASE UNCHANGED <<statsStore, tunnels>>
  BY <1>1, <1>i
<1>2. ASSUME NEW l \in listeners[n], Accept(n, l) PROVE statsStore'[m][s.port] # -1
  <2>1. s \in tunnels[m] /\ UNCHANGED statsStore
    BY <1>2 DEF Accept
  <2> QED BY <1>i, <2>1
<1>3. ASSUME NEW t \in tunnels[n], LoadOrStore(n, t) PROVE statsStore'[m][s.port] # -1
  <2>1. t \in Tunnel /\ t.port \in Ports /\ [t EXCEPT !.stats = "stored"].port = t.port
    BY DEF Tunnel
  <2>2. \A q \in Ports : statsStore'[m][q] = IF m = n /\ q = t.port /\ statsStore[m][q] = -1
                                              THEN 0 ELSE statsStore[m][q]
    BY <1>3, <2>1 DEF LoadOrStore, Absent
  <2>3. s \in tunnels[m] \/ (m = n /\ s = [t EXCEPT !.stats = "stored"])
    BY <1>3 DEF LoadOrStore
  <2>4. CASE s \in tunnels[m]
    <3>1. s.port \in Ports /\ statsStore[m][s.port] # -1
      BY <1>i, <2>4 DEF Tunnel
    <3> QED BY <2>2, <3>1
  <2>5. CASE m = n /\ s = [t EXCEPT !.stats = "stored"]
    BY <2>1, <2>2, <2>5
  <2> QED BY <2>3, <2>4, <2>5
<1>4. ASSUME NEW t \in tunnels[n], CountByte(n, t) PROVE statsStore'[m][s.port] # -1
  <2>1. t.port \in Ports /\ s \in tunnels[m] /\ s.port \in Ports
    BY <1>4 DEF CountByte, Tunnel
  <2>2. \/ statsStore'[m][s.port] = statsStore[m][s.port]
        \/ statsStore'[m][s.port] = statsStore[m][s.port] + 1
    BY <1>4, <2>1 DEF CountByte
  <2>3. statsStore[m][s.port] \in Nat
    BY <1>i, <2>1 DEF Absent
  <2> QED BY <2>2, <2>3
<1>5. ASSUME NEW t \in tunnels[n], CloseTunnel(n, t) PROVE statsStore'[m][s.port] # -1
  BY <1>5, <1>i DEF CloseTunnel
<1>6. ASSUME NEW u \in Users, CloseProxy(n, u) PROVE statsStore'[m][s.port] # -1
  <2>1. PICK p \in Ports : p = connections[n][u]
    BY <1>6 DEF CloseProxy, HasProxy, ProxiesTypeOK
  <2> DEFINE Left(t) == IF t.port = p /\ t.stats = "stored"
                        THEN [t EXCEPT !.stats = "deleted"] ELSE t
  <2>2. tunnels' = [tunnels EXCEPT ![n] = {Left(t) : t \in tunnels[n]}]
        /\ statsStore' = [statsStore EXCEPT ![n][p] = -1]
    BY <1>6, <2>1 DEF CloseProxy, Absent
  <2>3. s \in tunnels[m] /\ (m = n => s.port # p)
    <3>1. CASE m # n
      BY <2>2, <3>1
    <3>2. CASE m = n
      <4>1. PICK t \in tunnels[n] : s = Left(t)
        BY <2>2, <3>2
      <4>2. t \in Tunnel
        OBVIOUS
      <4>3. s = t /\ t.port # p
        BY <4>1, <4>2 DEF Tunnel
      <4> QED BY <3>2, <4>3
    <3> QED BY <3>1, <3>2
  <2>4. s.port \in Ports /\ statsStore[m][s.port] # -1
    BY <1>i, <2>3 DEF Tunnel
  <2> HIDE DEF Left
  <2> QED BY <2>2, <2>3, <2>4
<1>7. CASE StatsReset(n)
  <2>1. tunnels' = [tunnels EXCEPT ![n] = {}]
        /\ statsStore' = [statsStore EXCEPT ![n] = [p \in Ports |-> -1]]
    BY <1>7 DEF StatsReset, Absent
  <2>2. m # n
    BY <2>1
  <2>3. s \in tunnels[m] /\ statsStore'[m] = statsStore[m]
    BY <2>1, <2>2
  <2> QED BY <1>i, <2>3
<1> QED
  BY <1>1, <1>2, <1>3, <1>4, <1>5, <1>6, <1>7

\* The steps of a round up to its end leave the entries alone ...
LEMMA EntriesStay ==
  ASSUME StatsTypeOK, RoundInv, NEW n \in Nodes,
         \/ UNCHANGED report
         \/ ReportSnapshot(n) \/ ReportCache(n)
         \/ \E u \in Users : ReportSkip(n, u)
  PROVE  \A m \in Nodes : report'[m].entries = report[m].entries
<1>r. report[n] \in Reporter /\ report \in [Nodes -> Reporter]
  BY DEF StatsTypeOK
<1>1. CASE UNCHANGED report
  BY <1>1
<1>2. CASE ReportSnapshot(n)
  <2>1. report[n].entries = {}
    BY <1>2 DEF ReportSnapshot, RoundInv
  <2>2. [NoReport EXCEPT !.pc = "collect", !.todo = connections[n]].entries = {}
    BY DEF NoReport
  <2> QED BY <1>r, <1>2, <2>1, <2>2 DEF ReportSnapshot
<1>3. CASE ReportCache(n)
  BY <1>3, <1>r DEF ReportCache, Reporter
<1>4. ASSUME NEW u \in Users, ReportSkip(n, u)
      PROVE  \A m \in Nodes : report'[m].entries = report[m].entries
  <2>1. report' = [report EXCEPT ![n] = [report[n] EXCEPT !.todo[u] = NoPort]]
    BY <1>4 DEF ReportSkip
  <2>2. [report[n] EXCEPT !.todo[u] = NoPort].entries = report[n].entries
    BY <1>r DEF Reporter
  <2> QED BY <1>r, <2>1, <2>2
<1> QED
  BY <1>1, <1>2, <1>3, <1>4

\* ... which go when the round ends, or the node.
LEMMA EntriesGo ==
  ASSUME StatsTypeOK, NEW n \in Nodes, StatsReset(n) \/ ReportEnd(n)
  PROVE  /\ \A m \in Nodes \ {n} : report'[m].entries = report[m].entries
         /\ report'[n].entries = {}
<1>1. report' = [report EXCEPT ![n] = NoReport] /\ report \in [Nodes -> Reporter]
  BY DEF StatsReset, ReportEnd, StatsTypeOK
<1>2. NoReport.entries = {}
  BY DEF NoReport
<1> QED BY <1>1, <1>2

\* Every step keeps the invariant.
LEMMA LedgerInvStep ==
  ASSUME Reuse = FALSE, TypeOK, TypeOK', AccountingInv, AccountingInv', LedgerInv, [Next]_vars
  PROVE  LedgerInv'
<1>t. StatsTypeOK /\ StatsTypeOK' /\ shortchanged \in [Users -> BOOLEAN]
  BY DEF TypeOK
<1>i. /\ PortsRecorded /\ PortsOwned /\ ReporterInv /\ RowsInv /\ RoundInv /\ StoredTunnels
      /\ \A u \in Users : PendingFinite(u) /\ PendingFinite(u)'
  BY DEF AccountingInv, ChargesInv, LedgerInv
<1>l. \A u \in Users : ~shortchanged[u] =>
        Ledger(u) /\ \A n \in Nodes, p \in Ports : PortLedger(n, u, p)
  BY DEF LedgerInv, Ledger
<1>s. ASSUME NEW S, Shortchange(S), NEW u \in Users, ~shortchanged'[u]
      PROVE  ~shortchanged[u] /\ u \notin S
  BY <1>s DEF Shortchange
\* Steps of a node that make no entry.
<1>n. ASSUME NEW n \in Nodes, UNCHANGED <<accountVars, moved, forgiven>>,
             NEW u \in Users, ~shortchanged[u], \A m \in Nodes, q \in Ports : PortStep(m, u, q),
             \/ UNCHANGED report
             \/ ReportSnapshot(n) \/ ReportCache(n) \/ \E v \in Users : ReportSkip(n, v)
             \/ (StatsReset(n) \/ ReportEnd(n)) /\ u \notin Charging(report[n].entries)
      PROVE  Ledger(u)'
  <2>1. CASE (StatsReset(n) \/ ReportEnd(n)) /\ u \notin Charging(report[n].entries)
    <3>1. /\ \A m \in Nodes \ {n} : report'[m].entries = report[m].entries
          /\ report'[n].entries = {}
      BY <1>t, <2>1, EntriesGo
    <3>2. \A m \in Nodes : report'[m].entries \subseteq report[m].entries
      BY <3>1
    <3>3. \A m \in Nodes : \A e \in report[m].entries :
            e.user = u /\ e.traffic # 0 => e \in report'[m].entries
      BY <2>1, <3>1 DEF Charging
    <3> QED BY <1>i, <1>l, <1>n, <3>2, <3>3, NodeStepLedger
  <2>2. CASE \/ UNCHANGED report
             \/ ReportSnapshot(n) \/ ReportCache(n) \/ \E v \in Users : ReportSkip(n, v)
    <3>1. \A m \in Nodes : report'[m].entries = report[m].entries
      BY <1>t, <1>i, <2>2, EntriesStay
    <3>2. \A m \in Nodes : report'[m].entries \subseteq report[m].entries
      BY <3>1
    <3>3. \A m \in Nodes : \A e \in report[m].entries :
            e.user = u /\ e.traffic # 0 => e \in report'[m].entries
      BY <3>1
    <3> QED BY <1>i, <1>l, <1>n, <3>2, <3>3, NodeStepLedger
  <2> QED BY <1>n, <2>1, <2>2
<1>1. ASSUME NEW n \in Nodes, ClientConnects(n) \/ TunnelStarts(n) \/ ClientCloses(n)
      PROVE LedgerInv'
  <2>1. UNCHANGED <<accountVars, moved, forgiven>> /\ UNCHANGED report
    BY <1>1 DEF ClientConnects, TunnelStarts, ClientCloses, histories, Accept, LoadOrStore, CloseTunnel
  <2>2. RoundInv'
    BY <1>t, <1>i, <2>1, RoundInvStep
  <2>3. StoredTunnels'
    BY <1>t, <1>i, <1>1, StoredTunnelsStep DEF ClientConnects, TunnelStarts, ClientCloses
  <2>4. ASSUME NEW u \in Users, ~shortchanged'[u] PROVE Ledger(u)'
    <3>1. CASE ClientConnects(n) \/ ClientCloses(n)
      <4>1. ~shortchanged[u]
        BY <2>4, <3>1 DEF ClientConnects, ClientCloses, histories
      <4>2. \A m \in Nodes, q \in Ports : PortStep(m, u, q)
        BY <1>t, <1>i, <1>l, <3>1, <4>1, ProxyStepPorts DEF ClientConnects, ClientCloses
      <4> QED BY <1>n, <2>1, <4>1, <4>2
    <3>2. CASE TunnelStarts(n)
      <4>1. PICK t \in tunnels[n] :
              LoadOrStore(n, t)
              /\ Shortchange({v \in {t.user} : ~Recorded(n, t) /\ statsCache[n][t.port] # 0})
        BY <3>2 DEF TunnelStarts
      <4>2. ~shortchanged[u] /\ ~(t.user = u /\ ~Recorded(n, t) /\ statsCache[n][t.port] # 0)
        BY <1>s, <2>4, <4>1
      <4>3. \A m \in Nodes, q \in Ports : PortStep(m, u, q)
        BY <1>t, <1>i, <1>l, <4>1, <4>2, ProxyStepPorts
      <4> QED BY <1>n, <2>1, <4>2, <4>3
    <3> QED BY <1>1, <3>1, <3>2
  <2> QED BY <2>2, <2>3, <2>4 DEF LedgerInv
<1>2. ASSUME NEW n \in Nodes, NEW v \in Users, Disconnect(n, v) PROVE LedgerInv'
  <2>1. UNCHANGED <<accountVars, moved, forgiven>> /\ UNCHANGED report /\ CloseProxy(n, v)
        /\ Shortchange({w \in {v} : Uncollected(n, v) # 0})
    BY <1>2 DEF Disconnect, CloseProxy
  <2>2. RoundInv'
    BY <1>t, <1>i, <2>1, RoundInvStep
  <2>3. StoredTunnels'
    BY <1>t, <1>i, <2>1, StoredTunnelsStep
  <2>4. ASSUME NEW u \in Users, ~shortchanged'[u] PROVE Ledger(u)'
    <3>1. ~shortchanged[u] /\ ~(v = u /\ Uncollected(n, u) # 0)
      BY <1>s, <2>1, <2>4
    <3>2. \A m \in Nodes, q \in Ports : PortStep(m, u, q)
      BY <1>t, <1>i, <1>l, <2>1, <3>1, ProxyStepPorts
    <3> QED BY <1>n, <2>1, <3>1, <3>2
  <2> QED BY <2>2, <2>3, <2>4 DEF LedgerInv
<1>3. ASSUME NEW n \in Nodes, NEW v \in Users, NEW p \in Ports, Connect(n, v, p) PROVE LedgerInv'
  <2>1. UNCHANGED <<accountVars, moved, forgiven>> /\ UNCHANGED report /\ OpenProxy(n, v, p)
        /\ UNCHANGED <<statsStore, tunnels>> /\ Unmentioned(n, p)
        /\ Shortchange({w \in {v} : statsCache[n][p] # 0})
    BY <1>3 DEF Connect, OpenProxy, statsVars
  <2>2. RoundInv' /\ StoredTunnels'
    BY <1>t, <1>i, <2>1, RoundInvStep, StoredTunnelsStep
  <2>3. ASSUME NEW u \in Users, ~shortchanged'[u] PROVE Ledger(u)'
    <3>1. ~shortchanged[u] /\ ~(v = u /\ statsCache[n][p] # 0)
      BY <1>s, <2>1, <2>3
    <3>2. \A m \in Nodes, q \in Ports : PortStep(m, u, q)
      BY <1>t, <1>i, <1>l, <2>1, <3>1, ConnectPorts
    <3> QED BY <1>n, <2>1, <3>1, <3>2
  <2> QED BY <2>2, <2>3 DEF LedgerInv
<1>4. ASSUME NEW n \in Nodes, NEW t \in tunnels[n], Transfer(n, t) PROVE LedgerInv'
  <2>1. UNCHANGED report /\ CountByte(n, t) /\ \A u \in Users : ~shortchanged'[u] => ~shortchanged[u]
    BY <1>s, <1>4 DEF Transfer, CountByte
  <2>2. RoundInv' /\ StoredTunnels'
    BY <1>t, <1>i, <2>1, RoundInvStep, StoredTunnelsStep
  <2>3. ASSUME NEW u \in Users, ~shortchanged'[u] PROVE Ledger(u)'
    BY <1>i, <1>l, <1>4, <2>1, <2>3, TransferLedger
  <2> QED BY <2>2, <2>3 DEF LedgerInv
<1>5. ASSUME NEW n \in Nodes, NEW t \in tunnels[n], TransferRaces(n, t) PROVE LedgerInv'
  <2>1. UNCHANGED <<accountVars, forgiven>> /\ Shortchange({t.user}) /\ CountStale(n, t)
        /\ moved' = [moved EXCEPT ![t.user] = @ + 1] /\ t.user \in Users /\ t.port \in Ports
    BY <1>5 DEF TransferRaces, TypeOK, StatsTypeOK, Tunnel
  <2>2. /\ UNCHANGED <<proxyVars, statsCache, tunnels, report>>
        /\ \A m \in Nodes, q \in Ports :
             \/ statsStore'[m][q] = statsStore[m][q]
             \/ m = n /\ q = t.port /\ statsStore'[m][q] \in 1..statsStore[m][q]
    BY <1>t, <2>1, StaleCount
  <2>3. RoundInv'
    BY <1>i, <2>2 DEF RoundInv
  <2>4. StoredTunnels'
    <3> SUFFICES ASSUME NEW m \in Nodes, NEW s \in tunnels[m], s.stats = "stored"
                 PROVE  statsStore'[m][s.port] # -1
      BY <2>2 DEF StoredTunnels, Absent
    <3>1. s.port \in Ports /\ statsStore[m][s.port] # -1
      BY <1>t, <1>i DEF StoredTunnels, Absent, StatsTypeOK, Tunnel
    <3> QED BY <2>2, <3>1
  <2>5. ASSUME NEW u \in Users, ~shortchanged'[u] PROVE Ledger(u)'
    <3>1. ~shortchanged[u] /\ u # t.user
      BY <1>s, <2>1, <2>5
    <3>2. moved'[u] = moved[u]
      BY <2>1, <3>1 DEF TypeOK
    <3>3. Claims(n, t.user, t.port)
      BY DEF Claims
    <3>4. ~Claims(n, u, t.port)
      BY <1>i, <2>1, <3>1, <3>3 DEF PortsOwned
    <3>5. ASSUME NEW m \in Nodes, NEW q \in Ports PROVE PortStep(m, u, q)
      <4>1. Claims(m, u, q)' = Claims(m, u, q) /\ connections' = connections
        BY <2>2 DEF Claims, proxyVars
      <4>2. CASE m = n /\ q = t.port
        <5>1. connections[m][u] # q /\ ~Claims(m, u, q)'
          BY <3>4, <4>1, <4>2 DEF Claims
        <5> QED BY <5>1, OthersPort
      <4>3. CASE ~(m = n /\ q = t.port)
        <5>1. statsStore'[m][q] = statsStore[m][q] /\ PortLedger(m, u, q)
          BY <1>l, <2>2, <3>1, <4>3
        <5> QED BY <1>t, <2>2, <4>1, <5>1, PortKept
      <4> QED BY <4>2, <4>3
    <3> QED BY <1>i, <1>l, <2>1, <2>2, <3>1, <3>2, <3>5, NodeStepLedger
  <2> QED BY <2>3, <2>4, <2>5 DEF LedgerInv
<1>6. ASSUME NEW n \in Nodes, ReportRound(n) PROVE LedgerInv'
  <2>1. UNCHANGED <<accountVars, moved, forgiven>> /\ UNCHANGED <<accountVars, histories>>
        /\ UNCHANGED <<statsStore, tunnels>> /\ shortchanged' = shortchanged
    BY <1>6 DEF ReportRound, histories, ReportSnapshot, ReportSkip, ReportDiff, ReportCache, ReportEnd
  <2>2. RoundInv' /\ StoredTunnels'
    BY <1>t, <1>i, <1>6, <2>1, RoundInvStep, StoredTunnelsStep DEF ReportRound
  <2>3. ASSUME NEW u \in Users, ~shortchanged[u] PROVE Ledger(u)'
    <3>1. ASSUME NEW v \in Users, ReportDiff(n, v) PROVE Ledger(u)'
      BY <1>i, <1>l, <2>1, <2>3, <3>1, ReportDiffLedger
    <3>2. CASE \/ ReportSnapshot(n) \/ ReportCache(n) \/ \E v \in Users : ReportSkip(n, v)
               \/ report[n].entries = {} /\ ReportEnd(n)
      <4>1. \A m \in Nodes, q \in Ports : PortStep(m, u, q)
        BY <1>t, <1>i, <1>l, <2>3, <3>2, ReportStepPorts
      <4>2. report[n].entries = {} => u \notin Charging(report[n].entries)
        BY DEF Charging
      <4> QED BY <1>n, <2>1, <2>3, <3>2, <4>1, <4>2
    <3> QED BY <1>6, <3>1, <3>2 DEF ReportRound
  <2> QED BY <2>1, <2>2, <2>3 DEF LedgerInv
<1>7. ASSUME NEW n \in Nodes, ReportDropped(n) \/ NodeRestart(n) PROVE LedgerInv'
  <2>1. UNCHANGED <<accountVars, moved, forgiven>> /\ (ReportEnd(n) \/ StatsReset(n))
    BY <1>7 DEF ReportDropped, NodeRestart
  <2>2. RoundInv'
    BY <1>t, <1>i, <2>1, RoundInvStep
  <2>3. StoredTunnels'
    BY <1>t, <1>i, <2>1, StoredTunnelsStep DEF ReportEnd
  <2>4. ASSUME NEW u \in Users, ~shortchanged'[u] PROVE Ledger(u)'
    <3>1. CASE ReportDropped(n)
      <4>1. ~shortchanged[u] /\ ReportEnd(n) /\ u \notin Charging(report[n].entries)
        BY <1>s, <2>4, <3>1 DEF ReportDropped
      <4>2. \A m \in Nodes, q \in Ports : PortStep(m, u, q)
        BY <1>t, <1>i, <1>l, <4>1, ReportStepPorts
      <4> QED BY <1>n, <2>1, <4>1, <4>2
    <3>2. CASE NodeRestart(n)
      <4>1. ~shortchanged[u] /\ StatsReset(n) /\ u \notin Charging(report[n].entries)
            /\ Uncollected(n, u) = 0
        BY <1>s, <2>4, <3>2 DEF NodeRestart
      <4>2. \A m \in Nodes, q \in Ports : PortStep(m, u, q)
        BY <1>t, <1>i, <1>l, <4>1, ProxyStepPorts
      <4> QED BY <1>n, <2>1, <4>1, <4>2
    <3> QED BY <1>7, <3>1, <3>2
  <2> QED BY <2>2, <2>3, <2>4 DEF LedgerInv
<1>8. ASSUME NEW n \in Nodes, NEW h \in Handlers, ReportPosted(n, h) PROVE LedgerInv'
  <2>1. ReportEnd(n) /\ shortchanged' = shortchanged /\ UNCHANGED <<statsStore, tunnels>>
    BY <1>8 DEF ReportPosted, ReportEnd, histories
  <2>2. RoundInv' /\ StoredTunnels'
    BY <1>t, <1>i, <2>1, RoundInvStep, StoredTunnelsStep
  <2>3. ASSUME NEW u \in Users, ~shortchanged[u] PROVE Ledger(u)'
    BY <1>i, <1>l, <1>8, <2>3, ReportPostedLedger
  <2> QED BY <2>1, <2>2, <2>3 DEF LedgerInv
<1>9. ASSUME NEW h \in Handlers, AddTraffic(h) PROVE LedgerInv'
  <2>1. UNCHANGED <<proxyVars, statsVars, moved, forgiven>>
    BY <1>9 DEF AddTraffic
  <2>2. RoundInv' /\ StoredTunnels'
    BY <1>i, <2>1 DEF RoundInv, StoredTunnels, statsVars
  <2>3. ASSUME NEW u \in Users, ~shortchanged'[u] PROVE Ledger(u)'
    <3>1. ASSUME NEW e \in adding[h].entries, ReadUsed(h, e), UNCHANGED shortchanged PROVE Ledger(u)'
      BY <1>i, <1>l, <2>1, <2>3, <3>1, ReadUsedLedger
    <3>2. ASSUME UpdateUsed(h), Shortchange({v \in {adding[h].user} :
                                               rows[adding[h].user].used # adding[h].read})
          PROVE  Ledger(u)'
      <4>1. ~shortchanged[u] /\ ~(adding[h].user = u /\ rows[u].used # adding[h].read)
        BY <1>s, <2>3, <3>2
      <4> QED BY <1>i, <1>l, <2>1, <3>2, <4>1, UpdateUsedLedger
    <3> QED BY <1>9, <3>1, <3>2 DEF AddTraffic
  <2> QED BY <2>2, <2>3 DEF LedgerInv
<1>10. ASSUME \/ \E h \in Handlers : ReportLost(h)
              \/ \E u \in Users : NewUser(u) \/ Renew(u)
              \/ PlanMonitor
       PROVE  LedgerInv'
  <2>1. UNCHANGED <<proxyVars, statsVars>>
    BY <1>10 DEF ReportLost, NewUser, Renew, PlanMonitor
  <2>2. RoundInv' /\ StoredTunnels'
    BY <1>i, <2>1 DEF RoundInv, StoredTunnels, statsVars
  <2>3. ASSUME NEW u \in Users, ~shortchanged'[u] PROVE Ledger(u)'
    <3>1. ~shortchanged[u]
      BY <1>s, <1>10, <2>3 DEF ReportLost, NewUser, Renew, PlanMonitor, histories
    <3> QED BY <1>i, <1>l, <1>10, <2>3, <3>1, RowStepLedger
  <2> QED BY <2>2, <2>3 DEF LedgerInv
<1>11. CASE UNCHANGED vars
  <2>1. UNCHANGED <<proxyVars, statsVars, accountVars>>
        /\ UNCHANGED <<adding, rows, moved, forgiven, shortchanged>>
    BY <1>11 DEF vars, histories, accountVars
  <2>2. RoundInv' /\ StoredTunnels'
    BY <1>i, <2>1 DEF RoundInv, StoredTunnels, statsVars
  <2>3. ASSUME NEW u \in Users, ~shortchanged[u] PROVE Ledger(u)'
    <3>1. CountedBytes(u)' = CountedBytes(u) /\ EntryBytes(u)' = EntryBytes(u)
      BY <2>1, NodesStay
    <3>2. Pending(u)' = Pending(u)
      BY <2>1, <3>1 DEF Pending, PostedBytes, WrittenBytes
    <3>3. EntriesCounted(u)'
      BY <1>l, <2>1, <2>3, NodesLedger DEF Ledger, EntriesCounted
    <3> QED BY <1>l, <2>1, <2>3, <3>2, <3>3, NodesLedger DEF Ledger
  <2> QED BY <2>1, <2>2, <2>3 DEF LedgerInv
<1> QED
  BY <1>1, <1>2, <1>3, <1>4, <1>5, <1>6, <1>7, <1>8, <1>9, <1>10, <1>11 DEF Next

\* At the start nothing has been counted.
LEMMA InitLedgerInv == Init => LedgerInv
<1> SUFFICES ASSUME Init PROVE LedgerInv
  OBVIOUS
<1> USE DEF Init, NodeProxiesInit, TrafficStatsInit, AccountsInit
<1>n. /\ NoReport.port = NoPort /\ NoReport.entries = {}
      /\ \A v \in Users : NoReport.todo[v] = NoPort
      /\ NotAdding.pc = "idle" /\ NotAdding.entries = {} /\ NoRow.used = 0
  BY DEF NoReport, NotAdding, NoRow
<1>1. RoundInv /\ StoredTunnels
  BY <1>n DEF RoundInv, StoredTunnels
<1>2. \A n \in Nodes, u \in Users, p \in Ports : ~Claims(n, u, p)
  BY <1>n, PortAssumption DEF Claims
<1>3. ASSUME NEW u \in Users PROVE Ledger(u)
  <2>1. \A n \in Nodes, p \in Ports : PortLedger(n, u, p)
    BY <1>2 DEF PortLedger, Claims
  <2>2. EntriesCounted(u)
    BY <1>n DEF EntriesCounted
  <2>3. CountedBytes(u) = {}
    BY <1>2 DEF CountedBytes
  <2>4. EntryBytes(u) = {} /\ PostedBytes(u) = {} /\ WrittenBytes(u) = {}
    BY <1>n DEF EntryBytes, PostedBytes, WrittenBytes
  <2>5. Pending(u) = 0
    BY <2>3, <2>4, FS_EmptySet DEF Pending
  <2> QED BY <1>n, <2>1, <2>2, <2>5 DEF Ledger
<1> QED BY <1>1, <1>3 DEF LedgerInv

-----------------------------------------------------------------------------
\* The entries that holders have of user u, byte by byte.
LEMMA EntryBlocksBytes ==
  ASSUME NEW H, NEW E, NEW u \in Users, \A h \in H : E[h] \subseteq Entry
  PROVE  UNION {EntryBlocks(h, u, E[h]) : h \in H} =
           {b \in H \X Entry \X Nat : b[2] \in E[b[1]] /\ b[2].user = u /\ b[3] \in 1..b[2].traffic}
<1> DEFINE L == UNION {EntryBlocks(h, u, E[h]) : h \in H}
           R == {b \in H \X Entry \X Nat :
                   b[2] \in E[b[1]] /\ b[2].user = u /\ b[3] \in 1..b[2].traffic}
<1>1. ASSUME NEW b \in L PROVE b \in R
  <2>1. PICK h \in H : b \in EntryBlocks(h, u, E[h])
    OBVIOUS
  <2>2. PICK e \in E[h] : e.user = u /\ b \in Block(h, e, e.traffic)
    BY <2>1 DEF EntryBlocks
  <2>3. PICK i \in 1..e.traffic : b = <<h, e, i>>
    BY <2>2 DEF Block
  <2>4. e \in Entry /\ e.traffic \in Int /\ i \in Nat
    BY DEF Entry
  <2> QED BY <2>2, <2>3, <2>4
<1>2. ASSUME NEW b \in R PROVE b \in L
  <2>1. PICK h \in H, e \in Entry, i \in Nat :
          b = <<h, e, i>> /\ e \in E[h] /\ e.user = u /\ i \in 1..e.traffic
    OBVIOUS
  <2>2. b \in Block(h, e, e.traffic)
    BY <2>1 DEF Block
  <2>3. b \in EntryBlocks(h, u, E[h])
    BY <2>1, <2>2 DEF EntryBlocks
  <2> QED BY <2>3
<1> QED BY <1>1, <1>2

\* What is on the way to the row of a user whose ledger is in order is what
\* the invariant collects: the user's other ports have counted nothing.
LEMMA OnTheWayPending ==
  ASSUME TypeOK, NEW u \in Users, \A n \in Nodes, p \in Ports : PortLedger(n, u, p)
  PROVE  OnTheWay(u) = Pending(u)
<1>t. /\ connections \in [Nodes -> [Users -> Ports \cup {NoPort}]]
      /\ \A n \in Nodes, p \in Ports : statsStore[n][p] \in Nat \cup {-1}
      /\ \A n \in Nodes : report[n] \in Reporter
      /\ \A h \in Handlers : adding[h] \in Adder
      /\ StatsTypeOK
  BY DEF TypeOK, StatsTypeOK, ProxiesTypeOK, AccountsTypeOK, Absent
<1> DEFINE C == UNION {Block(n, connections[n][u], Uncollected(n, u)) : n \in Nodes}
           W == UNION {Block(h, u, adding[h].traffic) : h \in
                        {g \in Handlers : adding[g].pc = "write" /\ adding[g].user = u}}
<1>1. C = CountedBytes(u)
  <2>1. ASSUME NEW b \in C PROVE b \in CountedBytes(u)
    <3>1. PICK n \in Nodes : b \in Block(n, connections[n][u], Uncollected(n, u))
      OBVIOUS
    <3>2. PICK i \in 1..Uncollected(n, u) : b = <<n, connections[n][u], i>>
      BY <3>1 DEF Block
    <3>3. PICK p : p = connections[n][u]
      OBVIOUS
    <3>4. Uncollected(n, u) # 0
      BY <3>2
    <3>5. p # NoPort
      BY <3>3, <3>4 DEF Uncollected
    <3>6. p \in Ports
      BY <1>t, <3>3, <3>5
    <3>7. Uncollected(n, u) = Excess(n, p) /\ Claims(n, u, p) /\ Excess(n, p) \in Int
      BY <1>t, <3>3, <3>4, <3>6, UncollectedExcess, ExcessType DEF Claims
    <3>8. b = <<n, p, i>> /\ i \in 1..Excess(n, p) /\ i \in Nat
      BY <3>2, <3>3, <3>7
    <3> QED BY <3>6, <3>7, <3>8 DEF CountedBytes
  <2>2. ASSUME NEW b \in CountedBytes(u) PROVE b \in C
    <3>1. PICK n \in Nodes, p \in Ports, i \in Nat :
            b = <<n, p, i>> /\ Claims(n, u, p) /\ i \in 1..Excess(n, p)
      BY <2>2 DEF CountedBytes
    <3>2. Excess(n, p) \in Int /\ Collected(n, p) \in Nat
      BY <1>t, ExcessType
    <3>3. Excess(n, p) > 0
      BY <3>1, <3>2
    <3>4. connections[n][u] = p
      BY <3>1, <3>2, <3>3 DEF PortLedger
    <3>5. statsStore[n][p] # -1
      BY <3>2, <3>3 DEF Excess
    <3>6. Uncollected(n, u) = Excess(n, p)
      BY <3>4, <3>5, UncollectedExcess DEF Absent
    <3>7. b \in Block(n, connections[n][u], Uncollected(n, u))
      BY <3>1, <3>4, <3>6 DEF Block
    <3> QED BY <3>7
  <2> QED BY <2>1, <2>2
<1>2. UNION {EntryBlocks(n, u, report[n].entries) : n \in Nodes} = EntryBytes(u)
  <2> DEFINE E == [n \in Nodes |-> report[n].entries]
  <2>1. \A n \in Nodes : E[n] = report[n].entries /\ E[n] \subseteq Entry
    BY <1>t DEF Reporter
  <2>s. \A n \in Nodes : E[n] \subseteq Entry
    BY <2>1
  <2> HIDE DEF E
  <2>2. UNION {EntryBlocks(n, u, E[n]) : n \in Nodes} =
          {b \in Nodes \X Entry \X Nat : b[2] \in E[b[1]] /\ b[2].user = u /\ b[3] \in 1..b[2].traffic}
    BY <2>s, EntryBlocksBytes
  <2>3. {EntryBlocks(n, u, report[n].entries) : n \in Nodes} = {EntryBlocks(n, u, E[n]) : n \in Nodes}
    BY <2>1
  <2>4. EntryBytes(u) =
          {b \in Nodes \X Entry \X Nat : b[2] \in E[b[1]] /\ b[2].user = u /\ b[3] \in 1..b[2].traffic}
    BY <2>1 DEF EntryBytes
  <2> QED BY <2>2, <2>3, <2>4
<1>3. UNION {EntryBlocks(h, u, adding[h].entries) : h \in Handlers} = PostedBytes(u)
  <2> DEFINE E == [h \in Handlers |-> adding[h].entries]
  <2>1. \A h \in Handlers : E[h] = adding[h].entries /\ E[h] \subseteq Entry
    BY <1>t DEF Adder, Entry
  <2>s. \A h \in Handlers : E[h] \subseteq Entry
    BY <2>1
  <2> HIDE DEF E
  <2>2. UNION {EntryBlocks(h, u, E[h]) : h \in Handlers} =
          {b \in Handlers \X Entry \X Nat : b[2] \in E[b[1]] /\ b[2].user = u /\ b[3] \in 1..b[2].traffic}
    BY <2>s, EntryBlocksBytes
  <2>3. {EntryBlocks(h, u, adding[h].entries) : h \in Handlers} = {EntryBlocks(h, u, E[h]) : h \in Handlers}
    BY <2>1
  <2>4. PostedBytes(u) =
          {b \in Handlers \X Entry \X Nat : b[2] \in E[b[1]] /\ b[2].user = u /\ b[3] \in 1..b[2].traffic}
    BY <2>1 DEF PostedBytes
  <2> QED BY <2>2, <2>3, <2>4
<1>4. W = WrittenBytes(u)
  <2>1. ASSUME NEW b \in W PROVE b \in WrittenBytes(u)
    <3>1. PICK h \in Handlers : /\ adding[h].pc = "write" /\ adding[h].user = u
                                /\ b \in Block(h, u, adding[h].traffic)
      OBVIOUS
    <3>2. PICK i \in 1..adding[h].traffic : b = <<h, u, i>>
      BY <3>1 DEF Block
    <3>3. i \in Nat
      BY <1>t, <3>2 DEF Adder
    <3> QED BY <3>1, <3>2, <3>3 DEF WrittenBytes
  <2>2. ASSUME NEW b \in WrittenBytes(u) PROVE b \in W
    <3>1. PICK h \in Handlers, i \in Nat :
            b = <<h, u, i>> /\ adding[h].pc = "write" /\ adding[h].user = u /\ i \in 1..adding[h].traffic
      BY <2>2 DEF WrittenBytes
    <3>2. b \in Block(h, u, adding[h].traffic)
      BY <3>1 DEF Block
    <3> QED BY <3>1, <3>2
  <2> QED BY <2>1, <2>2
<1> QED BY <1>1, <1>2, <1>3, <1>4 DEF OnTheWay, Pending

\* No byte goes astray but by the named losses (node/server.go:295-334,
\* controllers.go:464-489): whatever a user who was not hit by one has moved is
\* charged or on its way, to the byte.  It takes two invariants: that the
\* rows and what is pending never add up to more than was moved, and for these
\* users never to less.
THEOREM AlwaysEveryByteAccounted ==
  ASSUME Reuse = FALSE, Overtaking = FALSE
  PROVE  Spec => []EveryByteAccounted
<1>1. TypeOK /\ TypeOK' /\ AccountingInv /\ [Next]_vars => AccountingInv'
  BY AccountingInvStep
<1>2. Spec => []TypeOK
  BY TypeCorrect
<1>3. TypeOK /\ TypeOK' /\ AccountingInv /\ AccountingInv' /\ LedgerInv /\ [Next]_vars => LedgerInv'
  BY LedgerInvStep
<1>4. TypeOK /\ AccountingInv /\ LedgerInv => EveryByteAccounted
  <2> SUFFICES ASSUME TypeOK, AccountingInv, LedgerInv, NEW u \in Users, ~shortchanged[u]
               PROVE  Charged(u) + OnTheWay(u) = moved[u]
    BY DEF EveryByteAccounted
  <2>1. PendingFinite(u) /\ forgiven[u] + rows[u].used + Pending(u) <= moved[u]
    BY DEF AccountingInv, ChargesInv, ChargesBounded
  <2>2. /\ moved[u] <= forgiven[u] + rows[u].used + Pending(u)
        /\ \A n \in Nodes, p \in Ports : PortLedger(n, u, p)
    BY DEF LedgerInv, Ledger
  <2>3. Pending(u) \in Nat /\ forgiven[u] \in Int /\ rows[u].used \in Int /\ moved[u] \in Int
    BY <2>1, PendingType DEF TypeOK, AccountsTypeOK, Row
  <2>4. OnTheWay(u) = Pending(u)
    BY <2>2, OnTheWayPending
  <2> QED BY <2>1, <2>2, <2>3, <2>4 DEF Charged
<1> QED BY <1>1, <1>2, <1>3, <1>4, InitAccountingInv, InitLedgerInv, PTL DEF Spec
=============================================================================
