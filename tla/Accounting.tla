----------------------------- MODULE Accounting -----------------------------
(***************************************************************************)
(* From the byte that passes a proxy to the row that is charged for it:    *)
(* nodes count and report, the web service adds the reports to the rows    *)
(* and the plan monitor starts each cycle at 0.                            *)
(*                                                                         *)
(* Three histories say what should have been charged: moved counts a       *)
(* user's bytes, forgiven what renewals have wiped off its row, and        *)
(* shortchanged marks the users of whose bytes some were lost on the way.  *)
(***************************************************************************)
EXTENDS TrafficStats, Accounts, FiniteSets

CONSTANTS
  Unreliable,    \* reports get lost, additions race, processes end
  Overtaking,    \* a renewal may fall between the read and the write of AddTraffic
  Reuse          \* a port may be picked again while its old use is remembered

VARIABLES moved, forgiven, shortchanged

histories == <<moved, forgiven, shortchanged>>

vars == <<proxyVars, statsVars, accountVars, histories>>

Init ==
  /\ NodeProxiesInit
  /\ TrafficStatsInit
  /\ AccountsInit
  /\ moved = [u \in Users |-> 0]
  /\ forgiven = [u \in Users |-> 0]
  /\ shortchanged = [u \in Users |-> FALSE]

\* The users in S lose bytes.
Shortchange(S) == shortchanged' = [u \in Users |-> shortchanged[u] \/ u \in S]

-----------------------------------------------------------------------------
NewUser(u) ==
  /\ Signup(u)
  /\ UNCHANGED <<proxyVars, statsVars, histories>>

\* A user gets a proxy.  What statsCache remembers of the port's last use will
\* be taken off its first report.
Connect(n, u, p) ==
  /\ MayConnect(u)
  /\ Reuse \/ Unmentioned(n, p)
  /\ OpenProxy(n, u, p)
  /\ Shortchange({v \in {u} : statsCache[n][p] # 0})
  /\ UNCHANGED <<accountVars, moved, forgiven>>

\* The tunnel's proxy has not been closed.
Recorded(n, t) == connections[n][t.user] = t.port /\ t.stats # "deleted"

ClientConnects(n) ==
  /\ \E l \in listeners[n] : Accept(n, l)
  /\ UNCHANGED <<accountVars, histories>>

\* A tunnel may start after the disconnect that deleted its port's statistics,
\* and creates them again.  A round under way would report the difference.
TunnelStarts(n) ==
  /\ \E t \in tunnels[n] :
       /\ LoadOrStore(n, t)
       /\ Shortchange({v \in {t.user} : ~Recorded(n, t) /\ statsCache[n][t.port] # 0})
  /\ UNCHANGED <<accountVars, moved, forgiven>>

\* A byte is counted.  Nobody reports it when the tunnel's proxy is closed, and
\* it is missed between the two accesses of the reporter to the statistics.
Transfer(n, t) ==
  /\ moved[t.user] < MaxTraffic
  /\ CountByte(n, t)
  /\ moved' = [moved EXCEPT ![t.user] = @ + 1]
  /\ Shortchange({v \in {t.user} : ~Recorded(n, t) \/ report[n].port = t.port})
  /\ UNCHANGED <<accountVars, forgiven>>

\* A byte is counted in a race with others.
TransferRaces(n, t) ==
  /\ Unreliable
  /\ moved[t.user] < MaxTraffic
  /\ CountStale(n, t)
  /\ moved' = [moved EXCEPT ![t.user] = @ + 1]
  /\ Shortchange({t.user})
  /\ UNCHANGED <<accountVars, forgiven>>

ClientCloses(n) ==
  /\ \E t \in tunnels[n] : CloseTunnel(n, t)
  /\ UNCHANGED <<accountVars, histories>>

\* The bytes that node n has counted for user u and not reported.
Uncollected(n, u) ==
  LET p == connections[n][u] IN
  IF p = NoPort \/ statsStore[n][p] = Absent THEN 0
  ELSE IF report[n].port = p THEN statsStore[n][p] - report[n].count
  ELSE statsStore[n][p] - statsCache[n][p]

\* The heartbeat monitor has a proxy closed.
Disconnect(n, u) ==
  /\ CloseProxy(n, u)
  /\ Shortchange({v \in {u} : Uncollected(n, u) # 0})
  /\ UNCHANGED <<accountVars, moved, forgiven>>

-----------------------------------------------------------------------------
ReportRound(n) ==
  /\ \/ ReportSnapshot(n)
     \/ \E u \in Users : ReportSkip(n, u) \/ ReportDiff(n, u)
     \/ ReportCache(n)
     \/ report[n].entries = {} /\ ReportEnd(n)
  /\ UNCHANGED <<accountVars, histories>>

\* A goroutine of its own posts the report.
ReportPosted(n, h) ==
  /\ report[n].entries # {}
  /\ ReportEnd(n)
  /\ PostReport(h, report[n].entries)
  /\ UNCHANGED histories

\* The users of entries that would have changed something.
Charging(entries) == {e.user : e \in {f \in entries : f.traffic # 0}}

\* The node knows no web service.
ReportDropped(n) ==
  /\ Unreliable
  /\ report[n].entries # {}
  /\ ReportEnd(n)
  /\ Shortchange(Charging(report[n].entries))
  /\ UNCHANGED <<accountVars, moved, forgiven>>

ReportLost(h) ==
  /\ Unreliable
  /\ LoseReport(h)
  /\ Shortchange(Charging(adding[h].entries) \cup
       {v \in {adding[h].user} : adding[h].pc = "write" /\ adding[h].traffic # 0})
  /\ UNCHANGED <<proxyVars, statsVars, moved, forgiven>>

\* AddTraffic.  A row that has changed since it was read gets the old value
\* back, with the entry added.
AddTraffic(h) ==
  LET a == adding[h] IN
  /\ \/ (\E e \in a.entries : ReadUsed(h, e)) /\ UNCHANGED shortchanged
     \/ UpdateUsed(h) /\ Shortchange({v \in {a.user} : rows[a.user].used # a.read})
  /\ UNCHANGED <<proxyVars, statsVars, moved, forgiven>>

-----------------------------------------------------------------------------
Renew(u) ==
  /\ Overtaking \/ \A h \in Handlers : ~(adding[h].pc = "write" /\ adding[h].user = u)
  /\ SaveRenewed(u)
  /\ forgiven' = [forgiven EXCEPT ![u] = @ + rows[u].used]
  /\ UNCHANGED <<proxyVars, statsVars, moved, shortchanged>>

PlanMonitor ==
  /\ \E users \in SUBSET Users : FindDue(users)
  /\ UNCHANGED <<proxyVars, statsVars, histories>>

NodeRestart(n) ==
  /\ Unreliable
  /\ StatsReset(n)
  /\ Shortchange(Charging(report[n].entries) \cup {u \in Users : Uncollected(n, u) # 0})
  /\ UNCHANGED <<accountVars, moved, forgiven>>

Next ==
  \/ \E u \in Users : NewUser(u) \/ Renew(u)
  \/ \E n \in Nodes :
       \/ \E u \in Users : Disconnect(n, u) \/ \E p \in Ports : Connect(n, u, p)
       \/ ClientConnects(n) \/ TunnelStarts(n) \/ ClientCloses(n)
       \/ \E t \in tunnels[n] : Transfer(n, t) \/ TransferRaces(n, t)
       \/ ReportRound(n) \/ ReportDropped(n) \/ NodeRestart(n)
       \/ \E h \in Handlers : ReportPosted(n, h)
  \/ \E h \in Handlers : AddTraffic(h) \/ ReportLost(h)
  \/ PlanMonitor

Spec == Init /\ [][Next]_vars

(***************************************************************************)
(* The reporter's loop comes round, what it posts is served, and a reset   *)
(* is saved once the row is found.                                         *)
(***************************************************************************)
Fairness ==
  /\ \A n \in Nodes : WF_vars(ReportRound(n) \/ \E h \in Handlers : ReportPosted(n, h))
  /\ \A h \in Handlers : WF_vars(AddTraffic(h))

FairSpec == Spec /\ Fairness

-----------------------------------------------------------------------------
\* Every variable holds a value of its type.
TypeOK ==
  /\ StatsTypeOK
  /\ AccountsTypeOK
  /\ moved \in [Users -> 0..MaxTraffic]
  /\ forgiven \in [Users -> Int]
  /\ shortchanged \in [Users -> BOOLEAN]

\* What a user was charged, in this cycle and the earlier ones.
Charged(u) == forgiven[u] + rows[u].used

\* Nobody is charged for more bytes than it has moved, however reports overlap
\* and get lost, proxies come and go and cycles begin.
NeverOvercharged == \A u \in Users : Charged(u) <= moved[u]

\* d bytes at one place, none when d is below 0.
Block(a, b, d) == {<<a, b, i>> : i \in 1..d}

\* The bytes of user u in the entries that a holds.
EntryBlocks(a, u, entries) == UNION {Block(a, e, e.traffic) : e \in {f \in entries : f.user = u}}

\* The number of bytes of user u on their way to its row: counted, in entries of a
\* round, in requests, and about to be written.
OnTheWay(u) ==
  Cardinality(UNION {Block(n, connections[n][u], Uncollected(n, u)) : n \in Nodes})
  + Cardinality(UNION {EntryBlocks(n, u, report[n].entries) : n \in Nodes})
  + Cardinality(UNION {EntryBlocks(h, u, adding[h].entries) : h \in Handlers})
  + Cardinality(UNION {Block(h, u, adding[h].traffic) : h \in
                        {g \in Handlers : adding[g].pc = "write" /\ adding[g].user = u}})

\* Every byte of a user is charged or on its way, unless one of the named losses
\* has hit the user: a report was lost or dropped, a proxy was closed or a node
\* ended before it had reported, a byte passed after the disconnect, during the
\* reporter's copying or in a race of additions, two updates of the row
\* overlapped, or the port had been in use before.  There is no other loss.
EveryByteAccounted ==
  \A u \in Users : ~shortchanged[u] => Charged(u) + OnTheWay(u) = moved[u]

\* What a user has moved gets charged in the end, unless some of it is lost.
EventuallyCharged ==
  \A u \in Users : \A m \in 1..MaxTraffic :
    moved[u] >= m ~> (Charged(u) >= m \/ shortchanged[u])
=============================================================================
