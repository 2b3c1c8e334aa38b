# TLA+ specification of distributed_xray

`distributed_xray` is a VPN service made of Go processes that talk HTTP: a
registry, a web service, proxy nodes, a payment service, a log service and a
shell service. This directory models the parts of it that keep state and
interact, checks them with TLC on small instances, and proves the most
important safety properties with TLAPS for every instance.

`PROJECT.json` lists components, runs, mutants, the map from definitions to
source lines, findings, hazards and theorems. Source paths below are relative
to `src/`.

## Inventory

| Component | State | Operations | Talks to |
|---|---|---|---|
| Registry server (`registry/server.go`) | `registrationsMap` under an `RWMutex` that half of the code does not take; nothing is persisted | POST (`add`), DELETE (`remove`), the 20-second sweep `removeInactiveServices` | notifies services with patches, one goroutine per patch |
| Heartbeat server (`registry/heartbeat/server.go`) | `LastHeartBeat` under its own mutex | heartbeat, 401 for an unknown ServiceID | asks the registry whether an id is registered |
| Registry client (`registry/client.go`, `service/service.go`) | the ServiceID, the cached providers | `RegisterRequest` with its endless retry, the heartbeat loop, `Update` on a patch, clearing on 401 | registry |
| Web service: connections (`web/controllers/*.go`) | `userConnectionMap` under a mutex | `Connect`, `HeartbeatFromClient`, `StartHeartbeatMonitor`, `StartPlanMonitor` | nodes (`/connect`, `/disconnect`), clients, the provider cache |
| Node: proxies (`node/server.go`, `node/proxy.go`) | `connections`, `proxyServices`, one listener per `NewProxy`, the connections it has accepted | `handleConnect`, `handleDisconnect`, `handleConnection` | web service, xray |
| Node: xray control (`node/xray_api.go`) | the global `xrayCtl`; the users xray accepts | `addVlessUser`, `removeVlessUser` | xray (gRPC) |
| Node: host limit (`node/traffic_check.go`) | two files, the firewall, the kernel's counters | `CheckTriffic` every ten seconds, `RestoreFirewall` | the host |
| Payment: amounts (`payment/order/interval_set.go`) | a sorted list of intervals | `Add`, `NextMissing` | orders |
| Payment: orders (`payment/order/{mapper,server,task}.go`) | `orderMap`, `ActualAmountToID`, no lock | create, poll of the wallet every five seconds, callback | TronGrid, callbacks |
| Accounting (`limitReader`, `StartTrafficReport`, `AddTraffic`, renewals) | one database row per user; `statsStore` and `statsCache` on the node | counting, reports, additions, renewals | node to web service to database |
| Log, shell, utilities | little or none | | |

What is hard here: goroutines that share slices and maps with no lock or with a
lock around half of an operation; monitors that copy a table, decide, and write
the copy back; notifications that overtake each other or are lost; processes
that restart with nothing; retries; counters that start anew. The full list, at
its lines, is `hazards` in `PROJECT.json`.

What makes each component correct:

- registry: a URL is registered at most once; a fresh service is never judged
  without a heartbeat; a service that is up is (again and again) registered, one
  that is down is forgotten; a registered service knows every provider it
  requires;
- orders: actual amounts are distinct; an order is paid by its own amount; a
  transfer pays one order; a callback is called once; a transfer is noticed;
- sessions: the limit of connections; a client that sends heartbeats keeps its
  proxy; a client that left, or a user over the limit, loses it; a node can close
  every proxy it runs;
- xray control: whoever gets a proxy is accepted by xray;
- accounting: nobody is charged more than it moved; every byte is charged, but for
  the losses the code cannot prevent;
- host limit: while the checks run, the firewall gets closed when the cycle's
  traffic is at 95 percent; it should be closed only then, which the code keeps
  except in a cycle whose reset found the counters above 0 (see `HostTraffic`).

## Modules

| Module | Models | Depends on |
|---|---|---|
| `ServiceTypes` | registrations, required services | |
| `Registry` | registry and heartbeat servers | `ServiceTypes` |
| `RegistryClient` | the client in every service | `ServiceTypes` |
| `Discovery` | both composed, with crashes, restarts, losses | `Registry`, `RegistryClient` |
| `IntervalSet` | the algorithms of the interval set, as operators | |
| `AmountPool` | abstract specification: a set of amounts | |
| `IntervalSetSpec` | the interval set as a state machine; implements `AmountPool` | `IntervalSet` |
| `Bills` | abstract specification: bills that share a wallet | |
| `Orders` | the payment service; implements `Bills` | `IntervalSet`, `Bills` |
| `SessionTypes` | users and nodes | |
| `NodeProxies` | the proxies of the nodes | `SessionTypes` |
| `UserConnections` | the connection table and its two monitors | `SessionTypes` |
| `Sessions` | web service, nodes and clients composed | `UserConnections`, `NodeProxies` |
| `XrayControl` | the shared xray controller and xray's users | `SessionTypes` |
| `NodeService` | connect requests of a node in full, with xray | `NodeProxies`, `XrayControl` |
| `TrafficStats` | what a node counts and reports | `NodeProxies` |
| `Accounts` | the users' rows, `AddTraffic`, renewals | `SessionTypes` |
| `Accounting` | from the byte to the row, composed | `TrafficStats`, `Accounts` |
| `HostTraffic` | the traffic limit of a host | |
| `DiscoveryProofs`, `IntervalSetProofs`, `IntervalSetSpecProofs`, `OrdersProofs`, `SessionsProofs`, `NodeServiceProofs`, `AccountingProofs`, `HostTrafficProofs` | theorems | the module they are named after |
| `MC*` | instances for TLC | |

An operator whose comment begins with "Mutant:" is a plausible bug. It is used by
no specification; substituted for the definition after it, it makes the property
named in `PROJECT.json` fail, which shows that the property says something.

### Registry, RegistryClient, Discovery

A step is a section under a lock or, without a lock, an access to shared state.
A POST is a record `post[id]` whose `pc` walks through `add`: `check` (one
iteration of the duplicate check), `drop` and `store` (the two halves of the
unlocked `append` in line 31: the tail is shifted in place, then the shorter
slice is stored), `append` (under the lock), `require` and `sending`
(`sendRequiredServices`, which keeps the read lock during its HTTP request),
`announce`. An index out of range is a panic: in a handler net/http closes the
connection (`broken`), in a DELETE after `Lock` the mutex stays locked
(`wedged`), in the sweep the process ends. The sweep copies registrations, then
heartbeats, then examines its snapshot. `notify`'s goroutines are a bag of
patches that are delivered in any order.

A client is a phase. `http.NewRequest` is called once, so a retry sends a body
that is read: on an open connection the transport rewinds it, on a new one it
fails. Hence `retry` can succeed and `spin` cannot.

Abstractions. Ages replace times and stop growing just above the limit. A uuid
that nothing refers to stands for a new one. A map entry with an empty list
equals no entry. The search and the notification of `remove` are one step, and
so are the registration check and the write of a heartbeat, and a 401 with the
clearing that follows it. The writer preference of `RWMutex` is left out. A
restart of the registry drops the patches its goroutines had not sent. The
order in which the sweep visits names is free. `Serial` restricts the
environment: operations begin when the registry is at rest. It separates what
the code does in the orders a test would try from what overlap adds.

### IntervalSet, AmountPool, Orders

`sort.Search` is modelled by its contract on a sorted list. An int wraps around
at `MaxInt`. In `Orders` a create request is five steps: pick the amount
(`NextMissing`), load and store of `Add`, the order, the link. There is no lock, so
with `PicksOverlap = TRUE` the model has every overlap of the steps of different
requests. `PicksOverlap = FALSE` leaves out one kind: that a request picks its
amount between the pick of another and its store. All other steps overlap as
before. What depends on distinct amounts is checked and proved without that
window, which shows that the window is all that is wrong; run `shared_amount` has
it and refutes `DistinctActualAmounts`. The poller fetches
the recent transactions (the pages are merged), credits, calls back. `credited`
and `calls` are history of the running process; `calls` stops at 2. `Bills` says
what the service promises: an order is a bill from the moment it is in `orderMap`,
a bill has an amount no other has, and is settled once, by a transfer of that
amount that settles no other. Every other step of `Orders` is a stutter of `Bills`.

### NodeProxies, UserConnections, Sessions

`connect[h]` is a goroutine of `Connect` together with the `handleConnect` it
waits for: look up the entry (without the lock), pick a port and start the
goroutine of `NewProxy`, record, answer, append to the table. `NewProxy` listens
when it gets to it, or finds the port taken and returns. The monitors are one
record each; each use of the mutex is a step. The plan monitor's disconnect
request goes to the node's root URL, which answers 404, so `PlanSend` has no
effect on the nodes.

Abstractions. A ServiceID is a node and the number of its registration. NodePort
and ClientIP are not kept. `exceeded` stands for the plan and traffic columns of
the user's row, which `Accounting` models; it is one flag for two conditions, of
which `Connect`'s (`controllers.go`, line 285) exempts a `TrafficLimit` of -1 and
the monitor's query (`PlanMonitor.go`, line 42) does not, so a user without a
limit, whom the monitor drops again and again and `Connect` lets in, is left out.
A failure of xray is a refused connect; `NodeService` takes the calls of xray
apart. A port is picked from a small set; that a user picks the port of its own
other starting proxy is left out. The web service restarts only while no connect
request is under way.

### XrayControl, NodeService

Every `handleConnect` stores a new controller in the global `xrayCtl` (line 168),
initialises the controller that is there by then (169), evaluates
`defer xrayCtl.CmdConn.Close()` (171), which reads the variable again, and reads it
once more for each of its calls. These are steps of their own, so a handler may
initialise another's controller, and may close another's connection when it returns,
while its own stays open for ever. `xrayCtl[n]` is the connection of the current
controller, `NoConn` before `Init`; `open[n]` are the connections not closed yet;
`closes` of a handler is the connection its deferred call will close. A connection
in no controller that no handler will close stands for a new one.

Any call may fail: the connection is closed, xray is not launched yet (the node
serves from `main.go` line 57 on, xray is launched at 126) or does not answer. A
call that fails may have been executed. (A call that is cut off is executed before
the handler's next one or never.) A call through an uninitialised controller panics
(net/http recovers and the deferred `Close` runs; on a nil connection that panics as
well). xray refuses to add a user it has, hence the code removes and adds again. A
disconnect leaves xray alone, so xray keeps the users of earlier sessions; a restart
of the node may or may not restart xray. That xray alone ends while its node runs,
and forgets all users, is left out: nothing in the node would notice. `Init` does
not fail, because the address it gets is constant. A request of a user who has a
port is answered without a change and left out.

### TrafficStats, Accounts, Accounting

A connection is a goroutine of `handleConnection` that has no `ConnStats` yet,
holds the one in `statsStore`, or one that a disconnect has deleted there and that
it goes on counting into. A round of the reporter copies `connections`, and for
each port computes the difference to `statsCache` and then, in a second access,
copies the counters. A report is posted by a goroutine that becomes the handler of
`AddTraffic`; per entry this reads the row and writes one column. The plan monitor
finds rows and saves them with nothing used. Queries are atomic and there are no
transactions.

Three histories say what should have been charged: `moved`, `forgiven` (wiped off
by renewals) and `shortchanged` (users of whom a byte was lost on the way). The
actions that lose bytes set the mark, each at the step that loses them; so
`EveryByteAccounted` says that there is no other loss. The counters are added to
without a lock: in `TransferRaces` the sum with an older value is stored, so that
the counter stands still or goes back.

Abstractions. Upload and download are one number, a transfer is one byte. A
connect is one step, its check of the row included. A user has one connection at
a time. Which rows are due is the clock's choice. `SetPlan` is left out: its route
carries none of the parameters it looks for, so it matches no row; `PlanEnd` is a
century away. The plan monitor returning for good after a failed query is the
plan monitor taking no further step.

### HostTraffic

A month is a reset day and the other days. Boots may keep or lose the files. When
the service starts, `main` opens the firewall (line 32), but the checks begin only
at line 114, after waits for a log and a web service that have no bound: `checking`
says whether they have begun, and `FindProviders` begins them. In between nothing
closes the firewall of a host over its limit.

The reset of a cycle writes 0 to the usage file (line 108), not the counter. If the
counters were above 0, the checks of the new cycle measure all traffic since the
boot, and the first may close the firewall that the reset has just opened, although
the comment says "reset traffic usage". The history `carried` marks such cycles, and
`BlockedOnCycle` is about the cycle's traffic in all others.

## Runs

Deadlock is checked in every run.

| Run | Instance | Result |
|---|---|---|
| `overlap` | two nodes, all overlaps, DELETEs | types; whoever is registered has a heartbeat; the sweep never judges without one |
| `serial` | shell + log, serial, DELETEs, losses | one registration per URL |
| `live` | shell + log, serial, fair | live services are registered and miss no provider, dead ones are forgotten |
| `intervals` | all ints but the largest | sorted, first missing amount, implements `AmountPool` |
| `orders` | two orders, two transfers, two creates at a time whose picks do not overlap, restarts, fair | types; distinct amounts; paid by its amount; one order per transfer; one call per callback; transfers are noticed; implements `Bills` |
| `shared_amount` | two creates at a time, picks overlap | violated |
| `sessions` | two users, two nodes, serial, fair | heartbeats keep proxies, silent clients lose their proxies and are forgotten |
| `sessions_overlap` | one user, two connects at a time, failures | types; limit of connections |
| `exceeded` | one user, limits, serial, fair | violated |
| `node` | three users, three handlers, two ports, disconnects, restarts | types; proxied users are in xray; proxies can be closed |
| `accounting` | one user, two bytes, two reports at a time, losses, restarts, fair | types; nobody is overcharged; every byte is accounted for, and charged in the end |
| `host` | two months, boots, fair | the firewall is closed only for the traffic of the cycle, or since the boot where the reset left some; the traffic of a cycle is measured; once the checks run the firewall is closed at the limit |

Bounds. Two instances and as many uuids as can be referred to at once are enough
for every pair of overlapping operations; `InactiveAfter = 0` and
`HEARTBEAT_TIMEOUT` 0 or 1 make one tick the limit, the ages only matter on
which side of it they are. `MaxKnown` bounds the provider lists that failed
retries lengthen. `serial` also passes with two nodes of one name (`Instances <-
Nodes`), where nothing is required and so no patch of `sendRequiredServices` gets
lost. Two orders that ask for one amount and two transfers let any two of them
collide; `MaxInt = 2` leaves room for both amounts. `sessions_overlap` uses the
symmetry of goroutines and ports, which no property names, and one port, for
which its two connects compete. `MaxServiceID` bounds
the restarts of a node; `MaxMonth` and `MaxTraffic` bound the host's history. In
`node` a third handler can replace the controller while one closes its connection
and one calls; a controller and three handlers refer to at most four connections, so
a new one can always be made; handlers and ports are symmetric, and no property names one.
In `accounting` two bytes suffice for a byte reported and one on its
way, and two reports for additions that overlap; the user's second session finds
what `statsCache` remembers of its first. A counter that goes back needs a third
byte: with three bytes the run passes for one report at a time, and the safety
properties are proved for any number.

Where a property is checked under a restriction, the restriction is what the
code needs. Each of these fails when the constant it names is changed, or the
exception it names is dropped:

| Property | Restriction | Without it |
|---|---|---|
| `AtMostOnePerURL` | `Serial` | the duplicate check and the append are not atomic: two registrations of one URL both stay |
| `NoProviderMissed` | `Lossy = FALSE` | a notification that fails is only logged and never sent again |
| `NoProviderMissed` | `Serial` | with two services of a name: the subscribers are told to remove a registration, another deletion makes the list shorter, and the first one panics or deletes another position |
| `LiveServiceRegistered` | one service per name (`Logged`) | with two (`Nodes`) the duplicate check of `add` may panic; the retry sends a request whose body is read and never succeeds |
| `FindsFirstMissing` | no `MaxInt` among `Amounts` | the amount after the largest int is the smallest |
| `DistinctActualAmounts`, `OneOrderPerTransfer`, `ImplementsBills` | `PicksOverlap = FALSE` | a request picks the amount that another has picked and not stored yet: both orders get it (run `shared_amount`) |
| `PaidByItsAmount` | `ReuseIDs = FALSE` | an order under a used id is paid by the amount of the old one |
| `OneOrderPerTransfer` | per process | after a restart, a transfer of the last ten minutes may pay an order of the new process too |
| `HeartbeatKeepsProxy` | `Reconnects = FALSE` | a heartbeat refreshes only the first of two connections to a node; the second times out and closes the proxy of both |
| `HeartbeatKeepsProxy` | `Serial` | the monitor writes its copy back: a heartbeat that came after the copy was judged is undone, and the proxy is closed all the same |
| `SilentProxiesClosed` | `Unreliable = FALSE`, as many connections as nodes | a disconnect request is never repeated, an evicted connection's node is never told |
| `BlockedOnCycle` | `carried` excepted | a reset leaves the counters as they are and writes 0: the firewall is closed for traffic of the cycle before |
| `OverLimitBlocked` | the checks have begun (`checking`) | a service that has been started has opened the firewall and waits for a log and a web service, without a bound, before it checks |
| `OverLimitBlocked` | no boot in the cycle | the counters start from 0 with the host and the traffic before is forgotten |
| `ProxiedInXray`, `ProxiesRecorded` | `Distinct = TRUE` | of two requests of one user the second may remove the user from xray and fail to add it again, because the first has closed the connection; or both start a proxy |
| `NeverOvercharged` | `Overtaking = FALSE` | a renewal between the read and the write of `AddTraffic` is undone: the new cycle begins with the traffic of the old one |
| `NeverOvercharged` | `Reuse = FALSE` | statistics created by a late connection of a port's last user are charged to the next one |

Fairness. Goroutines run and HTTP requests end (weak fairness); the code sets no
timeouts, so that a peer answers or its connection breaks is an assumption. Loops
that sleep and try again (registration, the sweep, the monitors) get strong
fairness, because `Serial` makes them wait for a moment of rest that comes again
and again. The reporter's loop and the handlers of `AddTraffic` go on (weak
fairness); the plan monitor need not. The check of the host runs every ten seconds
once `main` has begun the checks; nothing is assumed about when, or whether, it
finds the services it waits for. Time passes. Nothing makes a process start, crash
or restart, a client act, or a transaction leave the window.

## Findings

Each is a run that TLC refutes; `PROJECT.json` quotes the line it contradicts.

1. `shared_amount`: overlapping create requests share an amount.
2. `exceeded`: the plan monitor's disconnect goes to the wrong URL, and nobody
   asks again.

## Proofs

The theorems hold for every value of the constants under the named assumptions
of the modules: some instance, uuid, user and node exist, names are service
names, `NoID` is no uuid, `NoPort` no port, the limits are natural numbers (the
limit of connections and the bound on ServiceIDs at least 1). A theorem that
needs more states it as a hypothesis. The hypotheses are the restrictions of the
runs, listed above with what fails without them:

| Hypothesis | Meaning | Theorems |
|---|---|---|
| `Serial = TRUE` | operations begin when nothing else is under way | `AtMostOnePerURL`, `NoProviderMissed` |
| `Lossy = FALSE` | a request to a running process arrives and is answered | `NoProviderMissed` |
| `Distinct = TRUE` | requests of one user do not overlap | the invariants of `NodeService` |
| `NoLargest` | the largest int is no amount | the interval set |
| `NewIDs` | `ReuseIDs = FALSE`: a create request has a new id | the invariants of `Orders` |
| `PicksApart` | `PicksOverlap = FALSE`: no request picks its amount between the pick of another and its store | distinct amounts and what follows from them |
| `Room` | finitely many orders, and for each an int above every amount | the same |
| `Reuse = FALSE`, `Overtaking = FALSE` | see the table of restrictions | `NeverOvercharged`, `EveryByteAccounted` |

Discovery (`DiscoveryProofs`; what holds of the registry's own actions comes first)

- `TypeCorrect`: one lemma per action, among them what the unlocked deletion
  and the notification do to lists and to the bag of patches.
- `RegisteredHeard`, `SweepJudgesHeard`: from `HeardInv`. `RegisteredIsHeard`
  alone is not inductive: the unlocked deletion stores a list it computed earlier
  (`post[k].kept`), an append registers an id whose clock was started several
  steps before, and the sweep uses a snapshot. `HeardInv` says that each of these
  holds only ids with a heartbeat on record; nothing but a restart, which empties
  everything, takes one off the record.
- `AlwaysAtMostOnePerURL`: from `SerialInv`, which says how far the one operation
  under way has come. The duplicate check runs over a slice that becomes shorter
  under it, so `PostProgress` states that no position before its index holds the new
  URL and that the slice is no longer than the loop runs; the slice that is kept
  between `drop` and `store` has distinct URLs, not the new one among them, while
  `ListsUnique` excuses the list in the map for these two steps.
- `AlwaysNoProviderMissed`: from `KnownInv`, on top of `SerialInv`, with crashes,
  restarts, sweeps and DELETEs, and notifications in any order. The property speaks
  of a registry at rest; in between, a provider may be known, on its way in a patch,
  or still to be announced by the POST that registered it (`Announced`). `Known` says
  that one of these holds for every provider that stays, towards every process that
  has been sent what it requires (`Informed`): the patch of `sendRequiredServices`
  carries the whole lists, and the lists do not change while it is under way
  (`PostKnown`). A late notification must not undo this, so `Staying` leaves
  out what a deletion under way is about to take out, and `RemovedGone` says that a
  removal is told only of a ServiceID that does not stay. For this a ServiceID must
  be registered once and never again (`Identified`, and the freshness in
  `PostKnown`). A POST may break off: with two services of a name, the duplicate
  check can run past the end of the list that it has shortened; its service then
  counts as not informed. `notifyAdds` and `PatchGoneLeaves` say what happens to the
  bag of patches.

Interval set and orders (`IntervalSetProofs`, `IntervalSetSpecProofs`, `OrdersProofs`)

- `AlwaysNormal`, `AlwaysFindsFirstMissing`, `AlwaysImplementsPool`: the lemmas
  show, for every normal list, that `Add` yields a normal list that covers one
  amount more, whether it extends, merges or inserts, and that `NextMissing` is
  the first uncovered one. No induction over the list is needed, because the
  contract of `sort.Search` gives the position.
- `TypeCorrect`: no order is ever in a fourth status, and no index leaves its slice,
  with any number of overlapping requests.
- `AlwaysPaidByItsAmount`, `AlwaysCalledBackOnce`: from `OrderInv`, however many
  requests overlap. An order is matched by an amount that was linked to its id and
  credited several steps later, so the invariant relates the links, the poller's
  hands and the history of credits to the orders.
- `AlwaysDistinctActualAmounts`, `AlwaysOneOrderPerTransfer`,
  `AlwaysImplementsBills`: `AmountsInv` adds that the intervals cover exactly the
  amounts that are issued or being issued, not the one a request has picked, that
  one request at most has an amount picked and not stored (`PicksInv`), and that the
  intervals grow upwards without a gap from amounts that were asked for. That
  there is an int left to pick is a counting argument (`Room`, lemma `NotFull`).
  The refinement maps every step of `Orders` to an issue or a settlement of
  `Bills`, or to a stutter.

Sessions and nodes (`SessionsProofs`, `NodeServiceProofs`)

- `AlwaysLimited`: the limit of connections with any number of overlapping
  connects. The invariant adds that the heartbeat monitor's copy obeys it too,
  since it is written over the table later; the argument is about lengths only.
- `TypeCorrect`: the monitors' stale copies hold connections too.
- `NodeTypeCorrect`, `AlwaysProxiedInXray`: a handler may remove a user, and
  records a proxy several steps after it has added one. `ProxiedInv` adds that a
  handler past its calls has its user in xray, that a user being served has no
  proxy, and that no two handlers serve one user. Whose controller and connection a
  call goes through, and whether it fails, plays no part.
- `AlwaysProxiesRecorded`: a listener whose port is not recorded belongs to a
  handler that is about to record it.

Accounting (`AccountingProofs`)

- `TypeCorrect`.
- `AlwaysNeverOvercharged`: the bytes on their way to a row are in counters, in
  entries, in requests and in a handler's hands. `AccountingInv` collects them as
  sets with one element per byte (`CountedBytes`, `EntryBytes`, `PostedBytes`,
  `WrittenBytes`), so that sums become cardinalities and no fold has to be
  unfolded; a step moves elements from one set to another, or drops them. What was
  charged plus these is at most what was moved, also with the old copy of the row
  that a handler is about to write back in place of the row (`ChargesBounded`). A
  difference below 0 counts as nothing, because the report that carries it may be
  lost. Further parts say that no port belongs to two users (`PortsOwned`, counting
  the reporter's copy and late tunnels), which `Reuse` would break, and what the
  reporter and the handlers hold. No set needs to be finite, nor the number of
  handlers bounded.
- `AlwaysEveryByteAccounted`: `AccountingInv` is one half of the equation, for
  everybody; `LedgerInv` is the other, for the users that no named loss has hit.
  The lower bound is not inductive alone: a counter that falls behind what was
  collected, a negative entry, or two equal entries of a user in one round (entries
  are a set) would lose bytes without a loss being named. So `PortLedger` says that
  the counter of a user's port is never behind the reporter's memory of it, stands
  still while the reporter has it in hand, and that a port the user has left has
  nothing more to report; `EntriesCounted` that no entry of these users is negative;
  `RoundInv` that a round has no entry of a user it has yet to come to; and
  `StoredTunnels` that a tunnel that counts in the map finds its counter there. A
  step that breaks one of them for a user also marks the user in `shortchanged`: the
  list of losses is complete. `OnTheWay` counts with cardinalities as well, over
  the recorded ports only; lemma `OnTheWayPending` shows that the user's other ports
  have nothing.

Host limit (`HostTrafficProofs`)

- `AlwaysBlockedOnCycle`, `AlwaysCycleMeasured`: from `HostInv`, which is both of
  them with the types and `ExcessInv`, a bound from above on what a check will
  measure: together they are inductive, through boots that keep or lose the files.
  `MeasuringBlocks` is the step behind `OverLimitBlocked`: a check in an unbooted
  cycle at 95 percent leaves the firewall closed.

Each inductive invariant was checked by TLC on the instances of the runs, and on
some larger ones, before it was proved.

Only model-checked: the liveness properties (`LiveServiceRegistered`,
`DeadServiceForgotten`, `TransferNoticed`, `SilentProxiesClosed`,
`SilentForgotten`, `OverLimitBlocked`, `EventuallyCharged`), which are outside the
prover's reach, and `HeartbeatKeepsProxy`, whose restrictions leave a theorem little
to say. Every other safety property of a passing run is a theorem.

## Plan

1. `Discovery` (done), 2. interval set and orders (done), 3. sessions (done),
4. host limit (done), in this order because everything else relies on discovery.
5. Accounting (done) and xray control (done), as modules of their own; `Sessions`
   keeps the abstraction `exceeded`, because the product of both is out of TLC's
   reach.
6. An abstract specification of the payment service (done: `Bills`).
7. Proofs (done: the safety properties of the passing runs but one).

## Not modelled

`Login` and `RequireAuth` only read a user's row (and write a map of tokens that
nothing reads). `SetPlan` matches no row. gorm and MySQL, xray and gRPC are external
and modelled by how the code uses them. Log and shell services matter here as
registered services only: one appends lines to a file, the other runs a command.
Routing, CORS, QR codes, environment and deployment files are pure I/O.
`RemoveTimeoutOrders` and `queryTraffic` are never called. The composition of
`Accounting` with `Sessions` has too many states for TLC.
