------------------------------ MODULE Discovery ------------------------------
(***************************************************************************)
(* Service discovery: the registry server, the clients in the services,    *)
(* and what can happen between them.  Services and the registry crash and  *)
(* start again; notifications are delivered in any order; with Lossy, any  *)
(* HTTP exchange may fail.                                                 *)
(*                                                                         *)
(* Serial restricts the environment to the orders a test would try: a      *)
(* registration, sweep, DELETE, crash or restart begins only when the      *)
(* registry has finished what it was doing.                                *)
(***************************************************************************)
EXTENDS Registry, RegistryClient

CONSTANTS
  Serial,     \* operations do not overlap
  Lossy,      \* HTTP exchanges may fail
  Deletes,    \* somebody sends DELETE requests
  MaxKnown    \* bound: how long a provider list may get by failed retries

vars == <<registryVars, clientVars>>

Init == RegistryInit /\ RegistryClientInit

-----------------------------------------------------------------------------
\* The registry has nothing under way.
Quiet ==
  /\ \A k \in ServiceIDs : post[k].pc = "none"
  /\ sweep.pc = "idle"
  /\ del.pc = "idle"
  /\ patches = EmptyBag

Admitted == Serial => Quiet

\* The uuids that anything refers to.
Referenced ==
  (UNION {UNION {IDsIn(m[n]) : n \in Names} :
            m \in {registrationsMap, sweep.snapshot}
                    \cup {services[s] : s \in Instances}
                    \cup {post[k].added : k \in ServiceIDs}})
    \cup (UNION {IDsIn(post[k].kept) : k \in ServiceIDs})
    \cup {p.reg.id : p \in BagToSet(patches)}
    \cup {serviceID[s] : s \in Instances}
    \cup {request[s] : s \in Instances}
    \cup {k \in ServiceIDs : post[k].pc # "none"}

\* GenerateUUID: a uuid nobody has.  The supply is finite, so a uuid that
\* nothing refers to any more stands for a new one; which one does not matter.
GenerateUUID(k) ==
  LET unused == ServiceIDs \ Referenced IN
  unused # {} /\ k = CHOOSE j \in unused : TRUE

-----------------------------------------------------------------------------
Start(s) ==
  /\ StartProcess(s)
  /\ UNCHANGED registryVars

\* A service ends.  When it does so by itself, startService calls ShutdownService,
\* whose DELETE names no service and is rejected: the registry does not notice.
Crash(s) ==
  /\ Admitted
  /\ KillProcess(s)
  /\ UNCHANGED registryVars

\* A request of RegisterRequest reaches ServeHTTP.
Post(s, k) ==
  /\ Admitted
  /\ GenerateUUID(k)
  /\ SendRequest(s, k)
  /\ ServePost(s, k)

\* The answer to POST k reaches the process that waits for it.
PostDone(s, k) ==
  /\ request[s] = k
  /\ EndPost(k)
  /\ \/ post[k].pc = "ok" /\ AcceptServiceID(s)
     \/ post[k].pc = "ok" /\ Lossy /\ LoseServiceID(s)
     \/ post[k].pc = "failed" /\ MeetErrorStatus(s)
     \/ post[k].pc = "broken" /\ LoseConnections({s})

\* Nobody waits for the answer any more.
PostDiscarded(k) ==
  /\ \A s \in Instances : request[s] # k
  /\ EndPost(k)
  /\ UNCHANGED clientVars

\* A connection breaks while the request is under way or before its retry.
ConnectionLost(s) ==
  /\ Lossy
  /\ phase[s] \in {"posted", "retry"}
  /\ LoseConnections({s})
  /\ UNCHANGED registryVars

\* The patch of sendRequiredServices: it arrives, or the request fails
\* before or after the service has applied it.  A service that applies one
\* patch per retry lists its providers once per retry: MaxKnown bounds that.
DeliverRequired(k) ==
  LET s == post[k].url IN
  \/ /\ SentRequiredServices(k, "ok")
     /\ ReceivePatch(s, AfterAdding(s, post[k].added))
  \/ /\ Lossy
     /\ \A n \in Names : Len(services[s][n]) < MaxKnown
     /\ SentRequiredServices(k, "failed")
     /\ ReceivePatch(s, AfterAdding(s, post[k].added))
  \/ /\ Lossy \/ ~Up(s)
     /\ SentRequiredServices(k, "failed")
     /\ UNCHANGED clientVars

\* What the lists of p.to become when patch p is applied.
Updated(p) ==
  IF p.kind = "added"
  THEN AfterAdding(p.to, [NoLists EXCEPT ![NameOf[p.reg.url]] = <<p.reg>>])
  ELSE AfterRemoving(p.to, p.reg)

\* A goroutine of notify sends its patch; a failure is only logged.
DeliverPatch(p) ==
  /\ PatchGone(p)
  /\ \/ ReceivePatch(p.to, Updated(p))
     \/ (Lossy \/ ~Up(p.to)) /\ UNCHANGED clientVars

-----------------------------------------------------------------------------
Beat(s) ==
  /\ phase[s] = "serving"
  /\ serviceID[s] # NoID
  /\ HandleHeartbeat(serviceID[s])
  /\ UNCHANGED clientVars

\* A heartbeat is answered with 401 and the service registers again.  It
\* clears its providers without the mutex, so an Update that has read the old
\* list of a name may still store it, changed, in the new map.
BeatRejected(s) ==
  /\ phase[s] = "serving"
  /\ serviceID[s] # NoID
  /\ CanRLock
  /\ ~IsServiceRegistered(serviceID[s])
  /\ \/ ReRegister(s, NoLists) /\ UNCHANGED registryVars
     \/ \E p \in BagToSet(patches) :
          LET n == NameOf[p.reg.url] IN
          /\ p.to = s
          /\ PatchGone(p)
          /\ ReRegister(s, [NoLists EXCEPT ![n] = Updated(p)[n]])

-----------------------------------------------------------------------------
\* The steps a POST goroutine of the registry takes by itself.
HandlePost(k) ==
  /\ \/ CheckDuplicate(k)
     \/ DropDuplicate(k)
     \/ StoreShortened(k)
     \/ AppendRegistration(k)
     \/ SendRequiredServices(k)
     \/ AnnounceRegistration(k)
  /\ UNCHANGED clientVars

StartSweep == Admitted /\ SweepSnapshot /\ UNCHANGED clientVars

Sweep ==
  /\ \/ SweepHeartbeats
     \/ \E n \in Names : SweepExamine(n)
     \/ SweepRemove
     \/ SweepEnd
  /\ UNCHANGED clientVars

StartDelete ==
  /\ Admitted
  /\ Deletes
  /\ \E s \in Instances : ServeDelete(NameOf[s], s)
  /\ UNCHANGED clientVars

EndDelete == FinishDelete /\ UNCHANGED clientVars

\* The registry's process ends and is started again.
RegistryRestart ==
  /\ Admitted \/ SweepPanics
  /\ RegistryReset
  /\ LoseConnections(Instances)

Tick == Age /\ UNCHANGED clientVars

ServiceStep(s) ==
  \/ Start(s)
  \/ Crash(s)
  \/ \E k \in ServiceIDs : Post(s, k) \/ PostDone(s, k)
  \/ ConnectionLost(s)
  \/ Beat(s)
  \/ BeatRejected(s)

PostStep(k) == HandlePost(k) \/ DeliverRequired(k) \/ PostDiscarded(k)

Next ==
  \/ \E s \in Instances : ServiceStep(s)
  \/ \E k \in ServiceIDs : PostStep(k)
  \/ \E p \in BagToSet(patches) : DeliverPatch(p)
  \/ StartSweep
  \/ Sweep
  \/ StartDelete
  \/ EndDelete
  \/ RegistryRestart
  \/ Tick

Spec == Init /\ [][Next]_vars

(***************************************************************************)
(* Goroutines run and time passes.  A process in RegisterRequest and the   *)
(* sweep's ticker try again and again, so an operation that is admitted    *)
(* infinitely often gets its turn.  Nothing makes processes start or die.  *)
(***************************************************************************)
Fairness ==
  /\ \A s \in Instances :
       /\ SF_vars(\E k \in ServiceIDs : Post(s, k))
       /\ WF_vars(\E k \in ServiceIDs : PostDone(s, k))
       /\ WF_vars(Beat(s))
       /\ WF_vars(BeatRejected(s))
  /\ \A k \in ServiceIDs : WF_vars(PostStep(k))
  /\ WF_vars(\E p \in BagToSet(patches) : DeliverPatch(p))
  /\ SF_vars(StartSweep)
  /\ WF_vars(Sweep)
  /\ WF_vars(EndDelete)
  /\ WF_vars(Tick)

FairSpec == Spec /\ Fairness
-----------------------------------------------------------------------------
\* Every variable holds a value of its type.
TypeOK == RegistryTypeOK /\ ClientTypeOK

\* When the registry is at rest, no URL is registered twice under a name: "Check
\* duplicate service with the same URL. If so, remove the old registration".
AtMostOnePerURL ==
  Quiet => \A n \in Names : \A i, j \in DOMAIN registrationsMap[n] :
             registrationsMap[n][i].url = registrationsMap[n][j].url => i = j

\* When the registry is at rest, a registered service knows every provider
\* it requires: the patch of sendRequiredServices and the notifications
\* together leave no gap.
NoProviderMissed ==
  Quiet => \A s \in Instances : \A n \in RequiredServices(NameOf[s]) \cap Names :
             (phase[s] = "serving" /\ IsServiceRegistered(serviceID[s]))
               => IDsIn(registrationsMap[n]) \subseteq IDsIn(services[s][n])

\* A service that stays up is registered again and again, whatever the sweep
\* and the restarts of the registry do ("Retry after 3 seconds...").
LiveServiceRegistered ==
  \A s \in Instances :
    <>[]Up(s) => []<>(phase[s] = "serving" /\ IsServiceRegistered(serviceID[s]))

\* A service that stays down is eventually in no list of the registry.
DeadServiceForgotten ==
  \A s \in Instances :
    <>[]~Up(s) => <>[](\A r \in Registered : r.url # s)
=============================================================================
