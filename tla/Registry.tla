------------------------------ MODULE Registry ------------------------------
(***************************************************************************)
(* The registry server: registry/server.go with the heartbeat server of    *)
(* registry/heartbeat/server.go.                                           *)
(*                                                                         *)
(* Every HTTP request runs in its own goroutine.  A POST is identified by  *)
(* the uuid the handler draws for it; its goroutine is the record          *)
(* post[id].  One further goroutine sweeps inactive services; at most one  *)
(* DELETE is under way.  notify's goroutines, each of which sends one      *)
(* patch, are the bag `patches': they run, and fail, in any order.         *)
(*                                                                         *)
(* The slices are indexed from 1.  Only append, the deletion in remove and *)
(* the read side of notify, sendRequiredServices and IsServiceRegistered   *)
(* hold r.mutex; the duplicate check of add and the search of remove run   *)
(* without it, so their steps interleave with everything.                  *)
(***************************************************************************)
EXTENDS ServiceTypes, Bags

CONSTANT InactiveAfter   \* clock ticks that make up the 20 seconds of line 307

ASSUME InactiveAssumption == InactiveAfter \in Nat

VARIABLES
  registrationsMap,   \* ServiceName -> list of registrations
  LastHeartBeat,      \* ServiceID -> ticks since time of last heartbeat
  post,               \* ServiceID -> goroutine of the POST that drew it
  sweep,              \* the goroutine of removeInactiveServices
  del,                \* the goroutine of a DELETE request
  patches,            \* notify's goroutines that have not yet sent
  wedged              \* a goroutine died between mutex.Lock and Unlock

registryVars ==
  <<registrationsMap, LastHeartBeat, post, sweep, del, patches, wedged>>

(***************************************************************************)
(* LastHeartBeat holds ages instead of times: 0 is "now", Long is any age  *)
(* above the limit.  A key the Go map does not hold reads as the zero      *)
(* time, which is older still: Absent.                                     *)
(***************************************************************************)
Long   == InactiveAfter + 1
Absent == InactiveAfter + 2
Ages   == 0..Absent

Older(age) == IF age < Long THEN age + 1 ELSE age

Inactive(age) == age > InactiveAfter

NoPost ==
  [pc |-> "none", url |-> CHOOSE s \in Instances : TRUE,
   i |-> 1, n |-> 0, kept |-> <<>>, added |-> NoLists, reply |-> "ok"]

NoSweep ==
  [pc |-> "idle", name |-> CHOOSE n \in Names : TRUE, i |-> 1,
   snapshot |-> NoLists, lastHeartBeat |-> [k \in ServiceIDs |-> Absent]]

NoDelete == [pc |-> "idle", name |-> CHOOSE n \in Names : TRUE, i |-> 1]

RegistryInit ==
  /\ registrationsMap = NoLists
  /\ LastHeartBeat = [k \in ServiceIDs |-> Absent]
  /\ post = [k \in ServiceIDs |-> NoPost]
  /\ sweep = NoSweep
  /\ del = NoDelete
  /\ patches = EmptyBag
  /\ wedged = FALSE

-----------------------------------------------------------------------------
\* The registrations of one name, and all of them.
RegisteredAs(name) == {registrationsMap[name][i] : i \in DOMAIN registrationsMap[name]}

Registered == UNION {RegisteredAs(n) : n \in Names}

\* IsServiceRegistered.
IsServiceRegistered(k) == \E r \in Registered : r.id = k

\* sendRequiredServices keeps the read lock while it waits for the service.
ReadLocked == \E k \in ServiceIDs : post[k].pc = "sending"

CanLock == ~wedged /\ ~ReadLocked

CanRLock == ~wedged

\* The positions of the map at which a registration requires name.
Subscribers(name) ==
  {q \in UNION {{n} \X DOMAIN registrationsMap[n] : n \in Names} :
     Requires(registrationsMap[q[1]][q[2]], name)}

\* notify: one goroutine for every registration that requires the service,
\* which will send the patch to the registration's ServiceUpdateURL.
notify(kind, reg) ==
  LET subscribers == Subscribers(NameOf[reg.url])
      UrlAt(q) == registrationsMap[q[1]][q[2]].url
  IN
  /\ CanRLock
  /\ patches' = patches (+)
       [p \in {[to |-> UrlAt(q), kind |-> kind, reg |-> reg] : q \in subscribers} |->
          Cardinality({q \in subscribers : UrlAt(q) = p.to})]

\* The list that the POST goroutine k works on.
ListOf(k) == registrationsMap[NameOf[post[k].url]]

-----------------------------------------------------------------------------
\* Mutant: the clock of the new ServiceID is not started.
ServePostUnheard(s, k) ==
  LET n == Len(registrationsMap[NameOf[s]]) IN
  /\ post[k].pc = "none"
  /\ post' = [post EXCEPT ![k] =
       [NoPost EXCEPT !.pc = IF n = 0 THEN "append" ELSE "check",
                      !.url = s, !.n = n]]
  /\ UNCHANGED <<registrationsMap, LastHeartBeat, sweep, del, patches, wedged>>

(***************************************************************************)
(* POST: the heartbeat clock of the new ServiceID starts, then add begins. *)
(* `range' fixes the number n of iterations of the duplicate check.        *)
(***************************************************************************)
ServePost(s, k) ==
  LET n == Len(registrationsMap[NameOf[s]]) IN
  /\ post[k].pc = "none"
  /\ LastHeartBeat' = [LastHeartBeat EXCEPT ![k] = 0]
  /\ post' = [post EXCEPT ![k] =
       [NoPost EXCEPT !.pc = IF n = 0 THEN "append" ELSE "check",
                      !.url = s, !.n = n]]
  /\ UNCHANGED <<registrationsMap, sweep, del, patches, wedged>>

\* The next iteration of the duplicate check, or the end of the loop.
NextIteration(k) ==
  IF post[k].i < post[k].n
  THEN [post[k] EXCEPT !.pc = "check", !.kept = <<>>, !.i = @ + 1]
  ELSE [post[k] EXCEPT !.pc = "append", !.kept = <<>>, !.i = 1, !.n = 0]

\* An index out of range: net/http recovers the goroutine's panic and
\* closes the connection.
Panic(k) ==
  /\ post[k].i > Len(ListOf(k))
  /\ post' = [post EXCEPT ![k].pc = "broken"]
  /\ UNCHANGED <<registrationsMap, patches>>

\* One iteration of the duplicate check up to the deletion.
CheckDuplicate(k) ==
  /\ post[k].pc = "check"
  /\ \/ Panic(k)
     \/ /\ post[k].i <= Len(ListOf(k))
        /\ ListOf(k)[post[k].i].url # post[k].url
        /\ post' = [post EXCEPT ![k] = NextIteration(k)]
        /\ UNCHANGED <<registrationsMap, patches>>
     \/ /\ post[k].i <= Len(ListOf(k))
        /\ ListOf(k)[post[k].i].url = post[k].url
        /\ notify("removed", ListOf(k)[post[k].i])
        /\ post' = [post EXCEPT ![k].pc = "drop"]
        /\ UNCHANGED registrationsMap
  /\ UNCHANGED <<LastHeartBeat, sweep, del, wedged>>

(***************************************************************************)
(* The deletion of the duplicate, without the lock: append shifts the tail *)
(* of the slice in place, and only then is the shortened slice stored.     *)
(* What others store in between is overwritten.                            *)
(***************************************************************************)
DropDuplicate(k) ==
  LET i == post[k].i
      kept == DeleteAt(ListOf(k), i)
  IN
  /\ post[k].pc = "drop"
  /\ \/ Panic(k)
     \/ /\ i <= Len(ListOf(k))
        /\ registrationsMap' =
             [registrationsMap EXCEPT ![NameOf[post[k].url]] = Append(kept, @[Len(@)])]
        /\ post' = [post EXCEPT ![k].pc = "store", ![k].kept = kept]
        /\ UNCHANGED patches
  /\ UNCHANGED <<LastHeartBeat, sweep, del, wedged>>

\* Mutant: the shortened slice is not stored.
StoreShortenedNot(k) ==
  /\ post[k].pc = "store"
  /\ post' = [post EXCEPT ![k] = NextIteration(k)]
  /\ UNCHANGED <<registrationsMap, LastHeartBeat, sweep, del, patches, wedged>>

StoreShortened(k) ==
  /\ post[k].pc = "store"
  /\ registrationsMap' = [registrationsMap EXCEPT ![NameOf[post[k].url]] = post[k].kept]
  /\ post' = [post EXCEPT ![k] = NextIteration(k)]
  /\ UNCHANGED <<LastHeartBeat, sweep, del, patches, wedged>>

\* Mutant: the registration is added without its ServiceID.
AppendRegistrationUnnamed(k) ==
  /\ post[k].pc = "append"
  /\ CanLock
  /\ registrationsMap' =
       [registrationsMap EXCEPT ![NameOf[post[k].url]] = Append(@, [url |-> post[k].url, id |-> ""])]
  /\ post' = [post EXCEPT ![k].pc = "require"]
  /\ UNCHANGED <<LastHeartBeat, sweep, del, patches, wedged>>

\* The registration becomes visible, under the write lock.
AppendRegistration(k) ==
  /\ post[k].pc = "append"
  /\ CanLock
  /\ registrationsMap' =
       [registrationsMap EXCEPT ![NameOf[post[k].url]] =
          Append(@, [url |-> post[k].url, id |-> k])]
  /\ post' = [post EXCEPT ![k].pc = "require"]
  /\ UNCHANGED <<LastHeartBeat, sweep, del, patches, wedged>>

\* sendRequiredServices up to the POST to the service: under the read lock,
\* which is kept unless there is nothing to send.
SendRequiredServices(k) ==
  LET added == [n \in Names |->
                  IF n \in RequiredServices(NameOf[post[k].url])
                  THEN registrationsMap[n] ELSE <<>>]
  IN
  /\ post[k].pc = "require"
  /\ CanRLock
  /\ post' = [post EXCEPT ![k].pc = IF added = NoLists THEN "announce" ELSE "sending",
                          ![k].added = added]
  /\ UNCHANGED <<registrationsMap, LastHeartBeat, sweep, del, patches, wedged>>

\* The service answered the patch, or the request failed; add will return
\* the error, so that decides what the handler replies.
SentRequiredServices(k, reply) ==
  /\ post[k].pc = "sending"
  /\ post' = [post EXCEPT ![k].pc = "announce", ![k].added = NoLists, ![k].reply = reply]
  /\ UNCHANGED <<registrationsMap, LastHeartBeat, sweep, del, patches, wedged>>

\* Mutant: the registration is not announced.
AnnounceRegistrationSilently(k) ==
  /\ post[k].pc = "announce"
  /\ post' = [post EXCEPT ![k].pc = post[k].reply]
  /\ UNCHANGED <<registrationsMap, LastHeartBeat, sweep, del, patches, wedged>>

\* add tells everyone; the response is the ServiceID, or 500 if the service
\* could not be sent what it requires.
AnnounceRegistration(k) ==
  /\ post[k].pc = "announce"
  /\ notify("added", [url |-> post[k].url, id |-> k])
  /\ post' = [post EXCEPT ![k].pc = post[k].reply]
  /\ UNCHANGED <<registrationsMap, LastHeartBeat, sweep, del, wedged>>

\* The response leaves the server, or the connection is closed, and the
\* goroutine ends.
EndPost(k) ==
  /\ post[k].pc \in {"ok", "failed", "broken"}
  /\ post' = [post EXCEPT ![k] = NoPost]
  /\ UNCHANGED <<registrationsMap, LastHeartBeat, sweep, del, patches, wedged>>

-----------------------------------------------------------------------------
\* The first half of remove: search by URL and notify, without the lock.
FindAndNotify(name, url, i) ==
  LET list == registrationsMap[name] IN
  /\ FirstAt(list, i, LAMBDA r : r.url = url)
  /\ notify("removed", list[i])

\* Mutant: the shortened slice is not stored.
RemoveAtIndexUnstored(name, i) ==
  /\ CanLock
  /\ i <= Len(registrationsMap[name])
  /\ UNCHANGED registrationsMap

\* The second half of remove: the deletion by index, under the lock.
RemoveAtIndex(name, i) ==
  /\ CanLock
  /\ i <= Len(registrationsMap[name])
  /\ registrationsMap' = [registrationsMap EXCEPT ![name] = DeleteAt(@, i)]

\* The deletion meets a list that has become too short and panics.
RemoveOutOfRange(name, i) == CanLock /\ i > Len(registrationsMap[name])

\* DELETE with a serviceName that is registered under the URL.
ServeDelete(name, url) ==
  /\ del.pc = "idle"
  /\ \E i \in DOMAIN registrationsMap[name] :
       /\ FindAndNotify(name, url, i)
       /\ del' = [pc |-> "remove", name |-> name, i |-> i]
  /\ UNCHANGED <<registrationsMap, LastHeartBeat, post, sweep, wedged>>

\* The end of a DELETE.  A panic is recovered by net/http; the lock stays.
FinishDelete ==
  /\ del.pc = "remove"
  /\ \/ RemoveAtIndex(del.name, del.i) /\ UNCHANGED wedged
     \/ RemoveOutOfRange(del.name, del.i) /\ wedged' = TRUE /\ UNCHANGED registrationsMap
  /\ del' = NoDelete
  /\ UNCHANGED <<LastHeartBeat, post, sweep, patches>>

-----------------------------------------------------------------------------
\* removeInactiveServices copies the registrations ...
SweepSnapshot ==
  /\ sweep.pc = "idle"
  /\ CanRLock
  /\ sweep' = [sweep EXCEPT !.pc = "copy", !.snapshot = registrationsMap]
  /\ UNCHANGED <<registrationsMap, LastHeartBeat, post, del, patches, wedged>>

\* Mutant: the heartbeats are not copied.
SweepHeartbeatsSkipped ==
  /\ sweep.pc = "copy"
  /\ sweep' = [sweep EXCEPT !.pc = "check"]
  /\ UNCHANGED <<registrationsMap, LastHeartBeat, post, del, patches, wedged>>

\* ... and then, under the other mutex, the heartbeats.
SweepHeartbeats ==
  /\ sweep.pc = "copy"
  /\ sweep' = [sweep EXCEPT !.pc = "check", !.lastHeartBeat = LastHeartBeat]
  /\ UNCHANGED <<registrationsMap, LastHeartBeat, post, del, patches, wedged>>

\* The registration of the snapshot that is examined next.
Examined(name) == Head(sweep.snapshot[name])

\* A registration of the snapshot is examined: it is active, or it is not but
\* no registration has its URL any more, or remove begins for its URL.
SweepExamine(name) ==
  /\ sweep.pc = "check"
  /\ sweep.snapshot[name] # <<>>
  /\ \/ /\ \/ ~Inactive(sweep.lastHeartBeat[Examined(name).id])
           \/ /\ Inactive(sweep.lastHeartBeat[Examined(name).id])
              /\ \A r \in RegisteredAs(name) : r.url # Examined(name).url
        /\ sweep' = [sweep EXCEPT !.snapshot[name] = Tail(@)]
        /\ UNCHANGED patches
     \/ /\ Inactive(sweep.lastHeartBeat[Examined(name).id])
        /\ \E i \in DOMAIN registrationsMap[name] :
             /\ FindAndNotify(name, Examined(name).url, i)
             /\ sweep' = [sweep EXCEPT !.snapshot[name] = Tail(@),
                                       !.pc = "remove", !.name = name, !.i = i]
  /\ UNCHANGED <<registrationsMap, LastHeartBeat, post, del, wedged>>

SweepRemove ==
  /\ sweep.pc = "remove"
  /\ RemoveAtIndex(sweep.name, sweep.i)
  /\ sweep' = [sweep EXCEPT !.pc = "check", !.i = 1]
  /\ UNCHANGED <<LastHeartBeat, post, del, patches, wedged>>

SweepEnd ==
  /\ sweep.pc = "check"
  /\ sweep.snapshot = NoLists
  /\ sweep' = NoSweep
  /\ UNCHANGED <<registrationsMap, LastHeartBeat, post, del, patches, wedged>>

\* The sweep runs in no handler: its panic ends the process.
SweepPanics ==
  /\ sweep.pc = "remove"
  /\ RemoveOutOfRange(sweep.name, sweep.i)

-----------------------------------------------------------------------------
\* A heartbeat of a registered ServiceID (HandleCommonLogic).
HandleHeartbeat(k) ==
  /\ CanRLock
  /\ IsServiceRegistered(k)
  /\ LastHeartBeat' = [LastHeartBeat EXCEPT ![k] = 0]
  /\ UNCHANGED <<registrationsMap, post, sweep, del, patches, wedged>>

\* A notify goroutine has sent its patch, or failed to.
PatchGone(p) ==
  /\ p \in BagToSet(patches)
  /\ patches' = patches (-) SetToBag({p})
  /\ UNCHANGED <<registrationsMap, LastHeartBeat, post, sweep, del, wedged>>

\* The process dies and is started again: nothing is persisted.
RegistryReset ==
  /\ registrationsMap' = NoLists
  /\ LastHeartBeat' = [k \in ServiceIDs |-> Absent]
  /\ post' = [k \in ServiceIDs |-> NoPost]
  /\ sweep' = NoSweep
  /\ del' = NoDelete
  /\ patches' = EmptyBag
  /\ wedged' = FALSE

\* Time passes for the heartbeats and for the sweep's copy of them.
Age ==
  /\ LastHeartBeat' = [k \in ServiceIDs |-> Older(LastHeartBeat[k])]
  /\ sweep' = [sweep EXCEPT !.lastHeartBeat =
                              [k \in ServiceIDs |-> Older(sweep.lastHeartBeat[k])]]
  /\ UNCHANGED <<registrationsMap, post, del, patches, wedged>>

-----------------------------------------------------------------------------
Patch == [to : Instances, kind : {"added", "removed"}, reg : Registration]

PostGoroutine ==
  [pc : {"none", "check", "drop", "store", "append", "require", "sending",
         "announce", "ok", "failed", "broken"},
   url : Instances, i : Nat \ {0}, n : Nat, kept : Seq(Registration),
   added : Lists, reply : {"ok", "failed"}]

SweepGoroutine ==
  [pc : {"idle", "copy", "check", "remove"}, name : Names, i : Nat \ {0},
   snapshot : Lists, lastHeartBeat : [ServiceIDs -> Ages]]

\* The registry's variables hold values of their types.
RegistryTypeOK ==
  /\ registrationsMap \in Lists
  /\ LastHeartBeat \in [ServiceIDs -> Ages]
  /\ post \in [ServiceIDs -> PostGoroutine]
  /\ sweep \in SweepGoroutine
  /\ del \in [pc : {"idle", "remove"}, name : Names, i : Nat \ {0}]
  /\ BagToSet(patches) \subseteq Patch
  /\ wedged \in BOOLEAN

\* ServiceID k has a heartbeat on record.
Heard(k) == LastHeartBeat[k] # Absent

\* Whoever is registered has a heartbeat on record, whatever interleaves: the
\* POST handler starts the clock of a ServiceID before it adds it (line 226).
RegisteredIsHeard ==
  \A n \in Names : \A k \in IDsIn(registrationsMap[n]) : Heard(k)

\* The sweep never judges a registration by the zero time of a missing map
\* entry: it copies the registrations before the heartbeats (lines 289-302),
\* so every registration it has copied has its heartbeat copied too.
SweepJudgesOnHeard ==
  sweep.pc \in {"check", "remove"} =>
    \A n \in Names : \A k \in IDsIn(sweep.snapshot[n]) :
      sweep.lastHeartBeat[k] # Absent

\* What makes the two inductive: the clock of a POST is started before the
\* goroutine does anything else, what an unlocked deletion keeps was registered,
\* and so was what the sweep has copied when it turns to the heartbeats.
HeardInv ==
  /\ RegisteredIsHeard
  /\ \A k \in ServiceIDs : post[k].pc # "none" => Heard(k)
  /\ \A k \in ServiceIDs : \A j \in IDsIn(post[k].kept) : Heard(j)
  /\ sweep.pc = "copy" =>
       \A n \in Names : \A k \in IDsIn(sweep.snapshot[n]) : Heard(k)
  /\ SweepJudgesOnHeard
=============================================================================
