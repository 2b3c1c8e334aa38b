--------------------------- MODULE DiscoveryProofs ---------------------------
(***************************************************************************)
(* Invariants of service discovery for any number of services, names and   *)
(* uuids, any limit of inactivity, with and without overlapping operations *)
(* and lost messages.  What holds of the registry's own actions comes      *)
(* first, then the client's side and both composed.                        *)
(***************************************************************************)
EXTENDS Discovery, FiniteSetTheorems, TLAPS

-----------------------------------------------------------------------------
(* Lists of registrations. *)

\* Deleting a position leaves a list of the same kind of elements.
LEMMA DeleteAtType ==
  ASSUME NEW S, NEW list \in Seq(S), NEW i \in 1..Len(list)
  PROVE  DeleteAt(list, i) \in Seq(S)
BY DEF DeleteAt

\* Deleting a position adds no ServiceID.
LEMMA DeleteAtIDs ==
  ASSUME NEW list \in Seq(Registration), NEW i \in 1..Len(list)
  PROVE  IDsIn(DeleteAt(list, i)) \subseteq IDsIn(list)
<1> DEFINE left == SubSeq(list, 1, i - 1)
           right == SubSeq(list, i + 1, Len(list))
<1>1. /\ left \in Seq(Registration) /\ Len(left) = i - 1
      /\ right \in Seq(Registration) /\ Len(right) = Len(list) - i
      /\ \A j \in 1..(i - 1) : left[j] = list[j]
      /\ \A j \in 1..(Len(list) - i) : right[j] = list[j + i]
  OBVIOUS
<1> HIDE DEF left, right
<1>2. /\ DOMAIN (left \o right) = 1..(Len(list) - 1)
      /\ \A j \in 1..(Len(list) - 1) :
           (left \o right)[j] = IF j <= i - 1 THEN left[j] ELSE right[j - (i - 1)]
  BY <1>1
<1>3. \A j \in 1..(Len(list) - 1) : \E m \in 1..Len(list) : (left \o right)[j] = list[m]
  <2> TAKE j \in 1..(Len(list) - 1)
  <2>1. CASE j <= i - 1
    BY <1>1, <1>2, <2>1
  <2>2. CASE j > i - 1
    <3>1. (left \o right)[j] = list[j + 1]
      BY <1>1, <1>2, <2>2
    <3>2. j + 1 \in 1..Len(list)
      OBVIOUS
    <3> QED BY <3>1, <3>2
  <2>3. j <= i - 1 \/ j > i - 1
    OBVIOUS
  <2> QED BY <2>1, <2>2, <2>3
<1>4. IDsIn(left \o right) \subseteq IDsIn(list)
  BY <1>2, <1>3 DEF IDsIn
<1> QED BY <1>4 DEF DeleteAt, left, right

\* An empty map of lists.
LEMMA NoListsType == NoLists \in Lists
BY DEF NoLists, Lists

\* Some service has a name, and every service has one of Names.
LEMMA NamesNonempty == Names # {} /\ \A s \in Instances : NameOf[s] \in Names
BY NameAssumption DEF Names

\* The records of goroutines that do not run have their types.
LEMMA NoneTypes ==
  /\ NoPost \in PostGoroutine
  /\ NoSweep \in SweepGoroutine
  /\ NoDelete \in [pc : {"idle", "remove"}, name : Names, i : Nat \ {0}]
<1>1. (CHOOSE s \in Instances : TRUE) \in Instances
  BY NameAssumption
<1>2. (CHOOSE n \in Names : TRUE) \in Names
  BY NamesNonempty
<1>3. Absent \in Ages
  BY InactiveAssumption DEF Absent, Ages
<1> QED BY <1>1, <1>2, <1>3, NoListsType
        DEF NoPost, NoSweep, NoDelete, PostGoroutine, SweepGoroutine

-----------------------------------------------------------------------------
(* Type correctness. *)

\* notify only adds patches.
LEMMA notifyType ==
  ASSUME RegistryTypeOK,
         NEW kind \in {"added", "removed"}, NEW reg \in Registration,
         notify(kind, reg)
  PROVE  BagToSet(patches') \subseteq Patch
<1> DEFINE subscribers == Subscribers(NameOf[reg.url])
           UrlAt(q) == registrationsMap[q[1]][q[2]].url
           new == {[to |-> UrlAt(q), kind |-> kind, reg |-> reg] : q \in subscribers}
           B == [p \in new |-> Cardinality({q \in subscribers : UrlAt(q) = p.to})]
<1>1. \A q \in subscribers : UrlAt(q) \in Instances
  <2> TAKE q \in subscribers
  <2>1. PICK n \in Names : q \in {n} \X DOMAIN registrationsMap[n]
    BY DEF Subscribers
  <2>2. q[1] \in Names /\ q[2] \in DOMAIN registrationsMap[q[1]]
    BY <2>1
  <2>3. registrationsMap[q[1]] \in Seq(Registration)
    BY <2>2 DEF RegistryTypeOK, Lists
  <2>4. registrationsMap[q[1]][q[2]] \in Registration
    BY <2>2, <2>3
  <2> QED BY <2>4 DEF Registration
<1>2. new \subseteq Patch
  BY <1>1 DEF Patch
<1>3. patches' = patches (+) B
  BY DEF notify
<1>4. DOMAIN (patches (+) B) = DOMAIN patches \cup DOMAIN B
  BY DEF (+), BagToSet
<1>5. DOMAIN B = new
  OBVIOUS
<1> QED BY <1>2, <1>3, <1>4, <1>5 DEF RegistryTypeOK, BagToSet

\* The duplicate check goes on with a well-typed goroutine.
LEMMA NextIterationType ==
  ASSUME RegistryTypeOK, NEW k \in ServiceIDs
  PROVE  NextIteration(k) \in PostGoroutine
<1>1. post[k] \in PostGoroutine
  BY DEF RegistryTypeOK
<1>2. <<>> \in Seq(Registration)
  OBVIOUS
<1>3. post[k].i + 1 \in Nat \ {0} /\ 1 \in Nat \ {0} /\ 0 \in Nat
  BY <1>1 DEF PostGoroutine
<1>4. [post[k] EXCEPT !.pc = "check", !.kept = <<>>, !.i = @ + 1] \in PostGoroutine
  BY <1>1, <1>2, <1>3, Zenon DEF PostGoroutine
<1>5. [post[k] EXCEPT !.pc = "append", !.kept = <<>>, !.i = 1, !.n = 0] \in PostGoroutine
  BY <1>1, <1>2, <1>3, Zenon DEF PostGoroutine
<1> QED BY <1>4, <1>5 DEF NextIteration

\* The deletion of remove leaves lists of registrations.
LEMMA RemoveAtIndexType ==
  ASSUME RegistryTypeOK, NEW n \in Names, NEW i \in Nat \ {0}, RemoveAtIndex(n, i)
  PROVE  registrationsMap' \in Lists
<1>1. registrationsMap[n] \in Seq(Registration) /\ i \in 1..Len(registrationsMap[n])
  BY DEF RegistryTypeOK, Lists, RemoveAtIndex
<1>2. DeleteAt(registrationsMap[n], i) \in Seq(Registration)
  BY <1>1, DeleteAtType
<1> QED BY <1>2 DEF RegistryTypeOK, Lists, RemoveAtIndex

\* The search of remove sends patches and yields an index of the list.
LEMMA FindAndNotifyType ==
  ASSUME RegistryTypeOK, NEW n \in Names, NEW url, NEW i \in DOMAIN registrationsMap[n],
         FindAndNotify(n, url, i)
  PROVE  BagToSet(patches') \subseteq Patch /\ i \in Nat \ {0}
<1>1. registrationsMap[n] \in Seq(Registration)
  BY DEF RegistryTypeOK, Lists
<1>2. registrationsMap[n][i] \in Registration /\ i \in Nat \ {0}
  BY <1>1
<1>3. notify("removed", registrationsMap[n][i])
  BY DEF FindAndNotify
<1> QED BY <1>2, <1>3, notifyType

\* The actions that begin an operation ...
BeginAction(s, k, n) == ServePost(s, k) \/ ServeDelete(n, s) \/ SweepSnapshot

\* ... and all the others.
OngoingAction(k, n, p, reply) ==
  \/ CheckDuplicate(k)
  \/ DropDuplicate(k)
  \/ StoreShortened(k)
  \/ AppendRegistration(k)
  \/ SendRequiredServices(k)
  \/ SentRequiredServices(k, reply)
  \/ AnnounceRegistration(k)
  \/ EndPost(k)
  \/ FinishDelete
  \/ SweepHeartbeats
  \/ SweepExamine(n)
  \/ SweepRemove
  \/ SweepEnd
  \/ HandleHeartbeat(k)
  \/ PatchGone(p)
  \/ RegistryReset
  \/ Age
  \/ UNCHANGED registryVars

\* Any action of the registry.
RegistryAction(s, k, n, p, reply) == BeginAction(s, k, n) \/ OngoingAction(k, n, p, reply)

\* Every action of the registry keeps its variables in their types.
THEOREM RegistryActionsType ==
  ASSUME RegistryTypeOK,
         NEW s \in Instances, NEW k \in ServiceIDs, NEW n \in Names, NEW p \in Patch,
         NEW reply \in {"ok", "failed"},
         RegistryAction(s, k, n, p, reply)
  PROVE  RegistryTypeOK'
<1> USE DEF RegistryTypeOK
<1> DEFINE list == ListOf(k)
<1>0. post[k] \in PostGoroutine /\ NameOf[post[k].url] \in Names
  BY NamesNonempty DEF PostGoroutine
<1>a. list \in Seq(Registration)
  BY <1>0 DEF ListOf, Lists
<1>b. 0 \in Ages /\ Absent \in Ages /\ \A a \in Ages : Older(a) \in Ages
  BY InactiveAssumption DEF Absent, Long, Ages, Older
<1>1. CASE ServePost(s, k)
  <2> DEFINE len == Len(registrationsMap[NameOf[s]])
             new == [NoPost EXCEPT !.pc = IF len = 0 THEN "append" ELSE "check",
                                   !.url = s, !.n = len]
  <2>1. len \in Nat
    BY NamesNonempty DEF Lists
  <2> HIDE DEF len
  <2>2. new \in PostGoroutine
    BY <2>1, NoneTypes DEF PostGoroutine
  <2>3. post' = [post EXCEPT ![k] = new] /\ LastHeartBeat' = [LastHeartBeat EXCEPT ![k] = 0]
    BY <1>1 DEF ServePost, len
  <2> QED BY <1>b, <1>1, <2>2, <2>3 DEF ServePost
<1>2. CASE CheckDuplicate(k)
  <2>1. CASE Panic(k)
    BY <1>0, <1>2, <2>1 DEF CheckDuplicate, Panic, PostGoroutine
  <2>2. CASE post' = [post EXCEPT ![k] = NextIteration(k)] /\ UNCHANGED <<registrationsMap, patches>>
    BY <1>2, <2>2, NextIterationType DEF CheckDuplicate
  <2>3. CASE /\ post[k].i <= Len(list)
             /\ notify("removed", list[post[k].i])
             /\ post' = [post EXCEPT ![k].pc = "drop"]
             /\ UNCHANGED registrationsMap
    <3>1. list[post[k].i] \in Registration
      BY <1>0, <1>a, <2>3 DEF PostGoroutine
    <3>2. BagToSet(patches') \subseteq Patch
      BY <2>3, <3>1, notifyType
    <3>3. post' \in [ServiceIDs -> PostGoroutine]
      BY <1>0, <2>3 DEF PostGoroutine
    <3> QED BY <1>2, <2>3, <3>2, <3>3 DEF CheckDuplicate
  <2> QED BY <1>2, <2>1, <2>2, <2>3 DEF CheckDuplicate
<1>3. CASE DropDuplicate(k)
  <2>1. CASE Panic(k)
    BY <1>0, <1>3, <2>1 DEF DropDuplicate, Panic, PostGoroutine
  <2>2. CASE ~Panic(k)
    <3> DEFINE kept == DeleteAt(list, post[k].i)
    <3>1. /\ post[k].i <= Len(list)
          /\ registrationsMap' = [registrationsMap EXCEPT ![NameOf[post[k].url]] =
                                    Append(kept, list[Len(list)])]
          /\ post' = [post EXCEPT ![k].pc = "store", ![k].kept = kept]
          /\ UNCHANGED <<LastHeartBeat, sweep, del, patches, wedged>>
      BY <1>0, <1>3, <2>2 DEF DropDuplicate, ListOf, Lists
    <3>2. post[k].i \in 1..Len(list) /\ list[Len(list)] \in Registration
      BY <1>0, <1>a, <3>1 DEF PostGoroutine
    <3>3. kept \in Seq(Registration)
      BY <1>a, <3>2, DeleteAtType
    <3> HIDE DEF kept
    <3>4. Append(kept, list[Len(list)]) \in Seq(Registration)
      BY <3>2, <3>3
    <3>5. registrationsMap' \in Lists
      BY <1>0, <3>1, <3>4 DEF Lists
    <3>6. post' \in [ServiceIDs -> PostGoroutine]
      BY <1>0, <3>1, <3>3 DEF PostGoroutine
    <3> QED BY <3>1, <3>5, <3>6
  <2> QED BY <2>1, <2>2
<1>4. CASE StoreShortened(k)
  <2>1. post[k].kept \in Seq(Registration)
    BY <1>0 DEF PostGoroutine
  <2>2. registrationsMap' \in Lists
    BY <1>0, <1>4, <2>1 DEF StoreShortened, Lists
  <2> QED BY <1>4, <2>2, NextIterationType DEF StoreShortened
<1>5. CASE AppendRegistration(k)
  <2>1. Append(list, [url |-> post[k].url, id |-> k]) \in Seq(Registration)
    BY <1>0, <1>a DEF PostGoroutine, Registration
  <2>2. registrationsMap' \in Lists
    BY <1>0, <1>5, <2>1 DEF AppendRegistration, Lists, ListOf
  <2>3. post' \in [ServiceIDs -> PostGoroutine]
    BY <1>0, <1>5 DEF AppendRegistration, PostGoroutine
  <2> QED BY <1>5, <2>2, <2>3 DEF AppendRegistration
<1>6. CASE SendRequiredServices(k)
  <2> DEFINE added == [m \in Names |-> IF m \in RequiredServices(NameOf[post[k].url])
                                       THEN registrationsMap[m] ELSE <<>>]
  <2>1. added \in Lists
    BY DEF Lists
  <2> HIDE DEF added
  <2>2. post' = [post EXCEPT ![k].pc = IF added = NoLists THEN "announce" ELSE "sending",
                             ![k].added = added]
    BY <1>6 DEF SendRequiredServices, added
  <2>3. post' \in [ServiceIDs -> PostGoroutine]
    BY <1>0, <2>1, <2>2 DEF PostGoroutine
  <2> QED BY <1>6, <2>3 DEF SendRequiredServices
<1>7. CASE SentRequiredServices(k, reply)
  BY <1>0, <1>7, NoListsType DEF SentRequiredServices, PostGoroutine
<1>8. CASE AnnounceRegistration(k)
  <2>1. [url |-> post[k].url, id |-> k] \in Registration
    BY <1>0 DEF PostGoroutine, Registration
  <2>2. BagToSet(patches') \subseteq Patch
    BY <1>8, <2>1, notifyType DEF AnnounceRegistration
  <2>3. post' \in [ServiceIDs -> PostGoroutine]
    BY <1>0, <1>8 DEF AnnounceRegistration, PostGoroutine
  <2> QED BY <1>8, <2>2, <2>3 DEF AnnounceRegistration
<1>9. CASE EndPost(k)
  BY <1>9, NoneTypes DEF EndPost
<1>10. CASE ServeDelete(n, s)
  <2>1. PICK i \in DOMAIN registrationsMap[n] :
          /\ FindAndNotify(n, s, i)
          /\ del' = [pc |-> "remove", name |-> n, i |-> i]
    BY <1>10 DEF ServeDelete
  <2>2. BagToSet(patches') \subseteq Patch /\ i \in Nat \ {0}
    BY <2>1, FindAndNotifyType
  <2> QED BY <1>10, <2>1, <2>2 DEF ServeDelete
<1>11. CASE FinishDelete
  <2>1. registrationsMap' \in Lists /\ wedged' \in BOOLEAN
    <3>1. CASE RemoveAtIndex(del.name, del.i) /\ UNCHANGED wedged
      BY <3>1, RemoveAtIndexType
    <3>2. CASE wedged' = TRUE /\ UNCHANGED registrationsMap
      BY <3>2
    <3> QED BY <1>11, <3>1, <3>2 DEF FinishDelete
  <2> QED BY <1>11, <2>1, NoneTypes DEF FinishDelete
<1>12. CASE SweepSnapshot
  BY <1>12 DEF SweepSnapshot, SweepGoroutine
<1>13. CASE SweepHeartbeats
  BY <1>13 DEF SweepHeartbeats, SweepGoroutine
<1>14. CASE SweepExamine(n)
  <2>1. sweep.snapshot[n] \in Seq(Registration) /\ sweep.snapshot[n] # <<>>
    BY <1>14 DEF SweepExamine, SweepGoroutine, Lists
  <2>2. Tail(sweep.snapshot[n]) \in Seq(Registration)
    BY <2>1
  <2> DEFINE rest == [sweep.snapshot EXCEPT ![n] = Tail(@)]
  <2>3. rest \in Lists
    BY <2>2 DEF SweepGoroutine, Lists
  <2> HIDE DEF rest
  <2>4. CASE sweep' = [sweep EXCEPT !.snapshot = rest] /\ UNCHANGED patches
    BY <1>14, <2>3, <2>4 DEF SweepExamine, SweepGoroutine
  <2>5. CASE \E i \in DOMAIN registrationsMap[n] :
               /\ FindAndNotify(n, Examined(n).url, i)
               /\ sweep' = [sweep EXCEPT !.snapshot = rest, !.pc = "remove",
                                         !.name = n, !.i = i]
    <3>1. PICK i \in DOMAIN registrationsMap[n] :
            /\ FindAndNotify(n, Examined(n).url, i)
            /\ sweep' = [sweep EXCEPT !.snapshot = rest, !.pc = "remove",
                                      !.name = n, !.i = i]
      BY <2>5
    <3>2. BagToSet(patches') \subseteq Patch /\ i \in Nat \ {0}
      BY <3>1, FindAndNotifyType
    <3>3. sweep' \in SweepGoroutine
      BY <2>3, <3>1, <3>2 DEF SweepGoroutine
    <3> QED BY <1>14, <3>2, <3>3 DEF SweepExamine
  <2> QED BY <1>14, <2>4, <2>5 DEF SweepExamine, rest
<1>15. CASE SweepRemove
  <2>1. registrationsMap' \in Lists
    BY <1>15, RemoveAtIndexType DEF SweepRemove, SweepGoroutine
  <2>2. 1 \in Nat \ {0}
    OBVIOUS
  <2>3. sweep' \in SweepGoroutine
    BY <1>15, <2>2, Zenon DEF SweepRemove, SweepGoroutine
  <2> QED BY <1>15, <2>1, <2>3 DEF SweepRemove
<1>16. CASE SweepEnd
  BY <1>16, NoneTypes DEF SweepEnd
<1>17. CASE HandleHeartbeat(k)
  BY <1>b, <1>17 DEF HandleHeartbeat
<1>18. CASE PatchGone(p)
  <2>1. BagToSet(patches') \subseteq BagToSet(patches)
    BY <1>18 DEF PatchGone, (-), BagToSet
  <2> QED BY <1>18, <2>1 DEF PatchGone
<1>19. CASE RegistryReset
  <2>1. BagToSet(EmptyBag) = {}
    BY DEF BagToSet, EmptyBag, SetToBag
  <2> QED BY <1>b, <1>19, <2>1, NoneTypes, NoListsType DEF RegistryReset
<1>20. CASE Age
  <2>1. LastHeartBeat' \in [ServiceIDs -> Ages]
    BY <1>b, <1>20 DEF Age
  <2>2. [j \in ServiceIDs |-> Older(sweep.lastHeartBeat[j])] \in [ServiceIDs -> Ages]
    BY <1>b DEF SweepGoroutine
  <2>3. sweep' \in SweepGoroutine
    BY <1>20, <2>2 DEF Age, SweepGoroutine
  <2> QED BY <1>20, <2>1, <2>3 DEF Age
<1>21. CASE UNCHANGED registryVars
  BY <1>21 DEF registryVars
<1> QED BY <1>1, <1>2, <1>3, <1>4, <1>5, <1>6, <1>7, <1>8, <1>9, <1>10, <1>11, <1>12,
           <1>13, <1>14, <1>15, <1>16, <1>17, <1>18, <1>19, <1>20, <1>21
        DEF RegistryAction, BeginAction, OngoingAction

-----------------------------------------------------------------------------
(* Heartbeats on record. *)

\* The ServiceIDs of a list of registrations are ServiceIDs.
LEMMA IDsInType ==
  ASSUME NEW list \in Seq(Registration)
  PROVE  IDsIn(list) \subseteq ServiceIDs
<1>1. \A i \in DOMAIN list : list[i] \in Registration
  OBVIOUS
<1> QED BY <1>1 DEF IDsIn, Registration

\* The empty list has none.
LEMMA EmptyIDs == IDsIn(<<>>) = {}
BY DEF IDsIn

\* Appending adds the ServiceID of the new registration at most.
LEMMA AppendIDs ==
  ASSUME NEW list \in Seq(Registration), NEW r \in Registration
  PROVE  IDsIn(Append(list, r)) \subseteq IDsIn(list) \cup {r.id}
<1>1. /\ DOMAIN Append(list, r) = 1..(Len(list) + 1)
      /\ \A j \in 1..Len(list) : Append(list, r)[j] = list[j]
      /\ Append(list, r)[Len(list) + 1] = r
  OBVIOUS
<1>2. \A j \in 1..(Len(list) + 1) : j \in 1..Len(list) \/ j = Len(list) + 1
  OBVIOUS
<1>3. DOMAIN list = 1..Len(list)
  OBVIOUS
<1> QED BY <1>1, <1>2, <1>3, Zenon DEF IDsIn

\* Going on to the next registration adds none.
LEMMA TailIDs ==
  ASSUME NEW list \in Seq(Registration), list # <<>>
  PROVE  IDsIn(Tail(list)) \subseteq IDsIn(list)
<1>1. /\ DOMAIN Tail(list) = 1..(Len(list) - 1)
      /\ \A j \in 1..(Len(list) - 1) : Tail(list)[j] = list[j + 1]
  OBVIOUS
<1>2. \A j \in 1..(Len(list) - 1) : j + 1 \in DOMAIN list
  OBVIOUS
<1> QED BY <1>1, <1>2, Zenon DEF IDsIn

\* A clock that runs goes on running.
LEMMA OlderIsHeard ==
  ASSUME NEW a \in Ages, a # Absent
  PROVE  Older(a) # Absent
BY InactiveAssumption DEF Ages, Older, Absent, Long

\* Only the death of the registry takes a heartbeat off the record.
LEMMA HeardMonotone ==
  ASSUME RegistryTypeOK,
         NEW s \in Instances, NEW k \in ServiceIDs, NEW n \in Names, NEW p \in Patch,
         NEW reply \in {"ok", "failed"},
         RegistryAction(s, k, n, p, reply), ~RegistryReset,
         NEW j \in ServiceIDs, Heard(j)
  PROVE  Heard(j)'
<1> USE DEF RegistryTypeOK, Heard
<1>1. CASE ServePost(s, k)
  BY <1>1, InactiveAssumption DEF ServePost, Absent
<1>2. CASE HandleHeartbeat(k)
  BY <1>2, InactiveAssumption DEF HandleHeartbeat, Absent
<1>3. CASE Age
  BY <1>3, OlderIsHeard DEF Age
<1>4. CASE UNCHANGED LastHeartBeat
  BY <1>4
<1> QED
  BY <1>1, <1>2, <1>3, <1>4
     DEF RegistryAction, BeginAction, OngoingAction, CheckDuplicate, DropDuplicate, StoreShortened, AppendRegistration,
         SendRequiredServices, SentRequiredServices, AnnounceRegistration, EndPost,
         ServeDelete, FinishDelete, SweepSnapshot, SweepHeartbeats, SweepExamine,
         SweepRemove, SweepEnd, PatchGone, registryVars

\* Every action of the registry preserves HeardInv.
THEOREM RegistryActionsHeard ==
  ASSUME RegistryTypeOK, HeardInv,
         NEW s \in Instances, NEW k \in ServiceIDs, NEW n \in Names, NEW p \in Patch,
         NEW reply \in {"ok", "failed"},
         RegistryAction(s, k, n, p, reply)
  PROVE  HeardInv'
<1> DEFINE list == ListOf(k)
           name == NameOf[post[k].url]
<1>a. /\ post[k] \in PostGoroutine /\ name \in Names
      /\ \A j \in ServiceIDs : post[j] \in PostGoroutine
  BY NamesNonempty DEF PostGoroutine, RegistryTypeOK
<1>b. list \in Seq(Registration)
  BY <1>a DEF ListOf, Lists, RegistryTypeOK
<1>c. /\ \A m \in Names : IDsIn(registrationsMap[m]) \subseteq ServiceIDs
      /\ \A m \in Names : IDsIn(sweep.snapshot[m]) \subseteq ServiceIDs
      /\ \A j \in ServiceIDs : IDsIn(post[j].kept) \subseteq ServiceIDs
  BY IDsInType DEF RegistryTypeOK, Lists, SweepGoroutine, PostGoroutine
<1>d. SUFFICES ASSUME ~RegistryReset PROVE HeardInv'
  <2>1. ASSUME RegistryReset PROVE HeardInv'
    <3>1. IDsIn(<<>>) = {}
      BY EmptyIDs
    <3> QED BY <2>1, <3>1 DEF RegistryReset, HeardInv, RegisteredIsHeard,
                SweepJudgesOnHeard, NoLists, NoPost, NoSweep
  <2> QED BY <2>1
<1>e. \A j \in ServiceIDs : Heard(j) => Heard(j)'
  BY <1>d, HeardMonotone

(* The conjuncts that an action leaves alone. *)
<1>f. ASSUME UNCHANGED registrationsMap PROVE RegisteredIsHeard'
  BY <1>c, <1>e, <1>f DEF HeardInv, RegisteredIsHeard
<1>g. ASSUME UNCHANGED sweep
      PROVE  /\ (sweep.pc = "copy" =>
                   \A m \in Names : \A j \in IDsIn(sweep.snapshot[m]) : Heard(j))'
             /\ SweepJudgesOnHeard'
  BY <1>c, <1>e, <1>g DEF HeardInv, SweepJudgesOnHeard
<1>h. ASSUME UNCHANGED post
      PROVE  /\ (\A j \in ServiceIDs : post[j].pc # "none" => Heard(j))'
             /\ (\A j \in ServiceIDs : \A m \in IDsIn(post[j].kept) : Heard(m))'
  BY <1>c, <1>e, <1>h DEF HeardInv
<1>i. ASSUME \A j \in ServiceIDs \ {k} : post'[j] = post[j],
             post[k].pc # "none" \/ Heard(k)',
             \A m \in IDsIn(post'[k].kept) : m \in ServiceIDs /\ (Heard(m) \/ Heard(m)')
      PROVE  /\ (\A j \in ServiceIDs : post[j].pc # "none" => Heard(j))'
             /\ (\A j \in ServiceIDs : \A m \in IDsIn(post[j].kept) : Heard(m))'
  <2>1. Heard(k)'
    BY <1>e, <1>i DEF HeardInv
  <2>2. \A m \in IDsIn(post'[k].kept) : Heard(m)'
    BY <1>e, <1>i
  <2>3. \A j \in ServiceIDs : j = k \/ j \in ServiceIDs \ {k}
    OBVIOUS
  <2>4. ASSUME NEW j \in ServiceIDs PROVE post'[j].pc # "none" => Heard(j)'
    BY <1>e, <1>i, <2>1, <2>3 DEF HeardInv
  <2>5. ASSUME NEW j \in ServiceIDs, NEW m \in IDsIn(post'[j].kept) PROVE Heard(m)'
    BY <1>c, <1>e, <1>i, <2>2, <2>3 DEF HeardInv
  <2> QED BY <2>4, <2>5
<1>j. ASSUME NEW m \in Names, NEW new,
             registrationsMap' = [registrationsMap EXCEPT ![m] = new],
             \A j \in IDsIn(new) : j \in ServiceIDs /\ (Heard(j) \/ Heard(j)')
      PROVE  RegisteredIsHeard'
  <2>1. \A q \in Names : registrationsMap'[q] = IF q = m THEN new ELSE registrationsMap[q]
    BY <1>j DEF RegistryTypeOK, Lists
  <2>2. \A q \in Names : \A j \in IDsIn(registrationsMap'[q]) : Heard(j)'
    BY <1>c, <1>e, <1>j, <2>1 DEF HeardInv, RegisteredIsHeard
  <2> QED BY <2>2 DEF RegisteredIsHeard
<1>k. ASSUME NEW m \in Names, NEW i \in Nat \ {0}, RemoveAtIndex(m, i)
      PROVE  RegisteredIsHeard'
  <2>1. registrationsMap[m] \in Seq(Registration) /\ i \in 1..Len(registrationsMap[m])
    BY <1>k DEF RegistryTypeOK, Lists, RemoveAtIndex
  <2>2. IDsIn(DeleteAt(registrationsMap[m], i)) \subseteq IDsIn(registrationsMap[m])
    BY <2>1, DeleteAtIDs
  <2>3. registrationsMap' = [registrationsMap EXCEPT ![m] = DeleteAt(registrationsMap[m], i)]
    BY <1>k DEF RemoveAtIndex
  <2> QED BY <1>c, <1>j, <2>2, <2>3 DEF HeardInv, RegisteredIsHeard

<1>1. CASE ServePost(s, k)
  <2>1. Heard(k)'
    BY <1>1, InactiveAssumption DEF ServePost, Heard, Absent, RegistryTypeOK
  <2>2. post'[k].kept = <<>> /\ \A j \in ServiceIDs \ {k} : post'[j] = post[j]
    BY <1>1 DEF ServePost, NoPost, RegistryTypeOK
  <2>3. UNCHANGED <<registrationsMap, sweep>>
    BY <1>1 DEF ServePost
  <2> QED BY <1>f, <1>g, <1>i, <2>1, <2>2, <2>3, EmptyIDs DEF HeardInv
<1>2. CASE CheckDuplicate(k)
  <2>1. \/ post' = [post EXCEPT ![k].pc = "broken"]
        \/ post' = [post EXCEPT ![k] = NextIteration(k)]
        \/ post' = [post EXCEPT ![k].pc = "drop"]
    BY <1>2 DEF CheckDuplicate, Panic
  <2>a. NextIteration(k).kept = <<>>
    BY <1>a DEF NextIteration, PostGoroutine
  <2>b. post[k].pc = "check"
    BY <1>2 DEF CheckDuplicate
  <2>2. /\ \A j \in ServiceIDs \ {k} : post'[j] = post[j]
        /\ post'[k].kept \in {post[k].kept, <<>>}
    BY <1>a, <2>1, <2>a DEF RegistryTypeOK, PostGoroutine
  <2>3. \A m \in IDsIn(post'[k].kept) : m \in ServiceIDs /\ Heard(m)
    BY <1>c, <2>2, EmptyIDs DEF HeardInv
  <2>4. UNCHANGED <<registrationsMap, sweep>>
    BY <1>2 DEF CheckDuplicate, Panic
  <2> QED BY <1>f, <1>g, <1>i, <2>b, <2>2, <2>3, <2>4 DEF HeardInv
<1>3. CASE DropDuplicate(k)
  <2> DEFINE kept == DeleteAt(list, post[k].i)
  <2>1. CASE Panic(k)
    <3>1. /\ post[k].pc # "none"
          /\ \A j \in ServiceIDs \ {k} : post'[j] = post[j]
          /\ post'[k].kept = post[k].kept
      BY <1>3, <1>a, <2>1 DEF DropDuplicate, Panic, RegistryTypeOK, PostGoroutine
    <3>2. UNCHANGED <<registrationsMap, sweep>>
      BY <1>3, <2>1 DEF DropDuplicate, Panic
    <3> QED BY <1>c, <1>f, <1>g, <1>i, <3>1, <3>2 DEF HeardInv
  <2>2. CASE ~Panic(k)
    <3>1. /\ post[k].pc # "none"
          /\ post[k].i <= Len(list)
          /\ registrationsMap' =
               [registrationsMap EXCEPT ![name] = Append(kept, list[Len(list)])]
          /\ post' = [post EXCEPT ![k].pc = "store", ![k].kept = kept]
          /\ UNCHANGED sweep
      BY <1>a, <1>3, <2>2 DEF DropDuplicate, ListOf, Lists, RegistryTypeOK
    <3>2. post[k].i \in 1..Len(list) /\ list[Len(list)] \in Registration
      BY <1>a, <1>b, <3>1 DEF PostGoroutine
    <3>3. kept \in Seq(Registration) /\ IDsIn(kept) \subseteq IDsIn(list)
      BY <1>b, <3>2, DeleteAtType, DeleteAtIDs
    <3>4. \A j \in IDsIn(list) : j \in ServiceIDs /\ Heard(j)
      BY <1>a, <1>c DEF ListOf, HeardInv, RegisteredIsHeard
    <3> HIDE DEF kept
    <3>5. list[Len(list)].id \in IDsIn(list)
      BY <1>b, <3>2 DEF IDsIn
    <3>6. IDsIn(Append(kept, list[Len(list)])) \subseteq IDsIn(list)
      BY <3>2, <3>3, <3>5, AppendIDs
    <3>7. RegisteredIsHeard'
      BY <1>a, <1>j, <3>1, <3>4, <3>6
    <3>8. /\ \A j \in ServiceIDs \ {k} : post'[j] = post[j]
          /\ post'[k].kept = kept
      BY <1>a, <3>1 DEF RegistryTypeOK, PostGoroutine
    <3> QED BY <1>g, <1>i, <3>1, <3>3, <3>4, <3>7, <3>8 DEF HeardInv
  <2> QED BY <2>1, <2>2
<1>4. CASE StoreShortened(k)
  <2>1. /\ post[k].pc # "none"
        /\ registrationsMap' = [registrationsMap EXCEPT ![name] = post[k].kept]
        /\ post' = [post EXCEPT ![k] = NextIteration(k)]
        /\ UNCHANGED sweep
    BY <1>4 DEF StoreShortened
  <2>2. RegisteredIsHeard'
    BY <1>a, <1>c, <1>j, <2>1 DEF HeardInv
  <2>3. NextIteration(k).kept = <<>>
    BY <1>a DEF NextIteration, PostGoroutine
  <2>4. /\ \A j \in ServiceIDs \ {k} : post'[j] = post[j]
        /\ post'[k].kept = <<>>
    BY <2>1, <2>3 DEF RegistryTypeOK
  <2> QED BY <1>g, <1>i, <2>1, <2>2, <2>4, EmptyIDs DEF HeardInv
<1>5. CASE AppendRegistration(k)
  <2> DEFINE r == [url |-> post[k].url, id |-> k]
  <2>1. /\ post[k].pc # "none"
        /\ registrationsMap' = [registrationsMap EXCEPT ![name] = Append(list, r)]
        /\ post' = [post EXCEPT ![k].pc = "require"]
        /\ UNCHANGED sweep
    BY <1>a, <1>5 DEF AppendRegistration, ListOf, RegistryTypeOK, Lists
  <2>2. r \in Registration /\ r.id = k
    BY <1>a DEF Registration, PostGoroutine
  <2>3. IDsIn(Append(list, r)) \subseteq IDsIn(list) \cup {k}
    BY <1>b, <2>2, AppendIDs
  <2>4. \A j \in IDsIn(list) \cup {k} : j \in ServiceIDs /\ Heard(j)
    BY <1>a, <1>c, <2>1 DEF ListOf, HeardInv, RegisteredIsHeard
  <2>5. RegisteredIsHeard'
    BY <1>a, <1>j, <2>1, <2>3, <2>4
  <2>6. /\ \A j \in ServiceIDs \ {k} : post'[j] = post[j]
        /\ post'[k].kept = post[k].kept
    BY <1>a, <2>1 DEF RegistryTypeOK, PostGoroutine
  <2> QED BY <1>c, <1>g, <1>i, <2>1, <2>5, <2>6 DEF HeardInv
<1>6. CASE SendRequiredServices(k) \/ SentRequiredServices(k, reply) \/ AnnounceRegistration(k)
  <2>1. /\ post[k].pc # "none"
        /\ \A j \in ServiceIDs \ {k} : post'[j] = post[j]
        /\ post'[k].kept = post[k].kept
    BY <1>6, <1>a DEF SendRequiredServices, SentRequiredServices, AnnounceRegistration,
         RegistryTypeOK, PostGoroutine
  <2>2. UNCHANGED <<registrationsMap, sweep>>
    BY <1>6 DEF SendRequiredServices, SentRequiredServices, AnnounceRegistration
  <2> QED BY <1>c, <1>f, <1>g, <1>i, <2>1, <2>2 DEF HeardInv
<1>7. CASE EndPost(k)
  <2>1. /\ post[k].pc # "none"
        /\ \A j \in ServiceIDs \ {k} : post'[j] = post[j]
        /\ post'[k].kept = <<>>
    BY <1>7 DEF EndPost, NoPost, RegistryTypeOK
  <2>2. UNCHANGED <<registrationsMap, sweep>>
    BY <1>7 DEF EndPost
  <2> QED BY <1>f, <1>g, <1>i, <2>1, <2>2, EmptyIDs DEF HeardInv
<1>8. CASE FinishDelete
  <2>1. RegisteredIsHeard'
    <3>1. CASE RemoveAtIndex(del.name, del.i)
      BY <1>k, <3>1 DEF RegistryTypeOK
    <3>2. CASE UNCHANGED registrationsMap
      BY <1>f, <3>2
    <3> QED BY <1>8, <3>1, <3>2 DEF FinishDelete
  <2>2. UNCHANGED <<post, sweep>>
    BY <1>8 DEF FinishDelete
  <2> QED BY <1>g, <1>h, <2>1, <2>2 DEF HeardInv
<1>9. CASE SweepSnapshot
  <2>1. /\ sweep'.pc = "copy" /\ sweep'.snapshot = registrationsMap
        /\ UNCHANGED <<registrationsMap, post>>
    BY <1>9 DEF SweepSnapshot, RegistryTypeOK, SweepGoroutine
  <2>2. (\A m \in Names : \A j \in IDsIn(sweep.snapshot[m]) : Heard(j))'
    BY <1>c, <1>e, <2>1 DEF HeardInv, RegisteredIsHeard
  <2> QED BY <1>f, <1>h, <2>1, <2>2 DEF HeardInv, SweepJudgesOnHeard
<1>10. CASE SweepHeartbeats
  <2>1. /\ sweep.pc = "copy" /\ sweep'.pc = "check"
        /\ sweep'.snapshot = sweep.snapshot
        /\ sweep'.lastHeartBeat = LastHeartBeat
        /\ UNCHANGED <<registrationsMap, post>>
    BY <1>10 DEF SweepHeartbeats, RegistryTypeOK, SweepGoroutine
  <2>2. SweepJudgesOnHeard'
    BY <2>1 DEF HeardInv, SweepJudgesOnHeard, Heard
  <2> QED BY <1>f, <1>h, <2>1, <2>2 DEF HeardInv
<1>11. CASE SweepExamine(n)
  <2>1. sweep.snapshot[n] \in Seq(Registration) /\ sweep.snapshot[n] # <<>>
    BY <1>11 DEF SweepExamine, RegistryTypeOK, SweepGoroutine, Lists
  <2>2. IDsIn(Tail(sweep.snapshot[n])) \subseteq IDsIn(sweep.snapshot[n])
    BY <2>1, TailIDs
  <2>3. /\ sweep.pc = "check" /\ sweep'.pc \in {"check", "remove"}
        /\ sweep'.snapshot = [sweep.snapshot EXCEPT ![n] = Tail(@)]
        /\ sweep'.lastHeartBeat = sweep.lastHeartBeat
        /\ UNCHANGED <<registrationsMap, post>>
    BY <1>11 DEF SweepExamine, RegistryTypeOK, SweepGoroutine
  <2>4. \A m \in Names : IDsIn(sweep'.snapshot[m]) \subseteq IDsIn(sweep.snapshot[m])
    BY <2>2, <2>3 DEF RegistryTypeOK, SweepGoroutine, Lists
  <2>5. SweepJudgesOnHeard'
    BY <2>3, <2>4 DEF HeardInv, SweepJudgesOnHeard
  <2> QED BY <1>f, <1>h, <2>3, <2>5 DEF HeardInv
<1>12. CASE SweepRemove
  <2>1. /\ sweep.pc = "remove" /\ sweep'.pc = "check"
        /\ sweep'.snapshot = sweep.snapshot
        /\ sweep'.lastHeartBeat = sweep.lastHeartBeat
        /\ UNCHANGED post
    BY <1>12 DEF SweepRemove, RegistryTypeOK, SweepGoroutine
  <2>2. SweepJudgesOnHeard'
    BY <2>1 DEF HeardInv, SweepJudgesOnHeard
  <2>3. RegisteredIsHeard'
    BY <1>k, <1>12 DEF SweepRemove, RegistryTypeOK, SweepGoroutine
  <2> QED BY <1>h, <2>1, <2>2, <2>3 DEF HeardInv
<1>13. CASE SweepEnd
  <2>1. sweep'.pc = "idle" /\ UNCHANGED <<registrationsMap, post>>
    BY <1>13 DEF SweepEnd, NoSweep
  <2> QED BY <1>f, <1>h, <2>1 DEF HeardInv, SweepJudgesOnHeard
<1>14. CASE ServeDelete(n, s) \/ HandleHeartbeat(k) \/ PatchGone(p) \/ UNCHANGED registryVars
  <2>1. UNCHANGED <<registrationsMap, post, sweep>>
    BY <1>14 DEF ServeDelete, HandleHeartbeat, PatchGone, registryVars
  <2> QED BY <1>f, <1>g, <1>h, <2>1 DEF HeardInv
<1>15. CASE Age
  <2>1. /\ sweep'.pc = sweep.pc /\ sweep'.snapshot = sweep.snapshot
        /\ sweep'.lastHeartBeat = [j \in ServiceIDs |-> Older(sweep.lastHeartBeat[j])]
        /\ UNCHANGED <<registrationsMap, post>>
    BY <1>15 DEF Age, RegistryTypeOK, SweepGoroutine
  <2>2. \A j \in ServiceIDs :
          sweep.lastHeartBeat[j] # Absent => sweep'.lastHeartBeat[j] # Absent
    BY <2>1, OlderIsHeard DEF RegistryTypeOK, SweepGoroutine
  <2>3. SweepJudgesOnHeard'
    BY <1>c, <2>1, <2>2 DEF HeardInv, SweepJudgesOnHeard
  <2>4. (sweep.pc = "copy" =>
           \A m \in Names : \A j \in IDsIn(sweep.snapshot[m]) : Heard(j))'
    BY <1>c, <1>e, <2>1 DEF HeardInv
  <2> QED BY <1>f, <1>h, <2>1, <2>3, <2>4 DEF HeardInv
<1> QED BY <1>d, <1>1, <1>2, <1>3, <1>4, <1>5, <1>6, <1>7, <1>8, <1>9, <1>10, <1>11, <1>12,
           <1>13, <1>14, <1>15
        DEF RegistryAction, BeginAction, OngoingAction

-----------------------------------------------------------------------------
(* The client's side. *)

\* Removing a provider by its ServiceID leaves a list of registrations.
LEMMA WithoutFirstType ==
  ASSUME NEW list \in Seq(Registration), NEW k
  PROVE  WithoutFirst(list, k) \in Seq(Registration)
<1> DEFINE IsFirst(i) == FirstAt(list, i, LAMBDA r : r.id = k)
           i == CHOOSE j \in DOMAIN list : IsFirst(j)
<1>1. CASE \E j \in DOMAIN list : IsFirst(j)
  <2>1. i \in DOMAIN list
    BY <1>1
  <2>2. i \in 1..Len(list)
    BY <2>1
  <2> HIDE DEF i
  <2>3. DeleteAt(list, i) \in Seq(Registration)
    BY <2>2, DeleteAtType
  <2> QED BY <1>1, <2>3 DEF WithoutFirst, i
<1>2. CASE ~ \E j \in DOMAIN list : IsFirst(j)
  BY <1>2 DEF WithoutFirst
<1> QED BY <1>1, <1>2

\* providers.Update with additions yields lists of registrations.
LEMMA AfterAddingType ==
  ASSUME ClientTypeOK, NEW s \in Instances, NEW added \in Lists
  PROVE  AfterAdding(s, added) \in Lists
BY DEF ClientTypeOK, AfterAdding, Lists

\* So does the application of a notification.
LEMMA UpdatedType ==
  ASSUME ClientTypeOK, NEW p \in Patch
  PROVE  Updated(p) \in Lists
<1>1. p.to \in Instances /\ p.reg \in Registration /\ NameOf[p.reg.url] \in Names
  BY NamesNonempty DEF Patch, Registration
<1>2. CASE p.kind = "added"
  <2>1. <<p.reg>> \in Seq(Registration)
    BY <1>1
  <2>2. [NoLists EXCEPT ![NameOf[p.reg.url]] = <<p.reg>>] \in Lists
    BY <1>1, <2>1, NoListsType, Zenon DEF Lists
  <2> QED BY <1>1, <1>2, <2>2, AfterAddingType DEF Updated
<1>3. CASE p.kind # "added"
  <2>1. WithoutFirst(services[p.to][NameOf[p.reg.url]], p.reg.id) \in Seq(Registration)
    BY <1>1, WithoutFirstType DEF ClientTypeOK, Lists
  <2>2. AfterRemoving(p.to, p.reg) \in Lists
    BY <1>1, <2>1 DEF AfterRemoving, ClientTypeOK, Lists
  <2> QED BY <1>3, <2>2 DEF Updated
<1> QED BY <1>2, <1>3

\* Receiving a patch keeps the clients' variables in their types.
LEMMA ReceivePatchType ==
  ASSUME ClientTypeOK, NEW s \in Instances, NEW lists \in Lists, ReceivePatch(s, lists)
  PROVE  ClientTypeOK'
BY DEF ClientTypeOK, ReceivePatch

\* So does registering again.
LEMMA ReRegisterType ==
  ASSUME ClientTypeOK, NEW s \in Instances, NEW left \in Lists, ReRegister(s, left)
  PROVE  ClientTypeOK'
BY DEF ClientTypeOK, ReRegister, Phases

\* So does the loss of any connections.
LEMMA LoseConnectionsType ==
  ASSUME ClientTypeOK, NEW S, LoseConnections(S)
  PROVE  ClientTypeOK'
BY DEF ClientTypeOK, LoseConnections, Phases

\* So does every step of a service.
LEMMA ServiceStepType ==
  ASSUME TypeOK, NEW s \in Instances, ServiceStep(s)
  PROVE  ClientTypeOK'
<1>a. ClientTypeOK
  BY DEF TypeOK
<1>1. CASE Start(s)
  BY <1>a, <1>1 DEF Start, StartProcess, ClientTypeOK, Phases
<1>2. CASE Crash(s)
  BY <1>a, <1>2, NoListsType DEF Crash, KillProcess, ClientTypeOK, Phases
<1>3. CASE \E k \in ServiceIDs : Post(s, k)
  BY <1>a, <1>3 DEF Post, SendRequest, ClientTypeOK, Phases
<1>4. CASE \E k \in ServiceIDs : PostDone(s, k)
  <2>1. \/ AcceptServiceID(s)
        \/ LoseServiceID(s)
        \/ MeetErrorStatus(s)
        \/ LoseConnections({s})
    BY <1>4 DEF PostDone
  <2>2. CASE AcceptServiceID(s)
    BY <1>a, <2>2 DEF AcceptServiceID, ClientTypeOK, Phases
  <2>3. CASE LoseServiceID(s)
    BY <1>a, <2>3 DEF LoseServiceID, ClientTypeOK, Phases
  <2>4. CASE MeetErrorStatus(s)
    BY <1>a, <2>4 DEF MeetErrorStatus, ClientTypeOK, Phases
  <2>5. CASE LoseConnections({s})
    BY <1>a, <2>5, LoseConnectionsType
  <2> QED BY <2>1, <2>2, <2>3, <2>4, <2>5
<1>5. CASE ConnectionLost(s)
  BY <1>a, <1>5, LoseConnectionsType DEF ConnectionLost
<1>6. CASE Beat(s)
  BY <1>a, <1>6 DEF Beat, clientVars, ClientTypeOK
<1>7. CASE BeatRejected(s)
  <2>1. CASE ReRegister(s, NoLists)
    BY <1>a, <2>1, NoListsType, ReRegisterType
  <2>2. CASE \E p \in BagToSet(patches) :
               ReRegister(s, [NoLists EXCEPT ![NameOf[p.reg.url]] = Updated(p)[NameOf[p.reg.url]]])
    <3>1. PICK p \in BagToSet(patches) :
            ReRegister(s, [NoLists EXCEPT ![NameOf[p.reg.url]] = Updated(p)[NameOf[p.reg.url]]])
      BY <2>2
    <3>2. p \in Patch /\ NameOf[p.reg.url] \in Names
      BY NamesNonempty DEF TypeOK, RegistryTypeOK, Patch, Registration
    <3>3. Updated(p)[NameOf[p.reg.url]] \in Seq(Registration)
      BY <1>a, <3>2, UpdatedType DEF Lists
    <3>4. [NoLists EXCEPT ![NameOf[p.reg.url]] = Updated(p)[NameOf[p.reg.url]]] \in Lists
      BY <3>3, NoListsType, Zenon DEF Lists
    <3> QED BY <1>a, <3>1, <3>4, ReRegisterType
  <2> QED BY <1>7, <2>1, <2>2 DEF BeatRejected
<1> QED BY <1>1, <1>2, <1>3, <1>4, <1>5, <1>6, <1>7 DEF ServiceStep

\* Every step of the system keeps the clients' variables in their types.
LEMMA ClientStep ==
  ASSUME TypeOK, Next
  PROVE  ClientTypeOK'
<1>a. ClientTypeOK
  BY DEF TypeOK
<1>1. CASE \E s \in Instances : ServiceStep(s)
  BY <1>1, ServiceStepType
<1>2. ASSUME NEW k \in ServiceIDs, DeliverRequired(k) PROVE ClientTypeOK'
  <2>1. post[k].url \in Instances /\ post[k].added \in Lists
    BY DEF TypeOK, RegistryTypeOK, PostGoroutine
  <2>2. AfterAdding(post[k].url, post[k].added) \in Lists
    BY <1>a, <2>1, AfterAddingType
  <2>3. CASE ReceivePatch(post[k].url, AfterAdding(post[k].url, post[k].added))
    BY <1>a, <2>1, <2>2, <2>3, ReceivePatchType
  <2>4. CASE UNCHANGED clientVars
    BY <1>a, <2>4 DEF clientVars, ClientTypeOK
  <2> QED BY <1>2, <2>3, <2>4 DEF DeliverRequired
<1>3. ASSUME NEW p \in BagToSet(patches), DeliverPatch(p) PROVE ClientTypeOK'
  <2>1. p \in Patch /\ p.to \in Instances
    BY DEF TypeOK, RegistryTypeOK, Patch
  <2>2. CASE ReceivePatch(p.to, Updated(p))
    BY <1>a, <2>1, <2>2, UpdatedType, ReceivePatchType
  <2>3. CASE UNCHANGED clientVars
    BY <1>a, <2>3 DEF clientVars, ClientTypeOK
  <2> QED BY <1>3, <2>2, <2>3 DEF DeliverPatch
<1>4. CASE RegistryRestart
  BY <1>a, <1>4, LoseConnectionsType DEF RegistryRestart
<1>5. CASE UNCHANGED clientVars
  BY <1>a, <1>5 DEF clientVars, ClientTypeOK
<1> QED BY <1>1, <1>2, <1>3, <1>4, <1>5
        DEF Next, PostStep, HandlePost, PostDiscarded, StartSweep, Sweep, StartDelete,
            EndDelete, Tick

-----------------------------------------------------------------------------
(* The registry's side. *)

\* An action of the registry in the system: an operation begins when it is
\* admitted.
SystemAction(s, k, n, p, reply) ==
  (Admitted /\ BeginAction(s, k, n)) \/ OngoingAction(k, n, p, reply)

\* Every step of the system is an action of the registry or leaves it alone.
LEMMA RegistryStep ==
  ASSUME TypeOK, [Next]_vars
  PROVE  \E s \in Instances, k \in ServiceIDs, n \in Names, p \in Patch,
            reply \in {"ok", "failed"} : SystemAction(s, k, n, p, reply)
<1>a. PICK s0 \in Instances, k0 \in ServiceIDs : NameOf[s0] \in Names
  BY NameAssumption, NamesNonempty
<1>b. [to |-> s0, kind |-> "added", reg |-> [url |-> s0, id |-> k0]] \in Patch
  BY DEF Patch, Registration
<1>c. PICK n0 \in Names, p0 \in Patch : TRUE
  BY <1>a, <1>b
<1>1. ASSUME NEW s \in Instances, NEW k \in ServiceIDs,
             (Admitted /\ ServePost(s, k)) \/ EndPost(k) \/ HandleHeartbeat(k)
      PROVE  SystemAction(s, k, n0, p0, "ok")
  BY <1>1 DEF SystemAction, BeginAction, OngoingAction
<1>2. ASSUME NEW s \in Instances, ServiceStep(s)
      PROVE  \E k \in ServiceIDs, p \in Patch : SystemAction(s, k, n0, p, "ok")
  <2>1. CASE \E k \in ServiceIDs : Post(s, k) \/ PostDone(s, k)
    BY <1>1, <2>1 DEF Post, PostDone
  <2>2. CASE Beat(s)
    <3>1. serviceID[s] \in ServiceIDs
      BY <2>2 DEF Beat, TypeOK, ClientTypeOK
    <3> QED BY <1>1, <2>2, <3>1 DEF Beat
  <2>3. CASE UNCHANGED registryVars
    BY <2>3 DEF SystemAction, BeginAction, OngoingAction
  <2>4. CASE BeatRejected(s)
    <3>1. CASE \E p \in BagToSet(patches) : PatchGone(p)
      BY <3>1 DEF SystemAction, BeginAction, OngoingAction, TypeOK, RegistryTypeOK
    <3> QED BY <2>3, <2>4, <3>1 DEF BeatRejected
  <2> QED BY <1>2, <2>1, <2>2, <2>3, <2>4 DEF ServiceStep, Start, Crash, ConnectionLost
<1>3. ASSUME NEW k \in ServiceIDs, PostStep(k)
      PROVE  \E reply \in {"ok", "failed"} : SystemAction(s0, k, n0, p0, reply)
  BY <1>3 DEF PostStep, HandlePost, DeliverRequired, PostDiscarded, SystemAction, BeginAction, OngoingAction
<1>4. ASSUME NEW p \in BagToSet(patches), DeliverPatch(p)
      PROVE  p \in Patch /\ SystemAction(s0, k0, n0, p, "ok")
  BY <1>4 DEF DeliverPatch, SystemAction, BeginAction, OngoingAction, TypeOK, RegistryTypeOK
<1>5. CASE Sweep
  BY <1>5 DEF Sweep, SystemAction, BeginAction, OngoingAction
<1>6. CASE StartDelete
  BY <1>6, NamesNonempty DEF StartDelete, SystemAction, BeginAction, OngoingAction
<1>7. CASE StartSweep \/ EndDelete \/ RegistryRestart \/ Tick \/ UNCHANGED vars
  BY <1>7 DEF StartSweep, EndDelete, RegistryRestart, Tick, vars, SystemAction, BeginAction, OngoingAction
<1> QED BY <1>2, <1>3, <1>4, <1>5, <1>6, <1>7 DEF Next

-----------------------------------------------------------------------------
(* The theorems. *)

\* The initial state has its types and nobody is registered in it.
LEMMA InitialState ==
  ASSUME Init
  PROVE  TypeOK /\ HeardInv
<1>1. BagToSet(EmptyBag) = {} /\ IDsIn(<<>>) = {} /\ Absent \in Ages
  BY EmptyIDs, InactiveAssumption DEF BagToSet, EmptyBag, SetToBag, Absent, Ages
<1>2. RegistryTypeOK
  BY <1>1, NoneTypes, NoListsType DEF Init, RegistryInit, RegistryTypeOK
<1>3. ClientTypeOK
  BY NoListsType DEF Init, RegistryClientInit, ClientTypeOK, Phases
<1>4. HeardInv
  BY <1>1 DEF Init, RegistryInit, HeardInv, RegisteredIsHeard, SweepJudgesOnHeard,
              NoLists, NoPost, NoSweep
<1> QED BY <1>2, <1>3, <1>4 DEF TypeOK

\* Every variable of the registry and of its clients always has its type: no
\* interleaving makes an index leave the naturals or a list hold anything but
\* registrations.
THEOREM TypeCorrect == Spec => []TypeOK
<1>1. Init => TypeOK
  BY InitialState
<1>2. TypeOK /\ [Next]_vars => TypeOK'
  <2> SUFFICES ASSUME TypeOK, [Next]_vars PROVE TypeOK'
    OBVIOUS
  <2>1. RegistryTypeOK'
    BY RegistryStep, RegistryActionsType DEF TypeOK, SystemAction, RegistryAction
  <2>2. ClientTypeOK'
    BY ClientStep DEF TypeOK, ClientTypeOK, vars, clientVars
  <2> QED BY <2>1, <2>2 DEF TypeOK
<1> QED BY <1>1, <1>2, PTL DEF Spec

\* The heartbeats on record: the inductive invariant.
THEOREM HeardCorrect == Spec => []HeardInv
<1>1. Init => HeardInv
  BY InitialState
<1>2. TypeOK /\ HeardInv /\ [Next]_vars => HeardInv'
  <2> SUFFICES ASSUME TypeOK, HeardInv, [Next]_vars PROVE HeardInv'
    OBVIOUS
  <2> QED BY RegistryStep, RegistryActionsHeard DEF TypeOK, SystemAction, RegistryAction
<1> QED BY <1>1, <1>2, TypeCorrect, PTL DEF Spec

\* Whatever POST, DELETE, sweep, crash and restart interleave, a registered
\* service has a heartbeat on record (server.go:226 before :36).
THEOREM RegisteredHeard == Spec => []RegisteredIsHeard
<1>1. HeardInv => RegisteredIsHeard
  BY DEF HeardInv
<1> QED BY <1>1, HeardCorrect, PTL

\* The sweep never takes a missing heartbeat for an old one (server.go:289-302).
THEOREM SweepJudgesHeard == Spec => []SweepJudgesOnHeard
<1>1. HeardInv => SweepJudgesOnHeard
  BY DEF HeardInv
<1> QED BY <1>1, HeardCorrect, PTL

-----------------------------------------------------------------------------
(* Operations that do not overlap. *)

\* One POST, sweep or DELETE at a time.
OneOperation ==
  /\ \A j, k \in ServiceIDs : post[j].pc # "none" /\ post[k].pc # "none" => j = k
  /\ \A k \in ServiceIDs : post[k].pc # "none" => sweep.pc = "idle" /\ del.pc = "idle"
  /\ sweep.pc # "idle" => del.pc = "idle"

\* No two registrations of the list have the same URL, or none has this one.
Unique(list) == \A i, j \in DOMAIN list : list[i].url = list[j].url => i = j

Without(list, url) == \A i \in DOMAIN list : list[i].url # url

\* The URLs of a name are distinct, except between the two halves of the deletion.
ListsUnique ==
  \A n \in Names : Unique(registrationsMap[n])
                   \/ \E k \in ServiceIDs : post[k].pc = "store" /\ NameOf[post[k].url] = n

\* The duplicate check has not left a duplicate behind it, although the list may
\* have become shorter than the n iterations of its loop.
PostProgress(k) ==
  /\ post[k].pc = "check" =>
       /\ Len(ListOf(k)) <= post[k].n
       /\ \A j \in DOMAIN ListOf(k) : j < post[k].i => ListOf(k)[j].url # post[k].url
  /\ post[k].pc = "drop" =>
       /\ Len(ListOf(k)) <= post[k].n
       /\ post[k].i \in DOMAIN ListOf(k)
       /\ ListOf(k)[post[k].i].url = post[k].url
  /\ post[k].pc = "store" =>
       /\ Len(post[k].kept) <= post[k].n
       /\ Unique(post[k].kept)
       /\ Without(post[k].kept, post[k].url)
  /\ post[k].pc = "append" => Without(ListOf(k), post[k].url)

\* The inductive invariant of operations that do not overlap.
SerialInv ==
  /\ OneOperation
  /\ ListsUnique
  /\ \A k \in ServiceIDs : PostProgress(k)

\* What deleting a position leaves where.
LEMMA DeleteAtElements ==
  ASSUME NEW list \in Seq(Registration), NEW i \in 1..Len(list)
  PROVE  /\ DeleteAt(list, i) \in Seq(Registration)
         /\ Len(DeleteAt(list, i)) = Len(list) - 1
         /\ \A j \in 1..(Len(list) - 1) :
              DeleteAt(list, i)[j] = IF j < i THEN list[j] ELSE list[j + 1]
<1> DEFINE left == SubSeq(list, 1, i - 1)
           right == SubSeq(list, i + 1, Len(list))
<1>1. /\ left \in Seq(Registration) /\ Len(left) = i - 1
      /\ right \in Seq(Registration) /\ Len(right) = Len(list) - i
      /\ \A j \in 1..(i - 1) : left[j] = list[j]
      /\ \A j \in 1..(Len(list) - i) : right[j] = list[j + i]
  OBVIOUS
<1> HIDE DEF left, right
<1>2. /\ left \o right \in Seq(Registration)
      /\ Len(left \o right) = Len(left) + Len(right)
      /\ \A j \in 1..(Len(left) + Len(right)) :
           (left \o right)[j] = IF j <= Len(left) THEN left[j] ELSE right[j - Len(left)]
  <2>1. left \in Seq(Registration) /\ right \in Seq(Registration)
    BY <1>1
  <2> QED BY <2>1
<1>3. ASSUME NEW j \in 1..(Len(list) - 1)
      PROVE  (left \o right)[j] = IF j < i THEN list[j] ELSE list[j + 1]
  <2>1. CASE j < i
    BY <1>1, <1>2, <2>1
  <2>2. CASE ~(j < i)
    <3>1. j - (i - 1) \in 1..(Len(list) - i) /\ (j - (i - 1)) + i = j + 1
      BY <2>2
    <3>2. right[j - (i - 1)] = list[j + 1]
      BY <1>1, <3>1
    <3>3. j \in 1..(Len(left) + Len(right)) /\ ~(j <= Len(left)) /\ Len(left) = i - 1
      BY <1>1, <2>2
    <3>4. (left \o right)[j] = right[j - Len(left)]
      BY <1>2, <3>3
    <3> QED BY <2>2, <3>2, <3>3, <3>4
  <2> QED BY <2>1, <2>2
<1>4. Len(left) + Len(right) = Len(list) - 1
  BY <1>1
<1> QED BY <1>2, <1>3, <1>4 DEF DeleteAt, left, right

\* Deleting a registration from a list of distinct URLs leaves distinct URLs, and
\* no registration with the URL that went.
LEMMA DeleteAtUnique ==
  ASSUME NEW list \in Seq(Registration), NEW i \in 1..Len(list), Unique(list)
  PROVE  Unique(DeleteAt(list, i)) /\ Without(DeleteAt(list, i), list[i].url)
<1> DEFINE kept == DeleteAt(list, i)
           At(j) == IF j < i THEN j ELSE j + 1
<1>1. DOMAIN kept = 1..(Len(list) - 1) /\ DOMAIN list = 1..Len(list)
  BY DeleteAtElements
<1>2. ASSUME NEW j \in 1..(Len(list) - 1)
      PROVE  At(j) \in 1..Len(list) /\ At(j) # i /\ kept[j] = list[At(j)]
  <2>1. kept[j] = IF j < i THEN list[j] ELSE list[j + 1]
    BY DeleteAtElements
  <2> HIDE DEF kept
  <2> QED BY <2>1
<1>3. ASSUME NEW j \in 1..(Len(list) - 1), NEW m \in 1..(Len(list) - 1), At(j) = At(m)
      PROVE  j = m
  BY <1>3
<1> HIDE DEF kept, At
<1>4. Unique(kept)
  BY <1>1, <1>2, <1>3 DEF Unique
<1>5. Without(kept, list[i].url)
  BY <1>1, <1>2 DEF Unique, Without
<1> QED BY <1>4, <1>5 DEF kept

\* Appending a registration whose URL the list does not hold keeps URLs distinct.
LEMMA AppendUnique ==
  ASSUME NEW list \in Seq(Registration), Unique(list), NEW r \in Registration,
         Without(list, r.url)
  PROVE  Unique(Append(list, r))
BY DEF Unique, Without

\* While a POST is under way, every list but the one that it is shortening has
\* distinct URLs.
LEMMA OtherLists ==
  ASSUME RegistryTypeOK, SerialInv, NEW k \in ServiceIDs, post[k].pc # "none", NEW n \in Names,
         post[k].pc # "store" \/ n # NameOf[post[k].url]
  PROVE  Unique(registrationsMap[n])
<1>1. \A j \in ServiceIDs : post[j].pc = "store" => j = k
  BY DEF SerialInv, OneOperation
<1> QED BY <1>1 DEF SerialInv, ListsUnique

\* A step of a POST goroutine concerns nobody else.
LEMMA PostAlone ==
  ASSUME RegistryTypeOK, SerialInv, NEW k \in ServiceIDs, post[k].pc # "none",
         \A j \in ServiceIDs \ {k} : post'[j] = post[j],
         UNCHANGED <<sweep, del>>, ListsUnique', PostProgress(k)'
  PROVE  SerialInv'
<1>1. sweep.pc = "idle" /\ del.pc = "idle" /\ \A j \in ServiceIDs \ {k} : post[j].pc = "none"
  BY DEF SerialInv, OneOperation
<1>2. sweep'.pc = "idle" /\ del'.pc = "idle" /\ \A j \in ServiceIDs \ {k} : post'[j].pc = "none"
  BY <1>1
<1>3. OneOperation'
  BY <1>2 DEF OneOperation
<1>4. ASSUME NEW j \in ServiceIDs PROVE PostProgress(j)'
  <2>1. CASE j = k
    BY <2>1
  <2>2. CASE j # k
    BY <1>2, <2>2 DEF PostProgress
  <2> QED BY <2>1, <2>2
<1> QED BY <1>3, <1>4 DEF SerialInv

\* The steps of a POST goroutine keep the invariant.
LEMMA PostStepsSerial ==
  ASSUME RegistryTypeOK, RegistryTypeOK', SerialInv, NEW k \in ServiceIDs,
         NEW reply \in {"ok", "failed"},
         \/ CheckDuplicate(k) \/ DropDuplicate(k) \/ StoreShortened(k)
         \/ AppendRegistration(k) \/ SendRequiredServices(k)
         \/ SentRequiredServices(k, reply) \/ AnnounceRegistration(k) \/ EndPost(k)
  PROVE  SerialInv'
<1> DEFINE list == ListOf(k)
           name == NameOf[post[k].url]
           i == post[k].i
<1>0. /\ post[k] \in PostGoroutine /\ name \in Names
      /\ post \in [ServiceIDs -> PostGoroutine]
      /\ registrationsMap \in Lists
  BY NamesNonempty DEF PostGoroutine, RegistryTypeOK
<1>a. list \in Seq(Registration) /\ list = registrationsMap[name]
  BY <1>0 DEF ListOf, Lists
<1>b. i \in Nat \ {0} /\ post[k].n \in Nat
  BY <1>0 DEF PostGoroutine
<1>p. PostProgress(k)
  BY DEF SerialInv
<1>c. ASSUME NEW pc, pc \notin {"check", "drop", "store", "append"}, post[k].pc \notin {"none", "store"},
             post'[k].pc = pc, \A j \in ServiceIDs \ {k} : post'[j] = post[j],
             UNCHANGED <<registrationsMap, sweep, del>>
      PROVE  SerialInv'
  <2>1. PostProgress(k)'
    BY <1>c DEF PostProgress
  <2>2. ListsUnique'
    BY <1>c, OtherLists DEF ListsUnique
  <2> QED BY <1>c, <2>1, <2>2, PostAlone
<1>1. CASE CheckDuplicate(k)
  <2>0. post[k].pc = "check" /\ UNCHANGED <<LastHeartBeat, sweep, del, wedged>>
    BY <1>1 DEF CheckDuplicate
  <2>1. /\ Len(list) <= post[k].n
        /\ \A j \in DOMAIN list : j < i => list[j].url # post[k].url
    BY <1>p, <2>0 DEF PostProgress
  <2>u. Unique(list)
    BY <1>0, <1>a, <2>0, OtherLists
  <2>2. CASE Panic(k)
    BY <1>0, <1>c, <2>0, <2>2 DEF Panic
  <2>3. CASE /\ i <= Len(list)
             /\ list[i].url # post[k].url
             /\ post' = [post EXCEPT ![k] = NextIteration(k)]
             /\ UNCHANGED <<registrationsMap, patches>>
    <3>1. \A j \in DOMAIN list : j < i + 1 => list[j].url # post[k].url
      <4>1. \A j \in DOMAIN list : j < i + 1 => j < i \/ j = i
        BY <1>a, <1>b
      <4> QED BY <2>1, <2>3, <4>1
    <3>2. post'[k] = NextIteration(k) /\ post'[k].url = post[k].url
      BY <1>0, <2>3 DEF NextIteration, PostGoroutine
    <3>3. ListOf(k)' = list
      BY <2>3, <3>2 DEF ListOf
    <3>4. CASE i < post[k].n
      <4>1. post'[k].pc = "check" /\ post'[k].i = i + 1 /\ post'[k].n = post[k].n
        BY <1>0, <3>2, <3>4 DEF NextIteration, PostGoroutine
      <4>2. PostProgress(k)'
        BY <2>1, <3>1, <3>2, <3>3, <4>1 DEF PostProgress
      <4>3. ListsUnique'
        BY <2>0, <2>3, OtherLists DEF ListsUnique
      <4> QED BY <2>0, <2>3, <4>2, <4>3, PostAlone
    <3>5. CASE ~(i < post[k].n)
      <4>1. post'[k].pc = "append"
        BY <1>0, <3>2, <3>5 DEF NextIteration, PostGoroutine
      <4>2. \A j \in DOMAIN list : j < i + 1
        <5> HIDE DEF list, i
        <5> QED BY <1>a, <1>b, <2>1, <3>5
      <4>3. PostProgress(k)'
        BY <3>1, <3>2, <3>3, <4>1, <4>2 DEF PostProgress, Without
      <4>4. ListsUnique'
        BY <2>0, <2>3, OtherLists DEF ListsUnique
      <4> QED BY <2>0, <2>3, <4>3, <4>4, PostAlone
    <3> QED BY <3>4, <3>5
  <2>4. CASE /\ i <= Len(list)
             /\ list[i].url = post[k].url
             /\ post' = [post EXCEPT ![k].pc = "drop"]
             /\ UNCHANGED registrationsMap
    <3>1. /\ post'[k].pc = "drop" /\ post'[k].url = post[k].url
          /\ post'[k].i = i /\ post'[k].n = post[k].n
      BY <1>0, <2>4 DEF PostGoroutine
    <3>2. ListOf(k)' = list
      BY <2>4, <3>1 DEF ListOf
    <3>3. i \in DOMAIN list
      BY <1>a, <1>b, <2>4
    <3>4. PostProgress(k)'
      BY <2>1, <2>4, <3>1, <3>2, <3>3 DEF PostProgress
    <3>5. ListsUnique'
      BY <2>0, <2>4, OtherLists DEF ListsUnique
    <3> QED BY <2>0, <2>4, <3>4, <3>5, PostAlone
  <2> QED BY <1>1, <2>2, <2>3, <2>4 DEF CheckDuplicate
<1>2. CASE DropDuplicate(k)
  <2> DEFINE kept == DeleteAt(list, i)
  <2>1. post[k].pc = "drop" /\ UNCHANGED <<LastHeartBeat, sweep, del, wedged>>
    BY <1>2 DEF DropDuplicate
  <2>2. Len(list) <= post[k].n /\ i \in DOMAIN list /\ list[i].url = post[k].url
    BY <1>p, <2>1 DEF PostProgress
  <2>3. i \in 1..Len(list)
    BY <1>a, <2>2
  <2>4. /\ registrationsMap' = [registrationsMap EXCEPT ![name] = Append(kept, @[Len(@)])]
        /\ post' = [post EXCEPT ![k].pc = "store", ![k].kept = kept]
    BY <1>2, <1>b, <2>3 DEF DropDuplicate, Panic
  <2>5. Unique(list)
    BY <1>0, <1>a, <2>1, OtherLists
  <2>6. Unique(kept) /\ Without(kept, post[k].url) /\ Len(kept) <= post[k].n
    <3> HIDE DEF list, i
    <3>1. Len(kept) = Len(list) - 1 /\ Len(list) \in Nat
      BY <1>a, <2>3, DeleteAtElements
    <3>2. Len(kept) <= post[k].n
      BY <1>b, <2>2, <3>1
    <3> QED BY <1>a, <2>2, <2>3, <2>5, <3>2, DeleteAtUnique
  <2> HIDE DEF kept
  <2>7. /\ post'[k].pc = "store" /\ post'[k].url = post[k].url
        /\ post'[k].kept = kept /\ post'[k].n = post[k].n
    BY <1>0, <2>4 DEF PostGoroutine
  <2>8. PostProgress(k)'
    BY <2>6, <2>7 DEF PostProgress
  <2>9. \A m \in Names \ {name} : registrationsMap'[m] = registrationsMap[m]
    BY <1>0, <2>4 DEF Lists
  <2>10. ASSUME NEW m \in Names
         PROVE  \/ Unique(registrationsMap'[m])
                \/ post'[k].pc = "store" /\ NameOf[post'[k].url] = m
    BY <2>1, <2>7, <2>9, OtherLists
  <2>11. ListsUnique'
    BY <2>10 DEF ListsUnique
  <2> QED BY <1>0, <2>1, <2>4, <2>8, <2>11, PostAlone
<1>3. CASE StoreShortened(k)
  <2>1. /\ post[k].pc = "store" /\ UNCHANGED <<sweep, del>>
        /\ registrationsMap' = [registrationsMap EXCEPT ![name] = post[k].kept]
        /\ post' = [post EXCEPT ![k] = NextIteration(k)]
    BY <1>3 DEF StoreShortened
  <2>2. /\ Len(post[k].kept) <= post[k].n /\ Unique(post[k].kept)
        /\ Without(post[k].kept, post[k].url)
    BY <1>p, <2>1 DEF PostProgress
  <2>3. /\ post'[k] = NextIteration(k) /\ post'[k].url = post[k].url
        /\ post'[k].pc \in {"check", "append"}
        /\ post'[k].pc = "check" => post'[k].n = post[k].n
    BY <1>0, <2>1 DEF NextIteration, PostGoroutine
  <2>4. ListOf(k)' = post[k].kept
    BY <1>0, <2>1, <2>3 DEF ListOf, Lists
  <2>5. PostProgress(k)'
    BY <2>2, <2>3, <2>4 DEF PostProgress, Without
  <2>6. ASSUME NEW m \in Names PROVE Unique(registrationsMap'[m])
    <3>1. CASE m = name
      BY <1>0, <2>1, <2>2, <3>1 DEF Lists
    <3>2. CASE m # name
      BY <1>0, <2>1, <3>2, OtherLists DEF Lists
    <3> QED BY <3>1, <3>2
  <2>7. ListsUnique'
    BY <2>6 DEF ListsUnique
  <2> QED BY <2>1, <2>5, <2>7, PostAlone
<1>4. CASE AppendRegistration(k)
  <2> DEFINE new == [url |-> post[k].url, id |-> k]
  <2>1. /\ post[k].pc = "append" /\ UNCHANGED <<sweep, del>>
        /\ registrationsMap' = [registrationsMap EXCEPT ![name] = Append(@, new)]
        /\ post' = [post EXCEPT ![k].pc = "require"]
    BY <1>4 DEF AppendRegistration
  <2>2. Without(list, post[k].url) /\ Unique(list)
    BY <1>0, <1>a, <1>p, <2>1, OtherLists DEF PostProgress
  <2>3. new \in Registration /\ new.url = post[k].url
    BY <1>0 DEF PostGoroutine, Registration
  <2>4. Unique(Append(list, new))
    BY <1>a, <2>2, <2>3, AppendUnique
  <2>5. PostProgress(k)'
    BY <1>0, <2>1 DEF PostProgress, PostGoroutine
  <2>6. ASSUME NEW m \in Names PROVE Unique(registrationsMap'[m])
    <3>1. CASE m = name
      BY <1>0, <1>a, <2>1, <2>4, <3>1 DEF Lists
    <3>2. CASE m # name
      BY <1>0, <2>1, <3>2, OtherLists DEF Lists
    <3> QED BY <3>1, <3>2
  <2>7. ListsUnique'
    BY <2>6 DEF ListsUnique
  <2> QED BY <2>1, <2>5, <2>7, PostAlone
<1>5. CASE SendRequiredServices(k)
  <2>1. post'[k].pc \in {"announce", "sending"}
    BY <1>0, <1>5 DEF SendRequiredServices, PostGoroutine
  <2> QED BY <1>0, <1>c, <1>5, <2>1 DEF SendRequiredServices
<1>6. CASE SentRequiredServices(k, reply)
  <2>1. post'[k].pc = "announce"
    BY <1>0, <1>6 DEF SentRequiredServices, PostGoroutine
  <2> QED BY <1>0, <1>c, <1>6, <2>1 DEF SentRequiredServices
<1>7. CASE AnnounceRegistration(k)
  <2>1. post'[k].pc \in {"ok", "failed"}
    BY <1>0, <1>7 DEF AnnounceRegistration, PostGoroutine
  <2> QED BY <1>0, <1>c, <1>7, <2>1 DEF AnnounceRegistration
<1>8. CASE EndPost(k)
  <2>1. post'[k].pc = "none"
    BY <1>0, <1>8 DEF EndPost, NoPost
  <2> QED BY <1>0, <1>c, <1>8, <2>1 DEF EndPost
<1> QED BY <1>1, <1>2, <1>3, <1>4, <1>5, <1>6, <1>7, <1>8

\* Without a POST, all lists have distinct URLs, and no more is asked of the
\* lists and of the POSTs.
LEMMA WithoutPosts ==
  ASSUME SerialInv, \A k \in ServiceIDs : post[k].pc = "none"
  PROVE  \A n \in Names : Unique(registrationsMap[n])
BY DEF SerialInv, ListsUnique

LEMMA WithoutPostsNext ==
  ASSUME \A k \in ServiceIDs : post'[k].pc = "none",
         sweep'.pc # "idle" => del'.pc = "idle",
         \A n \in Names : Unique(registrationsMap'[n])
  PROVE  SerialInv'
<1>1. OneOperation' /\ ListsUnique'
  BY DEF OneOperation, ListsUnique
<1>2. \A k \in ServiceIDs : PostProgress(k)'
  BY DEF PostProgress
<1> QED BY <1>1, <1>2 DEF SerialInv

\* The deletion under the lock keeps the invariant.
LEMMA RemoveAtIndexUnique ==
  ASSUME RegistryTypeOK, NEW name \in Names, NEW i \in Nat \ {0}, RemoveAtIndex(name, i),
         \A n \in Names : Unique(registrationsMap[n])
  PROVE  \A n \in Names : Unique(registrationsMap'[n])
<1> DEFINE list == registrationsMap[name]
<1>1. /\ registrationsMap \in Lists /\ list \in Seq(Registration) /\ i \in 1..Len(list)
      /\ registrationsMap' = [registrationsMap EXCEPT ![name] = DeleteAt(list, i)]
  BY DEF RegistryTypeOK, Lists, RemoveAtIndex
<1>2. /\ registrationsMap'[name] = DeleteAt(list, i)
      /\ \A n \in Names \ {name} : registrationsMap'[n] = registrationsMap[n]
  BY <1>1 DEF Lists
<1>3. Unique(DeleteAt(list, i))
  BY <1>1, DeleteAtUnique
<1> QED BY <1>2, <1>3

\* So do the steps that are not a POST's.
LEMMA OtherStepsSerial ==
  ASSUME RegistryTypeOK, SerialInv, NEW k \in ServiceIDs, NEW name \in Names, NEW p \in Patch,
         \/ FinishDelete \/ SweepHeartbeats \/ SweepExamine(name) \/ SweepRemove \/ SweepEnd
         \/ HandleHeartbeat(k) \/ PatchGone(p) \/ RegistryReset \/ Age
         \/ UNCHANGED registryVars
  PROVE  SerialInv'
<1>0. sweep \in SweepGoroutine
  BY DEF RegistryTypeOK
<1>a. /\ sweep.pc # "idle" \/ del.pc # "idle" => \A j \in ServiceIDs : post[j].pc = "none"
      /\ sweep.pc # "idle" => del.pc = "idle"
  BY DEF SerialInv, OneOperation
<1>1. CASE FinishDelete
  <2>1. del.pc = "remove" /\ del' = NoDelete /\ UNCHANGED <<post, sweep>>
    BY <1>1 DEF FinishDelete
  <2>2. sweep.pc = "idle" /\ \A j \in ServiceIDs : post[j].pc = "none"
    BY <1>a, <2>1
  <2>3. \A n \in Names : Unique(registrationsMap[n])
    BY <2>2, WithoutPosts
  <2>4. del.name \in Names /\ del.i \in Nat \ {0}
    BY DEF RegistryTypeOK
  <2>5. \A n \in Names : Unique(registrationsMap'[n])
    <3>1. CASE RemoveAtIndex(del.name, del.i)
      BY <2>3, <2>4, <3>1, RemoveAtIndexUnique
    <3>2. CASE UNCHANGED registrationsMap
      BY <2>3, <3>2
    <3> QED BY <1>1, <3>1, <3>2 DEF FinishDelete
  <2>6. sweep'.pc = "idle" /\ \A j \in ServiceIDs : post'[j].pc = "none"
    BY <2>1, <2>2
  <2> QED BY <2>5, <2>6, WithoutPostsNext
<1>2. CASE SweepHeartbeats \/ SweepExamine(name) \/ SweepEnd
  <2>1. sweep.pc # "idle" /\ UNCHANGED <<registrationsMap, post, del>>
    BY <1>2 DEF SweepHeartbeats, SweepExamine, SweepEnd
  <2>2. del.pc = "idle" /\ \A j \in ServiceIDs : post[j].pc = "none"
    BY <1>a, <2>1
  <2>3. \A n \in Names : Unique(registrationsMap[n])
    BY <2>2, WithoutPosts
  <2>4. /\ del'.pc = "idle" /\ \A j \in ServiceIDs : post'[j].pc = "none"
        /\ \A n \in Names : Unique(registrationsMap'[n])
    BY <2>1, <2>2, <2>3
  <2> QED BY <2>4, WithoutPostsNext
<1>3. CASE SweepRemove
  <2>1. /\ sweep.pc = "remove" /\ UNCHANGED <<post, del>>
        /\ RemoveAtIndex(sweep.name, sweep.i)
    BY <1>3 DEF SweepRemove
  <2>2. sweep.name \in Names /\ sweep.i \in Nat \ {0}
    BY <1>0 DEF SweepGoroutine
  <2>3. del.pc = "idle" /\ \A j \in ServiceIDs : post[j].pc = "none"
    BY <1>a, <2>1
  <2>4. \A n \in Names : Unique(registrationsMap[n])
    BY <2>3, WithoutPosts
  <2>5. \A n \in Names : Unique(registrationsMap'[n])
    BY <2>1, <2>2, <2>4, RemoveAtIndexUnique
  <2>6. del'.pc = "idle" /\ \A j \in ServiceIDs : post'[j].pc = "none"
    BY <2>1, <2>3
  <2> QED BY <2>5, <2>6, WithoutPostsNext
<1>4. CASE RegistryReset
  <2>1. /\ \A j \in ServiceIDs : post'[j].pc = "none"
        /\ sweep'.pc = "idle"
        /\ \A n \in Names : registrationsMap'[n] = <<>>
    BY <1>4 DEF RegistryReset, NoPost, NoSweep, NoLists
  <2>2. \A n \in Names : Unique(registrationsMap'[n])
    BY <2>1 DEF Unique
  <2> QED BY <2>1, <2>2, WithoutPostsNext
<1>5. CASE HandleHeartbeat(k) \/ PatchGone(p) \/ Age \/ UNCHANGED registryVars
  <2>1. UNCHANGED <<registrationsMap, post, del>>
    BY <1>5 DEF HandleHeartbeat, PatchGone, Age, registryVars
  <2>2. sweep'.pc = sweep.pc
    <3>1. CASE Age
      BY <1>0, <3>1 DEF Age, SweepGoroutine
    <3>2. CASE UNCHANGED sweep
      BY <3>2
    <3> QED BY <1>5, <3>1, <3>2 DEF HandleHeartbeat, PatchGone, registryVars
  <2>3. OneOperation' /\ ListsUnique'
    BY <2>1, <2>2 DEF SerialInv, OneOperation, ListsUnique
  <2>4. \A j \in ServiceIDs : PostProgress(j)'
    BY <2>1 DEF SerialInv, PostProgress, ListOf
  <2> QED BY <2>3, <2>4 DEF SerialInv
<1> QED BY <1>1, <1>2, <1>3, <1>4, <1>5

\* An operation that begins while nothing else is under way keeps the invariant.
LEMMA BeginSerial ==
  ASSUME RegistryTypeOK, SerialInv, Quiet, NEW s \in Instances, NEW k \in ServiceIDs,
         NEW n \in Names, BeginAction(s, k, n)
  PROVE  SerialInv'
<1>0. /\ \A j \in ServiceIDs : post[j].pc = "none"
      /\ sweep.pc = "idle" /\ del.pc = "idle"
  BY DEF Quiet
<1>a. \A m \in Names : Unique(registrationsMap[m])
  BY <1>0, WithoutPosts
<1>b. post \in [ServiceIDs -> PostGoroutine] /\ sweep \in SweepGoroutine /\ registrationsMap \in Lists
  BY DEF RegistryTypeOK
<1>1. CASE ServePost(s, k)
  <2> DEFINE len == Len(registrationsMap[NameOf[s]])
  <2>0. NameOf[s] \in Names /\ len \in Nat
    BY <1>b, NamesNonempty DEF Lists
  <2> HIDE DEF len
  <2>1. /\ post' = [post EXCEPT ![k] = [NoPost EXCEPT !.pc = IF len = 0 THEN "append" ELSE "check",
                                                      !.url = s, !.n = len]]
        /\ UNCHANGED <<registrationsMap, sweep, del>>
    BY <1>1 DEF ServePost, len
  <2>2. /\ post'[k].pc = (IF len = 0 THEN "append" ELSE "check")
        /\ post'[k].url = s /\ post'[k].n = len /\ post'[k].i = 1
    BY <1>b, <2>1 DEF NoPost
  <2>3. \A j \in ServiceIDs \ {k} : post'[j].pc = "none"
    BY <1>0, <1>b, <2>1
  <2>4. ListOf(k)' = registrationsMap[NameOf[s]]
    BY <2>1, <2>2 DEF ListOf
  <2>5. registrationsMap[NameOf[s]] \in Seq(Registration)
    BY <1>b, <2>0 DEF Lists
  <2>6. len = 0 => DOMAIN registrationsMap[NameOf[s]] = {}
    BY <2>5 DEF len
  <2>7. \A j \in DOMAIN registrationsMap[NameOf[s]] : ~(j < 1)
    BY <2>5
  <2>8. PostProgress(k)'
    <3>1. CASE len = 0
      <4>1. post'[k].pc = "append"
        BY <2>2, <3>1
      <4> QED BY <2>4, <2>6, <3>1, <4>1 DEF PostProgress, Without
    <3>2. CASE len # 0
      <4>1. post'[k].pc = "check" /\ Len(ListOf(k)') <= post'[k].n
        BY <2>0, <2>2, <2>4, <3>2 DEF len
      <4> QED BY <2>2, <2>4, <2>7, <4>1 DEF PostProgress
    <3> QED BY <3>1, <3>2
  <2>9. \A j \in ServiceIDs : PostProgress(j)'
    <3> TAKE j \in ServiceIDs
    <3>1. CASE j = k
      BY <2>8, <3>1
    <3>2. CASE j # k
      BY <2>3, <3>2 DEF PostProgress
    <3> QED BY <3>1, <3>2
  <2>10. OneOperation'
    BY <1>0, <2>1, <2>3 DEF OneOperation
  <2>11. ListsUnique'
    BY <1>a, <2>1 DEF ListsUnique
  <2> QED BY <2>9, <2>10, <2>11 DEF SerialInv
<1>2. CASE ServeDelete(n, s)
  <2>1. UNCHANGED <<registrationsMap, post, sweep>>
    BY <1>2 DEF ServeDelete
  <2>2. /\ \A j \in ServiceIDs : post'[j].pc = "none"
        /\ sweep'.pc = "idle" /\ \A m \in Names : Unique(registrationsMap'[m])
    BY <1>0, <1>a, <2>1
  <2> QED BY <2>2, WithoutPostsNext
<1>3. CASE SweepSnapshot
  <2>1. /\ UNCHANGED <<registrationsMap, post, del>>
        /\ sweep'.pc = "copy" /\ sweep'.snapshot = registrationsMap
    BY <1>b, <1>3 DEF SweepSnapshot, SweepGoroutine
  <2>2. /\ \A j \in ServiceIDs : post'[j].pc = "none"
        /\ del'.pc = "idle" /\ \A m \in Names : Unique(registrationsMap'[m])
    BY <1>0, <1>a, <2>1
  <2> QED BY <2>2, WithoutPostsNext
<1> QED BY <1>1, <1>2, <1>3 DEF BeginAction

\* Every step of a system whose operations do not overlap keeps the invariant.
LEMMA SerialStep ==
  ASSUME Serial = TRUE, TypeOK, TypeOK', SerialInv, [Next]_vars
  PROVE  SerialInv'
<1>1. PICK s \in Instances, k \in ServiceIDs, n \in Names, p \in Patch,
           reply \in {"ok", "failed"} : SystemAction(s, k, n, p, reply)
  BY RegistryStep
<1>2. CASE Admitted /\ BeginAction(s, k, n)
  BY <1>2, BeginSerial DEF Admitted, TypeOK
<1>3. CASE OngoingAction(k, n, p, reply)
  BY <1>3, PostStepsSerial, OtherStepsSerial DEF OngoingAction, TypeOK
<1> QED BY <1>1, <1>2, <1>3 DEF SystemAction

\* The invariant of operations that do not overlap.
LEMMA SerialInvariant ==
  ASSUME Serial = TRUE
  PROVE  Spec => []SerialInv
<1>1. Init => SerialInv
  <2> SUFFICES ASSUME Init PROVE SerialInv
    OBVIOUS
  <2>1. /\ \A k \in ServiceIDs : post[k].pc = "none"
        /\ sweep.pc = "idle"
        /\ \A n \in Names : registrationsMap[n] = <<>>
    BY DEF Init, RegistryInit, NoPost, NoSweep, NoLists
  <2>2. OneOperation /\ ListsUnique
    BY <2>1 DEF OneOperation, ListsUnique, Unique
  <2>3. \A k \in ServiceIDs : PostProgress(k)
    BY <2>1 DEF PostProgress
  <2> QED BY <2>2, <2>3 DEF SerialInv
<1>2. TypeOK /\ TypeOK' /\ SerialInv /\ [Next]_vars => SerialInv'
  BY SerialStep
<1>3. Spec => []TypeOK
  BY TypeCorrect
<1> QED BY <1>1, <1>2, <1>3, PTL DEF Spec

\* When operations do not overlap, the duplicate check of add leaves at most one
\* registration of a URL (server.go:23-33), although its loop runs over a slice
\* that becomes shorter under it.
THEOREM AlwaysAtMostOnePerURL ==
  ASSUME Serial = TRUE
  PROVE  Spec => []AtMostOnePerURL
<1>1. SerialInv => AtMostOnePerURL
  <2> SUFFICES ASSUME SerialInv, Quiet
               PROVE  \A n \in Names : Unique(registrationsMap[n])
    BY DEF AtMostOnePerURL, Unique
  <2> QED BY WithoutPosts DEF Quiet
<1>2. Spec => []SerialInv
  BY SerialInvariant
<1> QED BY <1>1, <1>2, PTL

-----------------------------------------------------------------------------
(* What the services know. *)

\* POST k has shifted the list of n, and will store it shortened.
Shortening(n, k) == post[k].pc = "store" /\ NameOf[post[k].url] = n

\* Position i of the list of n is being deleted.
Leaving(n, i) ==
  \/ \E k \in ServiceIDs : post[k].pc = "drop" /\ NameOf[post[k].url] = n /\ post[k].i = i
  \/ del.pc = "remove" /\ del.name = n /\ del.i = i
  \/ sweep.pc = "remove" /\ sweep.name = n /\ sweep.i = i

\* The ServiceIDs registered under n that no deletion under way takes out.
Staying(n) ==
  IF \E k \in ServiceIDs : Shortening(n, k)
  THEN UNION {IDsIn(post[k].kept) : k \in {j \in ServiceIDs : Shortening(n, j)}}
  ELSE {registrationsMap[n][i].id : i \in {j \in DOMAIN registrationsMap[n] : ~Leaving(n, j)}}

\* Every patch under way is there at least once.
PatchBag == \A p \in BagToSet(patches) : patches[p] \in Nat \ {0}

\* A ServiceID is registered once, under the name of its process, and a process that
\* holds a ServiceID is the one that is registered with it.
Identified ==
  /\ \A n \in Names : \A r \in RegisteredAs(n) : NameOf[r.url] = n
  /\ \A q, r \in Registered : q.id = r.id => q = r
  /\ \A s \in Instances : \A r \in Registered : r.id = serviceID[s] => r.url = s

\* POST k is its process's, which waits for the answer; what it registers is new
\* to everybody, and registered once it is appended.
PostKnown(k) ==
  /\ post[k].pc # "none" =>
       /\ phase[post[k].url] = "posted"
       /\ \A s \in Instances : request[s] = k <=> s = post[k].url
       /\ post[k].pc # "failed" /\ post[k].reply = "ok"
  /\ post[k].pc \in {"check", "drop", "store", "append"} =>
       /\ \A r \in Registered : r.id # k
       /\ \A p \in BagToSet(patches) : p.reg.id # k
       /\ \A s \in Instances : serviceID[s] # k
  /\ post[k].pc = "store" =>
       \A i \in DOMAIN post[k].kept : post[k].kept[i] \in RegisteredAs(NameOf[post[k].url])
  /\ post[k].pc \in {"require", "sending", "announce", "ok"} =>
       [url |-> post[k].url, id |-> k] \in RegisteredAs(NameOf[post[k].url])
  /\ post[k].pc = "sending" =>
       \A n \in RequiredServices(NameOf[post[k].url]) \cap Names :
         post[k].added[n] = registrationsMap[n]

\* A registration that subscribers are told to remove is about to go, or gone.
RemovedGone ==
  \A p \in BagToSet(patches) : p.kind = "removed" => p.reg.id \notin Staying(NameOf[p.reg.url])

\* The process has been sent what it requires.
Informed(s) ==
  \/ phase[s] = "serving" /\ IsServiceRegistered(serviceID[s])
  \/ \E k \in ServiceIDs : post[k].url = s /\ post[k].pc \in {"announce", "ok"}

\* The ServiceIDs that are registered and will be announced.
Announcing == {k \in ServiceIDs : post[k].pc \in {"require", "sending", "announce"}}

\* Service s knows that n is provided by j, or will be told.
Announced(s, n, j) ==
  \/ j \in IDsIn(services[s][n])
  \/ \E p \in BagToSet(patches) :
       p.to = s /\ p.kind = "added" /\ p.reg.id = j /\ NameOf[p.reg.url] = n
  \/ j \in Announcing

\* Who has been informed knows, or will be told, of everybody who stays.
Known ==
  \A s \in Instances : Informed(s) =>
    \A n \in RequiredServices(NameOf[s]) \cap Names : \A j \in Staying(n) : Announced(s, n, j)

\* The inductive invariant of NoProviderMissed.
KnownInv ==
  /\ PatchBag /\ Identified /\ RemovedGone /\ Known
  /\ \A k \in ServiceIDs : PostKnown(k)

-----------------------------------------------------------------------------
\* The map has finitely many positions.
LEMMA SubscribersFinite ==
  ASSUME RegistryTypeOK, NEW name
  PROVE  IsFiniteSet(Subscribers(name))
<1>1. IsFiniteSet(Names)
  <2>1. IsFiniteSet({} \cup {"LogService"} \cup {"ShellService"} \cup {"NodeService"}
                       \cup {"WebService"} \cup {"PaymentService"})
    BY FS_EmptySet, FS_AddElement, Zenon
  <2>2. Names \subseteq {} \cup {"LogService"} \cup {"ShellService"} \cup {"NodeService"}
                           \cup {"WebService"} \cup {"PaymentService"}
    BY NameAssumption DEF Names, ServiceName
  <2> QED BY <2>1, <2>2, FS_Subset
<1> DEFINE At == [n \in Names |-> {n} \X DOMAIN registrationsMap[n]]
           Positions == {{n} \X DOMAIN registrationsMap[n] : n \in Names}
<1>2. IsFiniteSet(Positions)
  <2>1. At \in Surjection(Names, Positions)
    BY DEF Surjection
  <2> QED BY <1>1, <2>1, FS_Surjection
<1>3. ASSUME NEW T \in Positions PROVE IsFiniteSet(T)
  <2>1. PICK n \in Names : T = {n} \X DOMAIN registrationsMap[n]
    OBVIOUS
  <2>2. DOMAIN registrationsMap[n] = 1..Len(registrationsMap[n]) /\ Len(registrationsMap[n]) \in Nat
    BY DEF RegistryTypeOK, Lists
  <2>3. IsFiniteSet(DOMAIN registrationsMap[n])
    BY <2>2, FS_Interval
  <2> QED BY <2>1, <2>3, FS_Singleton, FS_Product
<1> HIDE DEF At, Positions
<1>4. IsFiniteSet(UNION Positions)
  BY <1>2, <1>3, FS_UNION
<1>5. Subscribers(name) \subseteq UNION Positions
  BY DEF Subscribers, Positions
<1> QED BY <1>4, <1>5, FS_Subset

\* notify adds a patch for every registration that requires the name, and nothing
\* else, to the patches under way.
LEMMA notifyAdds ==
  ASSUME RegistryTypeOK, PatchBag,
         NEW kind \in {"added", "removed"}, NEW reg \in Registration, notify(kind, reg)
  PROVE  /\ PatchBag'
         /\ BagToSet(patches) \subseteq BagToSet(patches')
         /\ \A p \in BagToSet(patches') : p \in BagToSet(patches) \/ (p.kind = kind /\ p.reg = reg)
         /\ \A r \in Registered : Requires(r, NameOf[reg.url]) =>
              [to |-> r.url, kind |-> kind, reg |-> reg] \in BagToSet(patches')
<1> DEFINE subscribers == Subscribers(NameOf[reg.url])
           UrlAt(q) == registrationsMap[q[1]][q[2]].url
           new == {[to |-> UrlAt(q), kind |-> kind, reg |-> reg] : q \in subscribers}
           B == [p \in new |-> Cardinality({q \in subscribers : UrlAt(q) = p.to})]
<1>1. patches' = patches (+) B
  BY DEF notify
<1>2. DOMAIN B = new /\ DOMAIN (patches (+) B) = DOMAIN patches \cup DOMAIN B
  BY DEF (+), BagToSet
<1>3. ASSUME NEW p \in new PROVE B[p] \in Nat \ {0}
  <2>1. PICK q \in subscribers : p = [to |-> UrlAt(q), kind |-> kind, reg |-> reg]
    OBVIOUS
  <2> DEFINE same == {x \in subscribers : UrlAt(x) = p.to}
  <2>2. same # {} /\ same \subseteq subscribers
    BY <2>1
  <2>3. IsFiniteSet(same)
    BY <2>2, SubscribersFinite, FS_Subset
  <2>4. Cardinality(same) \in Nat \ {0}
    <3> HIDE DEF same
    <3> QED BY <2>2, <2>3, FS_CardinalityType, FS_EmptySet
  <2> QED BY <2>4
<1>4. ASSUME NEW r \in Registered, Requires(r, NameOf[reg.url])
      PROVE  [to |-> r.url, kind |-> kind, reg |-> reg] \in new
  <2>1. PICK n \in Names : \E j \in DOMAIN registrationsMap[n] : r = registrationsMap[n][j]
    BY DEF Registered, RegisteredAs
  <2>i. PICK i \in DOMAIN registrationsMap[n] : r = registrationsMap[n][i]
    BY <2>1
  <2>2. <<n, i>> \in subscribers /\ UrlAt(<<n, i>>) = r.url
    BY <1>4, <2>i DEF Subscribers
  <2> QED BY <2>2
<1>5. \A p \in new : p.kind = kind /\ p.reg = reg
  OBVIOUS
<1> HIDE DEF new, B
<1>6. ASSUME NEW p \in DOMAIN (patches (+) B) PROVE (patches (+) B)[p] \in Nat \ {0}
  <2>1. p \in DOMAIN patches => patches[p] \in Nat \ {0}
    BY DEF PatchBag, BagToSet
  <2>2. p \in DOMAIN B => B[p] \in Nat \ {0}
    BY <1>2, <1>3
  <2>3. p \in DOMAIN patches \/ p \in DOMAIN B
    BY <1>2
  <2>4. (patches (+) B)[p] = (IF p \in DOMAIN patches THEN patches[p] ELSE 0)
                             + (IF p \in DOMAIN B THEN B[p] ELSE 0)
    BY <2>3 DEF (+), BagToSet
  <2> QED BY <2>1, <2>2, <2>3, <2>4
<1> QED BY <1>1, <1>2, <1>4, <1>5, <1>6 DEF PatchBag, BagToSet

\* A patch that is gone leaves the others.
LEMMA PatchGoneLeaves ==
  ASSUME PatchBag, NEW p, PatchGone(p)
  PROVE  /\ PatchBag'
         /\ BagToSet(patches') \subseteq BagToSet(patches)
         /\ \A q \in BagToSet(patches) : q # p => q \in BagToSet(patches')
<1> DEFINE B == SetToBag({p})
           left(q) == IF q \in DOMAIN B THEN patches[q] - B[q] ELSE patches[q]
<1>1. patches' = patches (-) B
  BY DEF PatchGone
<1>2. DOMAIN B = {p} /\ B[p] = 1
  BY DEF SetToBag
<1>3. /\ DOMAIN (patches (-) B) = {q \in DOMAIN patches : left(q) > 0}
      /\ \A q \in DOMAIN (patches (-) B) : (patches (-) B)[q] = left(q)
  BY DEF (-), BagToSet
<1>4. \A q \in DOMAIN patches : patches[q] \in Nat \ {0}
  BY DEF PatchBag, BagToSet
<1>5. \A q \in DOMAIN patches : left(q) \in Int /\ (q # p => left(q) = patches[q])
  BY <1>2, <1>4
<1> HIDE DEF B, left
<1>6. \A q \in DOMAIN patches : q # p => left(q) > 0
  BY <1>4, <1>5
<1> QED BY <1>1, <1>3, <1>5, <1>6 DEF PatchBag, BagToSet

-----------------------------------------------------------------------------
(* Lists. *)

\* What is left was at another position.
LEMMA DeleteAtOthers ==
  ASSUME NEW list \in Seq(Registration), NEW i \in 1..Len(list),
         NEW j \in DOMAIN DeleteAt(list, i)
  PROVE  \E m \in DOMAIN list : m # i /\ DeleteAt(list, i)[j] = list[m]
<1>1. j \in 1..(Len(list) - 1)
  BY DeleteAtElements
<1>2. CASE j < i
  <2>1. j \in DOMAIN list /\ j # i
    BY <1>1, <1>2
  <2>2. DeleteAt(list, i)[j] = list[j]
    BY <1>1, <1>2, DeleteAtElements
  <2> QED BY <2>1, <2>2
<1>3. CASE ~(j < i)
  <2>1. j + 1 \in DOMAIN list /\ j + 1 # i
    BY <1>1, <1>3
  <2>2. DeleteAt(list, i)[j] = list[j + 1]
    BY <1>1, <1>3, DeleteAtElements
  <2> QED BY <2>1, <2>2
<1> QED BY <1>2, <1>3

\* All but one position are left.
LEMMA DeleteAtLeaves ==
  ASSUME NEW list \in Seq(Registration), NEW i \in 1..Len(list), NEW m \in DOMAIN list, m # i
  PROVE  \E j \in DOMAIN DeleteAt(list, i) : DeleteAt(list, i)[j] = list[m]
<1>0. DOMAIN DeleteAt(list, i) = 1..(Len(list) - 1) /\ m \in 1..Len(list)
  BY DeleteAtElements
<1>1. CASE m < i
  <2>1. m \in 1..(Len(list) - 1)
    BY <1>0, <1>1
  <2>2. DeleteAt(list, i)[m] = list[m]
    BY <1>1, <2>1, DeleteAtElements
  <2> QED BY <1>0, <2>1, <2>2
<1>2. CASE ~(m < i)
  <2>1. m - 1 \in 1..(Len(list) - 1) /\ ~(m - 1 < i) /\ (m - 1) + 1 = m
    BY <1>0, <1>2
  <2>2. DeleteAt(list, i)[m - 1] = list[(m - 1) + 1]
    BY <2>1, DeleteAtElements
  <2> QED BY <1>0, <2>1, <2>2
<1> QED BY <1>1, <1>2

\* Adding providers to a list keeps those it has.
LEMMA ConcatIDs ==
  ASSUME NEW a \in Seq(Registration), NEW b \in Seq(Registration)
  PROVE  IDsIn(a) \subseteq IDsIn(a \o b) /\ IDsIn(b) \subseteq IDsIn(a \o b)
<1>1. /\ DOMAIN (a \o b) = 1..(Len(a) + Len(b)) /\ DOMAIN a = 1..Len(a) /\ DOMAIN b = 1..Len(b)
      /\ \A i \in 1..Len(a) : (a \o b)[i] = a[i]
      /\ \A i \in 1..Len(b) : (a \o b)[Len(a) + i] = b[i]
  OBVIOUS
<1>2. /\ \A i \in 1..Len(a) : i \in 1..(Len(a) + Len(b))
      /\ \A i \in 1..Len(b) : Len(a) + i \in 1..(Len(a) + Len(b))
  OBVIOUS
<1>3. ASSUME NEW i \in DOMAIN a PROVE a[i].id \in IDsIn(a \o b)
  BY <1>1, <1>2 DEF IDsIn
<1>4. ASSUME NEW i \in DOMAIN b PROVE b[i].id \in IDsIn(a \o b)
  <2>1. Len(a) + i \in DOMAIN (a \o b) /\ (a \o b)[Len(a) + i] = b[i]
    BY <1>1, <1>2
  <2> QED BY <2>1 DEF IDsIn
<1> QED BY <1>3, <1>4 DEF IDsIn

\* Removing a provider keeps the others.
LEMMA WithoutFirstIDs ==
  ASSUME NEW list \in Seq(Registration), NEW k
  PROVE  \A j \in IDsIn(list) : j # k => j \in IDsIn(WithoutFirst(list, k))
<1> DEFINE IsFirst(i) == FirstAt(list, i, LAMBDA r : r.id = k)
           i == CHOOSE j \in DOMAIN list : IsFirst(j)
<1>1. CASE \E j \in DOMAIN list : IsFirst(j)
  <2>1. i \in DOMAIN list /\ list[i].id = k
    BY <1>1 DEF FirstAt
  <2>2. i \in 1..Len(list)
    BY <2>1
  <2>3. WithoutFirst(list, k) = DeleteAt(list, i)
    BY <1>1 DEF WithoutFirst
  <2> HIDE DEF i
  <2>4. ASSUME NEW m \in DOMAIN list, list[m].id # k
        PROVE  list[m].id \in IDsIn(DeleteAt(list, i))
    <3>1. m # i
      BY <2>1, <2>4
    <3>2. PICK j \in DOMAIN DeleteAt(list, i) : DeleteAt(list, i)[j] = list[m]
      BY <2>2, <3>1, DeleteAtLeaves
    <3> QED BY <3>2 DEF IDsIn
  <2> QED BY <2>3, <2>4 DEF IDsIn
<1>2. CASE ~ \E j \in DOMAIN list : IsFirst(j)
  BY <1>2 DEF WithoutFirst
<1> QED BY <1>1, <1>2

-----------------------------------------------------------------------------
(* What stays. *)

\* When nothing is being deleted, every registration stays.
LEMMA AllStay ==
  ASSUME NEW n \in Names, \A j \in ServiceIDs : post[j].pc \notin {"drop", "store"},
         del.pc # "remove", sweep.pc # "remove"
  PROVE  Staying(n) = IDsIn(registrationsMap[n])
BY DEF Staying, Shortening, Leaving, IDsIn

\* The same of the next state.
LEMMA AllStayNext ==
  ASSUME NEW n \in Names, \A j \in ServiceIDs : post'[j].pc \notin {"drop", "store"},
         del'.pc # "remove", sweep'.pc # "remove"
  PROVE  Staying(n)' = IDsIn(registrationsMap'[n])
BY DEF Staying, Shortening, Leaving, IDsIn

\* A registration that is not being deleted stays.
LEMMA OthersStay ==
  ASSUME NEW n \in Names, NEW i \in DOMAIN registrationsMap[n], ~Leaving(n, i),
         \A j \in ServiceIDs : post[j].pc # "store"
  PROVE  registrationsMap[n][i].id \in Staying(n)
BY DEF Staying, Shortening

\* A deletion that is under way after the step takes its position out.
LEMMA LeavingNext ==
  ASSUME NEW n \in Names, NEW i, Leaving(n, i)', \A j \in ServiceIDs : post'[j].pc # "store"
  PROVE  /\ \A m \in Names : Staying(m)' \subseteq IDsIn(registrationsMap'[m])
         /\ \A j \in Staying(n)' :
              \E x \in DOMAIN registrationsMap'[n] : x # i /\ registrationsMap'[n][x].id = j
BY DEF Staying, Shortening, IDsIn

\* Steps that touch neither a list nor a deletion.
LEMMA StayingSame ==
  ASSUME UNCHANGED <<registrationsMap, post, del>>,
         sweep.pc = "remove" <=> sweep'.pc = "remove",
         sweep.pc = "remove" => sweep'.name = sweep.name /\ sweep'.i = sweep.i
  PROVE  /\ \A n \in Names : Staying(n)' = Staying(n)
         /\ \A n \in Names : RegisteredAs(n)' = RegisteredAs(n)
         /\ Registered' = Registered
<1>1. \A n, i : Leaving(n, i)' <=> Leaving(n, i)
  BY DEF Leaving
<1>2. \A n, k : Shortening(n, k)' <=> Shortening(n, k)
  BY DEF Shortening
<1>3. ASSUME NEW n \in Names PROVE Staying(n)' = Staying(n)
  <2>1. CASE \E k \in ServiceIDs : Shortening(n, k)
    <3>1. \E k \in ServiceIDs : Shortening(n, k)'
      BY <1>2, <2>1
    <3>2. {j \in ServiceIDs : Shortening(n, j)'} = {j \in ServiceIDs : Shortening(n, j)}
      BY <1>2
    <3> QED BY <2>1, <3>1, <3>2 DEF Staying
  <2>2. CASE ~ \E k \in ServiceIDs : Shortening(n, k)
    <3>1. ~ \E k \in ServiceIDs : Shortening(n, k)'
      BY <1>2, <2>2
    <3>2. {j \in DOMAIN registrationsMap'[n] : ~Leaving(n, j)'}
          = {j \in DOMAIN registrationsMap[n] : ~Leaving(n, j)}
      BY <1>1
    <3> QED BY <2>2, <3>1, <3>2 DEF Staying
  <2> QED BY <2>1, <2>2
<1> QED BY <1>3 DEF Registered, RegisteredAs

\* Who stays is registered.
LEMMA StayingRegistered ==
  ASSUME KnownInv, NEW n \in Names, NEW j \in Staying(n)
  PROVE  \E r \in RegisteredAs(n) : r.id = j
<1>1. CASE \E k \in ServiceIDs : Shortening(n, k)
  <2>1. PICK k \in ServiceIDs : Shortening(n, k) /\ j \in IDsIn(post[k].kept)
    BY <1>1 DEF Staying
  <2>2. PICK i \in DOMAIN post[k].kept : post[k].kept[i].id = j
    BY <2>1 DEF IDsIn
  <2> QED BY <2>1, <2>2 DEF KnownInv, PostKnown, Shortening
<1>2. CASE ~ \E k \in ServiceIDs : Shortening(n, k)
  BY <1>2 DEF Staying, RegisteredAs
<1> QED BY <1>1, <1>2

-----------------------------------------------------------------------------
(* Steps that register nobody. *)

\* What is registered is a registration.
LEMMA RegisteredType ==
  ASSUME RegistryTypeOK
  PROVE  /\ \A n \in Names : RegisteredAs(n) \subseteq Registration
         /\ Registered \subseteq Registration
<1>1. \A n \in Names : \A i \in DOMAIN registrationsMap[n] : registrationsMap[n][i] \in Registration
  BY DEF RegistryTypeOK, Lists
<1> QED BY <1>1 DEF Registered, RegisteredAs

\* A step that registers nobody, keeps nobody who was leaving, tells about removals
\* only, and forgets nothing of what it has to tell, keeps the invariant.
LEMMA NothingForgotten ==
  ASSUME TypeOK, KnownInv, PatchBag',
         \A n \in Names : RegisteredAs(n)' \subseteq RegisteredAs(n),
         \A n \in Names : Staying(n)' \subseteq Staying(n),
         \A p \in BagToSet(patches') : p.kind = "removed" =>
           p \in BagToSet(patches) \/ p.reg.id \notin Staying(NameOf[p.reg.url])',
         \A s \in Instances :
           \/ serviceID'[s] \in {serviceID[s], NoID}
           \/ \A r \in Registered' : r.id = serviceID'[s] => r.url = s,
         \A s \in Instances : Informed(s)' =>
           /\ Informed(s)
           /\ \A n \in RequiredServices(NameOf[s]) \cap Names : \A j \in Staying(n)' :
                Announced(s, n, j) => Announced(s, n, j)',
         \A k \in ServiceIDs : PostKnown(k)'
  PROVE  KnownInv'
<1>1. Registered' \subseteq Registered
  BY DEF Registered
<1>2. Identified'
  <2>1. \A n \in Names : \A r \in RegisteredAs(n)' : NameOf[r.url] = n
    BY DEF KnownInv, Identified
  <2>2. \A q, r \in Registered' : q.id = r.id => q = r
    BY <1>1 DEF KnownInv, Identified
  <2>3. ASSUME NEW s \in Instances, NEW r \in Registered', r.id = serviceID'[s]
        PROVE  r.url = s
    <3>1. r \in Registered /\ r \in Registration
      BY <1>1, RegisteredType DEF TypeOK
    <3>2. r.id # NoID
      BY <3>1, NoIDAssumption DEF Registration
    <3>3. CASE serviceID'[s] = serviceID[s]
      BY <2>3, <3>1, <3>3 DEF KnownInv, Identified
    <3> QED BY <2>3, <3>2, <3>3
  <2> QED BY <2>1, <2>2, <2>3 DEF Identified
<1>3. RemovedGone'
  <2> SUFFICES ASSUME NEW p \in BagToSet(patches'), p.kind = "removed"
               PROVE  p.reg.id \notin Staying(NameOf[p.reg.url])'
    BY DEF RemovedGone
  <2>1. CASE p \in BagToSet(patches)
    <3>1. p.reg.id \notin Staying(NameOf[p.reg.url])
      BY <2>1 DEF KnownInv, RemovedGone
    <3>2. NameOf[p.reg.url] \in Names
      BY <2>1 DEF TypeOK, RegistryTypeOK, Patch, Registration, Names
    <3> QED BY <3>1, <3>2
  <2> QED BY <2>1
<1>4. Known'
  <2> SUFFICES ASSUME NEW s \in Instances, Informed(s)',
                      NEW n \in RequiredServices(NameOf[s]) \cap Names, NEW j \in Staying(n)'
               PROVE  Announced(s, n, j)'
    BY DEF Known
  <2>1. Informed(s) /\ j \in Staying(n)
    OBVIOUS
  <2>2. Announced(s, n, j)
    BY <2>1 DEF KnownInv, Known
  <2> QED BY <2>2
<1> QED BY <1>2, <1>3, <1>4 DEF KnownInv

\* A goroutine that does not run has nothing to know, one that the step leaves alone
\* knows what it knew.
LEMMA PostKnownKept ==
  ASSUME KnownInv, NEW k \in ServiceIDs, post'[k] = post[k],
         post[k].pc # "none" =>
           /\ UNCHANGED <<registrationsMap, serviceID, request>>
           /\ BagToSet(patches') \subseteq BagToSet(patches)
           /\ \A s \in Instances : phase[s] = "posted" => phase'[s] = "posted",
         post[k].url \in Instances
  PROVE  PostKnown(k)'
<1>1. CASE post[k].pc = "none"
  BY <1>1 DEF PostKnown
<1>2. CASE post[k].pc # "none"
  <2>1. PostKnown(k)
    BY DEF KnownInv
  <2>2. /\ Registered' = Registered
        /\ \A n : RegisteredAs(n)' = RegisteredAs(n)
    BY <1>2 DEF Registered, RegisteredAs
  <2> QED BY <1>2, <2>1, <2>2 DEF PostKnown
<1> QED BY <1>1, <1>2

\* A goroutine that runs is the only one.
LEMMA PostKnownOthers ==
  ASSUME SerialInv, NEW k \in ServiceIDs, post[k].pc # "none",
         \A j \in ServiceIDs \ {k} : post'[j] = post[j], PostKnown(k)'
  PROVE  \A j \in ServiceIDs : PostKnown(j)'
<1>1. \A j \in ServiceIDs \ {k} : post'[j].pc = "none"
  BY DEF SerialInv, OneOperation
<1> QED BY <1>1 DEF PostKnown

\* While a POST is under way, only that POST deletes.
LEMMA PostStaying ==
  ASSUME RegistryTypeOK, SerialInv, NEW k \in ServiceIDs, post[k].pc # "none", NEW n \in Names
  PROVE  /\ post[k].pc \notin {"drop", "store"} \/ n # NameOf[post[k].url] =>
              Staying(n) = IDsIn(registrationsMap[n])
         /\ post[k].pc = "drop" =>
              \A i \in DOMAIN registrationsMap[n] :
                i # post[k].i => registrationsMap[n][i].id \in Staying(n)
         /\ post[k].pc = "store" /\ n = NameOf[post[k].url] => Staying(n) = IDsIn(post[k].kept)
<1>1. /\ \A j \in ServiceIDs : j # k => post[j].pc = "none"
      /\ del.pc = "idle" /\ sweep.pc = "idle"
  BY DEF SerialInv, OneOperation
<1>2. ASSUME post[k].pc \notin {"drop", "store"} \/ n # NameOf[post[k].url]
      PROVE  Staying(n) = IDsIn(registrationsMap[n])
  <2>1. \A j \in ServiceIDs : ~Shortening(n, j)
    BY <1>1, <1>2 DEF Shortening
  <2>2. \A i : ~Leaving(n, i)
    BY <1>1, <1>2 DEF Leaving
  <2> QED BY <2>1, <2>2 DEF Staying, IDsIn
<1>3. ASSUME post[k].pc = "drop", NEW i \in DOMAIN registrationsMap[n], i # post[k].i
      PROVE  registrationsMap[n][i].id \in Staying(n)
  <2>1. \A j \in ServiceIDs : post[j].pc # "store"
    BY <1>1, <1>3
  <2>2. ~Leaving(n, i)
    BY <1>1, <1>3 DEF Leaving
  <2> QED BY <2>1, <2>2, OthersStay
<1>4. ASSUME post[k].pc = "store", n = NameOf[post[k].url]
      PROVE  Staying(n) = IDsIn(post[k].kept)
  <2>1. {j \in ServiceIDs : Shortening(n, j)} = {k}
    BY <1>1, <1>4 DEF Shortening
  <2>2. \E j \in ServiceIDs : Shortening(n, j)
    BY <2>1
  <2> QED BY <2>1, <2>2 DEF Staying
<1> QED BY <1>2, <1>3, <1>4

\* The same of the next state.
LEMMA PostStayingNext ==
  ASSUME RegistryTypeOK', SerialInv', NEW k \in ServiceIDs, post'[k].pc # "none", NEW n \in Names
  PROVE  /\ post'[k].pc \notin {"drop", "store"} \/ n # NameOf[post'[k].url] =>
              Staying(n)' = IDsIn(registrationsMap'[n])
         /\ post'[k].pc = "store" /\ n = NameOf[post'[k].url] => Staying(n)' = IDsIn(post'[k].kept)
<1>1. /\ \A j \in ServiceIDs : j # k => post'[j].pc = "none"
      /\ del'.pc = "idle" /\ sweep'.pc = "idle"
  BY DEF SerialInv, OneOperation
<1>2. ASSUME post'[k].pc \notin {"drop", "store"} \/ n # NameOf[post'[k].url]
      PROVE  Staying(n)' = IDsIn(registrationsMap'[n])
  <2>1. \A j \in ServiceIDs : ~Shortening(n, j)'
    BY <1>1, <1>2 DEF Shortening
  <2>2. \A i : ~Leaving(n, i)'
    BY <1>1, <1>2 DEF Leaving
  <2> QED BY <2>1, <2>2 DEF Staying, IDsIn
<1>4. ASSUME post'[k].pc = "store", n = NameOf[post'[k].url]
      PROVE  Staying(n)' = IDsIn(post'[k].kept)
  <2>1. {j \in ServiceIDs : Shortening(n, j)'} = {k}
    BY <1>1, <1>4 DEF Shortening
  <2>2. \E j \in ServiceIDs : Shortening(n, j)'
    BY <2>1
  <2> QED BY <2>1, <2>2 DEF Staying
<1> QED BY <1>2, <1>4
\* A step that leaves the registry's lists alone and informs nobody.
LEMMA BystanderKept ==
  ASSUME TypeOK, KnownInv, PatchBag', BagToSet(patches') \subseteq BagToSet(patches),
         UNCHANGED <<registrationsMap, post, del>>,
         sweep.pc = "remove" <=> sweep'.pc = "remove",
         sweep.pc = "remove" => sweep'.name = sweep.name /\ sweep'.i = sweep.i,
         \A s \in Instances : serviceID'[s] \in {serviceID[s], NoID},
         \A s \in Instances :
           phase'[s] = "serving" => phase[s] = "serving" /\ serviceID'[s] = serviceID[s],
         \A k \in ServiceIDs : post[k].pc # "none" =>
           /\ UNCHANGED <<serviceID, request>>
           /\ \A s \in Instances : phase[s] = "posted" => phase'[s] = "posted",
         \A s \in Instances : Informed(s) /\ Informed(s)' =>
           \A n \in RequiredServices(NameOf[s]) \cap Names : \A j \in Staying(n) :
             Announced(s, n, j) => Announced(s, n, j)'
  PROVE  KnownInv'
<1>1. /\ \A n \in Names : Staying(n)' = Staying(n)
      /\ \A n \in Names : RegisteredAs(n)' = RegisteredAs(n)
      /\ Registered' = Registered
  BY StayingSame
<1>2. ASSUME NEW k \in ServiceIDs PROVE PostKnown(k)'
  <2>1. post[k].url \in Instances
    BY DEF TypeOK, RegistryTypeOK, PostGoroutine
  <2> QED BY <2>1, PostKnownKept
<1>3. ASSUME NEW s \in Instances, Informed(s)' PROVE Informed(s)
  BY <1>1, <1>3 DEF Informed, IsServiceRegistered
<1> QED BY <1>1, <1>2, <1>3, NothingForgotten

\* ... and neither tells nor forgets anything.
LEMMA IdleKept ==
  ASSUME TypeOK, KnownInv,
         UNCHANGED <<registrationsMap, post, del, patches, services, serviceID, request>>,
         sweep.pc = "remove" <=> sweep'.pc = "remove",
         sweep.pc = "remove" => sweep'.name = sweep.name /\ sweep'.i = sweep.i,
         \A s \in Instances :
           phase'[s] = phase[s] \/ (phase[s] # "posted" /\ phase'[s] # "serving")
  PROVE  KnownInv'
<1>1. PatchBag'
  BY DEF KnownInv, PatchBag
<1>2. \A s, n, j : Announced(s, n, j) <=> Announced(s, n, j)'
  BY DEF Announced, Announcing
<1> QED BY <1>1, <1>2, BystanderKept

\* The patch that a process applies is what it is told.
LEMMA DeliverPatchKnown ==
  ASSUME Lossy = FALSE, TypeOK, TypeOK', KnownInv, NEW p \in BagToSet(patches), DeliverPatch(p)
  PROVE  KnownInv'
<1>1. /\ PatchBag'
      /\ BagToSet(patches') \subseteq BagToSet(patches)
      /\ \A q \in BagToSet(patches) : q # p => q \in BagToSet(patches')
  BY PatchGoneLeaves DEF KnownInv, DeliverPatch
<1>2. UNCHANGED <<registrationsMap, LastHeartBeat, post, sweep, del, wedged>>
  BY DEF DeliverPatch, PatchGone
<1>3. UNCHANGED <<phase, serviceID, request>>
  BY DEF DeliverPatch, ReceivePatch, clientVars
<1>4. p \in Patch /\ p.to \in Instances /\ p.reg \in Registration /\ NameOf[p.reg.url] \in Names
  <2>1. p \in Patch
    BY DEF TypeOK, RegistryTypeOK
  <2>2. p.to \in Instances /\ p.reg \in Registration
    BY <2>1 DEF Patch
  <2> QED BY <2>1, <2>2, NamesNonempty DEF Registration
<1>5. services \in [Instances -> Lists] /\ services[p.to] \in Lists
  BY <1>4 DEF TypeOK, ClientTypeOK
<1>6. ASSUME NEW s \in Instances, Informed(s), NEW n \in Names, NEW j \in Staying(n),
             Announced(s, n, j)
      PROVE  Announced(s, n, j)'
  <2>1. CASE j \in Announcing
    BY <1>2, <2>1 DEF Announced, Announcing
  <2>2. CASE \E q \in BagToSet(patches) : /\ q # p
                                          /\ q.to = s /\ q.kind = "added"
                                          /\ q.reg.id = j /\ NameOf[q.reg.url] = n
    BY <1>1, <2>2 DEF Announced
  <2>3. CASE s # p.to /\ j \in IDsIn(services[s][n])
    <3>1. services'[s] = services[s]
      BY <1>5, <2>3 DEF DeliverPatch, ReceivePatch, clientVars
    <3> QED BY <2>3, <3>1 DEF Announced
  <2>4. CASE /\ s = p.to
             /\ \/ j \in IDsIn(services[s][n])
                \/ p.kind = "added" /\ p.reg.id = j /\ NameOf[p.reg.url] = n
    <3>1. Up(s)
      <4>1. CASE phase[s] = "serving"
        BY <4>1 DEF Up
      <4>2. CASE phase[s] # "serving"
        <5>1. PICK k \in ServiceIDs : post[k].url = s /\ post[k].pc \in {"announce", "ok"}
          BY <1>6, <4>2 DEF Informed
        <5>2. phase[s] = "posted"
          BY <5>1 DEF KnownInv, PostKnown
        <5> QED BY <5>2 DEF Up
      <4> QED BY <4>1, <4>2
    <3>2. services' = [services EXCEPT ![p.to] = Updated(p)]
      BY <2>4, <3>1 DEF DeliverPatch, ReceivePatch
    <3>3. services'[s] = Updated(p)
      BY <1>4, <1>5, <2>4, <3>2
    <3>4. services[s][n] \in Seq(Registration)
      BY <1>5, <2>4 DEF Lists
    <3>5. CASE p.kind = "added"
      <4> DEFINE added == [NoLists EXCEPT ![NameOf[p.reg.url]] = <<p.reg>>]
      <4>1. /\ added \in [Names -> Seq(Registration)]
            /\ n = NameOf[p.reg.url] => added[n] = <<p.reg>>
        BY <1>4, NoListsType DEF Lists
      <4> HIDE DEF added
      <4>2. services'[s][n] = services[s][n] \o added[n]
        BY <2>4, <3>3, <3>5 DEF Updated, AfterAdding, added
      <4>3. IDsIn(services[s][n]) \subseteq IDsIn(services'[s][n])
        BY <3>4, <4>1, <4>2, ConcatIDs
      <4>4. n = NameOf[p.reg.url] => p.reg.id \in IDsIn(services'[s][n])
        <5>1. n = NameOf[p.reg.url] => p.reg.id \in IDsIn(added[n])
          BY <4>1 DEF IDsIn
        <5> QED BY <3>4, <4>1, <4>2, <5>1, ConcatIDs
      <4> QED BY <2>4, <4>3, <4>4 DEF Announced
    <3>6. CASE p.kind = "removed"
      <4>1. j \in IDsIn(services[s][n])
        BY <2>4, <3>6
      <4>2. services'[s] = [services[s] EXCEPT ![NameOf[p.reg.url]] = WithoutFirst(@, p.reg.id)]
        BY <2>4, <3>3, <3>6 DEF Updated, AfterRemoving
      <4>3. CASE n = NameOf[p.reg.url]
        <5>1. j # p.reg.id
          BY <3>6, <4>3, <1>6 DEF KnownInv, RemovedGone
        <5>2. services'[s][n] = WithoutFirst(services[s][n], p.reg.id)
          BY <1>5, <2>4, <4>2, <4>3 DEF Lists
        <5> QED BY <3>4, <4>1, <5>1, <5>2, WithoutFirstIDs DEF Announced
      <4>4. CASE n # NameOf[p.reg.url]
        <5>1. services'[s][n] = services[s][n]
          BY <1>5, <2>4, <4>2, <4>4 DEF Lists
        <5> QED BY <4>1, <5>1 DEF Announced
      <4> QED BY <4>3, <4>4
    <3> QED BY <1>4, <3>5, <3>6 DEF Patch
  <2> QED BY <1>6, <2>1, <2>2, <2>3, <2>4 DEF Announced
<1> QED BY <1>1, <1>2, <1>3, <1>6, BystanderKept

\* A process that ends is not informed any more.
LEMMA CrashKnown ==
  ASSUME Serial = TRUE, TypeOK, KnownInv, NEW s \in Instances, Crash(s)
  PROVE  KnownInv'
<1>1. \A k \in ServiceIDs : post[k].pc = "none"
  BY DEF Crash, Admitted, Quiet
<1>2. UNCHANGED <<registrationsMap, post, del, sweep, patches>>
  BY DEF Crash, registryVars
<1>3. /\ phase \in [Instances -> Phases] /\ serviceID \in [Instances -> ServiceIDs \cup {NoID}]
      /\ services \in [Instances -> Lists]
  BY DEF TypeOK, ClientTypeOK
<1>4. /\ \A t \in Instances : t # s => phase'[t] = phase[t]
      /\ \A t \in Instances : t # s => serviceID'[t] = serviceID[t]
      /\ \A t \in Instances : t # s => services'[t] = services[t]
      /\ phase'[s] = "down" /\ serviceID'[s] = NoID
  BY <1>3 DEF Crash, KillProcess
<1>5. PatchBag'
  BY <1>2 DEF KnownInv, PatchBag
<1>6. ASSUME NEW t \in Instances, Informed(t)', NEW n, NEW j, Announced(t, n, j)
      PROVE  Announced(t, n, j)'
  <2>1. t # s
    BY <1>1, <1>2, <1>4, <1>6 DEF Informed
  <2> QED BY <1>2, <1>4, <1>6, <2>1 DEF Announced, Announcing
<1> QED BY <1>1, <1>2, <1>4, <1>5, <1>6, BystanderKept

\* So is one whose heartbeat is rejected: it is not registered any more.
LEMMA BeatRejectedKnown ==
  ASSUME TypeOK, KnownInv, NEW s \in Instances, BeatRejected(s)
  PROVE  KnownInv'
<1>1. /\ PatchBag'
      /\ BagToSet(patches') \subseteq BagToSet(patches)
      /\ \A q \in BagToSet(patches) : q.to # s => q \in BagToSet(patches')
      /\ UNCHANGED <<registrationsMap, post, sweep, del>>
  <2>1. CASE UNCHANGED registryVars
    BY <2>1 DEF registryVars, KnownInv, PatchBag
  <2>2. CASE \E p \in BagToSet(patches) : p.to = s /\ PatchGone(p)
    <3>1. PICK p \in BagToSet(patches) : p.to = s /\ PatchGone(p)
      BY <2>2
    <3>2. /\ PatchBag'
          /\ BagToSet(patches') \subseteq BagToSet(patches)
          /\ \A q \in BagToSet(patches) : q # p => q \in BagToSet(patches')
      BY <3>1, PatchGoneLeaves DEF KnownInv
    <3>3. UNCHANGED <<registrationsMap, post, sweep, del>>
      BY <3>1 DEF PatchGone
    <3> QED BY <3>1, <3>2, <3>3
  <2> QED BY <2>1, <2>2 DEF BeatRejected
<1>2. /\ phase' = [phase EXCEPT ![s] = "register"] /\ phase[s] = "serving"
      /\ UNCHANGED <<serviceID, request>>
      /\ \E left : services' = [services EXCEPT ![s] = left]
  BY DEF BeatRejected, ReRegister
<1>3. /\ phase \in [Instances -> Phases] /\ services \in [Instances -> Lists]
      /\ \A k \in ServiceIDs : post[k].url \in Instances
  BY DEF TypeOK, ClientTypeOK, RegistryTypeOK, PostGoroutine
<1>4. /\ \A t \in Instances : t # s => phase'[t] = phase[t]
      /\ \A t \in Instances : t # s => services'[t] = services[t]
      /\ phase'[s] = "register"
  BY <1>2, <1>3
<1>5. ~Informed(s)'
  <2>1. \A k \in ServiceIDs : post[k].pc \in {"announce", "ok"} => post[k].url # s
    BY <1>2 DEF KnownInv, PostKnown
  <2> QED BY <1>1, <1>4, <2>1 DEF Informed
<1>6. ASSUME NEW t \in Instances, Informed(t)', NEW n, NEW j, Announced(t, n, j)
      PROVE  Announced(t, n, j)'
  <2>1. t # s
    BY <1>5, <1>6
  <2>2. services'[t] = services[t]
    BY <1>4, <2>1
  <2>3. Announcing' = Announcing
    BY <1>1 DEF Announcing
  <2> QED BY <1>1, <1>6, <2>1, <2>2, <2>3 DEF Announced
<1> QED BY <1>1, <1>2, <1>4, <1>6, BystanderKept
-----------------------------------------------------------------------------
(* The steps of a registration. *)

\* A uuid that nothing refers to is new to the registry and to every process.
LEMMA PostFresh ==
  ASSUME NEW k, GenerateUUID(k)
  PROVE  /\ \A r \in Registered : r.id # k
         /\ \A p \in BagToSet(patches) : p.reg.id # k
         /\ \A s \in Instances : serviceID[s] # k /\ request[s] # k
<1> DEFINE Maps == {registrationsMap, sweep.snapshot} \cup {services[s] : s \in Instances}
                     \cup {post[j].added : j \in ServiceIDs}
           InMap(m) == UNION {IDsIn(m[n]) : n \in Names}
           Held == UNION {InMap(m) : m \in Maps}
           Kept == UNION {IDsIn(post[j].kept) : j \in ServiceIDs}
           Told == {p.reg.id : p \in BagToSet(patches)}
           Mine == {serviceID[s] : s \in Instances}
           Asked == {request[s] : s \in Instances}
           Drawn == {j \in ServiceIDs : post[j].pc # "none"}
<1>1. Referenced = Held \cup Kept \cup Told \cup Mine \cup Asked \cup Drawn
  BY Zenon DEF Referenced
<1>2. k \notin Referenced
  BY DEF GenerateUUID
<1>3. registrationsMap \in Maps
  OBVIOUS
<1> HIDE DEF Maps
<1>4. ASSUME NEW r \in Registered PROVE r.id \in Held
  <2>1. PICK n \in Names : r \in RegisteredAs(n)
    BY DEF Registered
  <2>2. r.id \in IDsIn(registrationsMap[n])
    BY <2>1 DEF RegisteredAs, IDsIn
  <2>3. r.id \in InMap(registrationsMap)
    BY <2>2
  <2> HIDE DEF InMap
  <2> QED BY <1>3, <2>3
<1>5. /\ \A p \in BagToSet(patches) : p.reg.id \in Told
      /\ \A s \in Instances : serviceID[s] \in Mine /\ request[s] \in Asked
  OBVIOUS
<1> HIDE DEF Held, Kept, Told, Mine, Asked, Drawn
<1> QED BY <1>1, <1>2, <1>4, <1>5

\* A POST begins.
LEMMA PostBegins ==
  ASSUME Serial = TRUE, TypeOK, KnownInv, NEW s \in Instances, NEW k \in ServiceIDs, Post(s, k)
  PROVE  KnownInv'
<1>1. /\ \A j \in ServiceIDs : post[j].pc = "none"
      /\ sweep.pc = "idle" /\ del.pc = "idle"
  BY DEF Post, Admitted, Quiet
<1>2. UNCHANGED <<registrationsMap, sweep, del, patches>> /\ UNCHANGED <<serviceID, services>>
  BY DEF Post, ServePost, SendRequest
<1>3. /\ \A j \in ServiceIDs : j # k => post'[j] = post[j]
      /\ post'[k].pc \in {"append", "check"} /\ post'[k].url = s /\ post'[k].reply = "ok"
  <2>1. post \in [ServiceIDs -> PostGoroutine] /\ NoPost \in PostGoroutine
    BY NoneTypes DEF TypeOK, RegistryTypeOK
  <2>2. PICK n : post' = [post EXCEPT ![k] =
                   [NoPost EXCEPT !.pc = IF n = 0 THEN "append" ELSE "check", !.url = s, !.n = n]]
    BY DEF Post, ServePost
  <2>3. NoPost.reply = "ok"
    BY DEF NoPost
  <2> QED BY <2>1, <2>2, <2>3 DEF PostGoroutine
<1>4. /\ \A t \in Instances : t # s => phase'[t] = phase[t] /\ request'[t] = request[t]
      /\ phase'[s] = "posted" /\ request'[s] = k
  BY DEF Post, SendRequest, TypeOK, ClientTypeOK
<1>5. Registered' = Registered /\ \A n \in Names : RegisteredAs(n)' = RegisteredAs(n)
  BY <1>2 DEF Registered, RegisteredAs
<1>6. ASSUME NEW n \in Names PROVE Staying(n)' = Staying(n)
  <2>1. Staying(n) = IDsIn(registrationsMap[n])
    BY <1>1, AllStay
  <2>2. Staying(n)' = IDsIn(registrationsMap'[n])
    BY <1>1, <1>2, <1>3, AllStayNext
  <2> QED BY <1>2, <2>1, <2>2
<1>7. PatchBag'
  BY <1>2 DEF KnownInv, PatchBag
<1>8. ASSUME NEW j \in ServiceIDs PROVE PostKnown(j)'
  <2>1. CASE j # k
    BY <1>1, <1>3, <2>1 DEF PostKnown
  <2>2. CASE j = k
    <3>1. /\ \A r \in Registered : r.id # k
          /\ \A p \in BagToSet(patches) : p.reg.id # k
          /\ \A t \in Instances : serviceID[t] # k /\ request[t] # k
      BY PostFresh DEF Post
    <3>2. \A t \in Instances : request'[t] = k <=> t = s
      BY <1>4, <3>1
    <3> QED BY <1>2, <1>3, <1>4, <1>5, <2>2, <3>1, <3>2 DEF PostKnown
  <2> QED BY <2>1, <2>2
<1>9. ASSUME NEW t \in Instances, Informed(t)'
      PROVE  Informed(t) /\ \A n, j : Announced(t, n, j) => Announced(t, n, j)'
  <2>1. phase'[t] = "serving" /\ IsServiceRegistered(serviceID[t])'
    BY <1>1, <1>3, <1>9 DEF Informed
  <2>2. Informed(t)
    BY <1>2, <1>4, <1>5, <2>1 DEF Informed, IsServiceRegistered
  <2>3. Announcing = {}
    BY <1>1 DEF Announcing
  <2> QED BY <1>2, <2>2, <2>3 DEF Announced
<1> QED BY <1>2, <1>5, <1>6, <1>7, <1>8, <1>9, NothingForgotten

\* The duplicate check registers nobody and informs nobody.
LEMMA DuplicateSteps ==
  ASSUME TypeOK, SerialInv, KnownInv, NEW k \in ServiceIDs, PatchBag', UNCHANGED clientVars,
         post[k].pc \in {"check", "drop", "store"},
         post'[k].pc \in {"check", "drop", "store", "append", "broken"},
         post'[k].url = post[k].url, post'[k].reply = post[k].reply,
         \A j \in ServiceIDs \ {k} : post'[j] = post[j],
         \A n \in Names : RegisteredAs(n)' \subseteq RegisteredAs(n),
         \A n \in Names : Staying(n)' \subseteq Staying(n),
         BagToSet(patches) \subseteq BagToSet(patches'),
         \A p \in BagToSet(patches') :
           \/ p \in BagToSet(patches)
           \/ p.reg \in Registered /\ p.reg.id \notin Staying(NameOf[p.reg.url])',
         post'[k].pc = "store" =>
           \A i \in DOMAIN post'[k].kept : post'[k].kept[i] \in RegisteredAs(NameOf[post[k].url])'
  PROVE  KnownInv'
<1>1. Registered' \subseteq Registered
  BY DEF Registered
<1>2. UNCHANGED <<phase, serviceID, request, services>>
  BY DEF clientVars
<1>3. PostKnown(k)
  BY DEF KnownInv
<1>4. PostKnown(k)'
  BY <1>1, <1>2, <1>3 DEF PostKnown
<1>5. \A j \in ServiceIDs : PostKnown(j)'
  BY <1>4, PostKnownOthers
<1>6. ASSUME NEW s \in Instances, Informed(s)'
      PROVE  Informed(s) /\ \A n, j : Announced(s, n, j) => Announced(s, n, j)'
  <2>1. Informed(s)
    <3>1. CASE \E j \in ServiceIDs : post'[j].url = s /\ post'[j].pc \in {"announce", "ok"}
      <4>1. PICK j \in ServiceIDs : post'[j].url = s /\ post'[j].pc \in {"announce", "ok"}
        BY <3>1
      <4>2. j # k
        BY <4>1
      <4> QED BY <4>1, <4>2 DEF Informed
    <3>2. CASE phase'[s] = "serving" /\ IsServiceRegistered(serviceID[s])'
      BY <1>1, <1>2, <3>2 DEF Informed, IsServiceRegistered
    <3> QED BY <1>2, <1>6, <3>1, <3>2 DEF Informed
  <2>2. Announcing \subseteq Announcing'
    BY DEF Announcing
  <2> QED BY <1>2, <2>1, <2>2 DEF Announced
<1> QED BY <1>2, <1>5, <1>6, NothingForgotten

\* Whoever is about to be deleted does not stay: the list has its ServiceID once.
LEMMA DeletedLeaves ==
  ASSUME KnownInv, NEW n \in Names, NEW i \in DOMAIN registrationsMap[n],
         Unique(registrationsMap[n]), UNCHANGED registrationsMap,
         Leaving(n, i)', \A j \in ServiceIDs : post'[j].pc # "store"
  PROVE  /\ registrationsMap[n][i] \in Registered
         /\ NameOf[registrationsMap[n][i].url] = n
         /\ registrationsMap[n][i].id \notin Staying(n)'
         /\ \A m \in Names : Staying(m)' \subseteq IDsIn(registrationsMap[m])
<1> DEFINE r == registrationsMap[n][i]
<1>1. r \in RegisteredAs(n) /\ r \in Registered
  BY DEF RegisteredAs, Registered
<1>2. NameOf[r.url] = n
  BY <1>1 DEF KnownInv, Identified
<1>3. ASSUME r.id \in Staying(n)' PROVE FALSE
  <2>1. PICK x \in DOMAIN registrationsMap'[n] : x # i /\ registrationsMap'[n][x].id = r.id
    BY <1>3, LeavingNext
  <2>2. x \in DOMAIN registrationsMap[n] /\ registrationsMap[n][x].id = r.id
    BY <2>1
  <2>3. registrationsMap[n][x] \in Registered
    BY <2>2 DEF RegisteredAs, Registered
  <2>4. registrationsMap[n][x] = r
    BY <1>1, <2>2, <2>3 DEF KnownInv, Identified
  <2> QED BY <2>1, <2>2, <2>4 DEF Unique
<1>4. \A m \in Names : Staying(m)' \subseteq IDsIn(registrationsMap'[m])
  BY LeavingNext
<1> QED BY <1>1, <1>2, <1>3, <1>4

\* The duplicate check goes on, finds the old registration, or meets the end of the list
\* that it has shortened.
LEMMA CheckDuplicateKnown ==
  ASSUME TypeOK, TypeOK', SerialInv, SerialInv', KnownInv, NEW k \in ServiceIDs,
         CheckDuplicate(k), UNCHANGED clientVars
  PROVE  KnownInv'
<1> DEFINE name == NameOf[post[k].url]
<1>1. /\ post \in [ServiceIDs -> PostGoroutine] /\ post[k] \in PostGoroutine
      /\ registrationsMap \in Lists /\ name \in Names /\ post[k].url \in Instances
      /\ post[k].pc = "check"
  BY NamesNonempty DEF TypeOK, RegistryTypeOK, PostGoroutine, CheckDuplicate
<1>2. PostKnown(k) /\ PostKnown(k)!1 /\ PatchBag
  BY DEF KnownInv, PostKnown
<1>3. \A n \in Names : Staying(n) = IDsIn(registrationsMap[n])
  BY <1>1, PostStaying DEF TypeOK
<1>4. UNCHANGED registrationsMap
  BY DEF CheckDuplicate, Panic
<1>5. \A n \in Names : RegisteredAs(n)' = RegisteredAs(n)
  BY <1>4 DEF RegisteredAs
<1>6. CASE post' = [post EXCEPT ![k] = NextIteration(k)] /\ UNCHANGED patches
  <2>1. /\ NextIteration(k).pc \in {"check", "append"}
        /\ NextIteration(k).url = post[k].url /\ NextIteration(k).reply = post[k].reply
    BY <1>1 DEF NextIteration, PostGoroutine
  <2>2. /\ post'[k] = NextIteration(k)
        /\ \A j \in ServiceIDs \ {k} : post'[j] = post[j]
    BY <1>1, <1>6
  <2>3. \A n \in Names : Staying(n)' = IDsIn(registrationsMap'[n])
    BY <2>1, <2>2, PostStayingNext DEF TypeOK
  <2>4. PatchBag'
    BY <1>2, <1>6 DEF PatchBag
  <2> QED BY <1>1, <1>3, <1>4, <1>5, <1>6, <2>1, <2>2, <2>3, <2>4, DuplicateSteps
<1>7. CASE /\ post' = [post EXCEPT ![k].pc = "drop"]
           /\ post[k].i <= Len(ListOf(k))
           /\ notify("removed", ListOf(k)[post[k].i])
  <2> DEFINE i == post[k].i
             r == registrationsMap[name][i]
  <2>1. /\ post'[k].pc = "drop" /\ post'[k].url = post[k].url
        /\ post'[k].reply = post[k].reply /\ post'[k].i = i
        /\ \A j \in ServiceIDs \ {k} : post'[j] = post[j]
    BY <1>1, <1>7 DEF PostGoroutine
  <2>2. i \in DOMAIN registrationsMap[name] /\ r \in Registration
    BY <1>1, <1>7 DEF ListOf, PostGoroutine, Lists
  <2>3. \A j \in ServiceIDs : post'[j].pc # "store"
    BY <1>1, <2>1 DEF SerialInv, OneOperation
  <2>4. PICK m \in Names, x \in Nat : m = name /\ x = i
    BY <1>1 DEF PostGoroutine
  <2>5. Leaving(m, x)'
    BY <2>1, <2>4 DEF Leaving
  <2>6. Unique(registrationsMap[m])
    BY <1>1, <2>4, OtherLists DEF TypeOK
  <2>7. /\ registrationsMap[m][x] \in Registered
        /\ NameOf[registrationsMap[m][x].url] = m
        /\ registrationsMap[m][x].id \notin Staying(m)'
        /\ \A n \in Names : Staying(n)' \subseteq IDsIn(registrationsMap[n])
    BY <1>4, <2>2, <2>3, <2>4, <2>5, <2>6, DeletedLeaves
  <2>8. /\ PatchBag'
        /\ BagToSet(patches) \subseteq BagToSet(patches')
        /\ \A p \in BagToSet(patches') : p \in BagToSet(patches) \/ p.reg = r
    BY <1>2, <1>7, <2>2, notifyAdds DEF TypeOK, ListOf
  <2> QED BY <1>1, <1>3, <1>5, <2>1, <2>4, <2>7, <2>8, DuplicateSteps
<1>8. CASE Panic(k)
  <2>1. /\ post'[k].pc = "broken" /\ post'[k].url = post[k].url
        /\ post'[k].reply = post[k].reply
        /\ \A j \in ServiceIDs \ {k} : post'[j] = post[j]
        /\ UNCHANGED patches
    BY <1>1, <1>8 DEF Panic, PostGoroutine
  <2>2. \A n \in Names : Staying(n)' = IDsIn(registrationsMap'[n])
    BY <2>1, PostStayingNext DEF TypeOK
  <2>3. PatchBag'
    BY <1>2, <2>1 DEF PatchBag
  <2> QED BY <1>1, <1>3, <1>4, <1>5, <2>1, <2>2, <2>3, DuplicateSteps
<1> QED BY <1>6, <1>7, <1>8 DEF CheckDuplicate

\* The list is shifted: who stays is what will be stored.
LEMMA DropDuplicateKnown ==
  ASSUME TypeOK, TypeOK', SerialInv, SerialInv', KnownInv, NEW k \in ServiceIDs,
         DropDuplicate(k), UNCHANGED clientVars
  PROVE  KnownInv'
<1>1. PICK name, i, list, kept :
        /\ name = NameOf[post[k].url] /\ i = post[k].i
        /\ list = registrationsMap[name] /\ kept = DeleteAt(list, i)
  OBVIOUS
<1>2. /\ post \in [ServiceIDs -> PostGoroutine] /\ post[k] \in PostGoroutine
      /\ registrationsMap \in Lists /\ name \in Names /\ post[k].url \in Instances
      /\ list \in Seq(Registration) /\ post[k].pc = "drop"
  BY <1>1, NamesNonempty DEF TypeOK, RegistryTypeOK, PostGoroutine, DropDuplicate, Lists
<1>3. i \in DOMAIN list /\ i \in 1..Len(list) /\ Len(list) \in Nat
  <2>1. PostProgress(k)
    BY DEF SerialInv
  <2>2. i \in DOMAIN list
    BY <1>1, <1>2, <2>1 DEF PostProgress, ListOf
  <2> QED BY <1>2, <2>2
<1>4. /\ registrationsMap' = [registrationsMap EXCEPT ![name] = Append(kept, list[Len(list)])]
      /\ post' = [post EXCEPT ![k].pc = "store", ![k].kept = kept]
      /\ UNCHANGED patches
  <2>1. ~Panic(k)
    BY <1>1, <1>3 DEF Panic, ListOf
  <2> QED BY <1>1, <2>1 DEF DropDuplicate, ListOf
<1>5. /\ post'[k].pc = "store" /\ post'[k].url = post[k].url /\ post'[k].kept = kept
      /\ post'[k].reply = post[k].reply
      /\ \A j \in ServiceIDs \ {k} : post'[j] = post[j]
  BY <1>2, <1>4 DEF PostGoroutine
<1>6. /\ kept \in Seq(Registration)
      /\ \A j \in DOMAIN kept : \E m \in DOMAIN list : m # i /\ kept[j] = list[m]
  BY <1>1, <1>2, <1>3, DeleteAtElements, DeleteAtOthers
<1>7. /\ registrationsMap'[name] = Append(kept, list[Len(list)])
      /\ \A n \in Names : n # name => registrationsMap'[n] = registrationsMap[n]
  BY <1>2, <1>4 DEF Lists
<1>8. Len(list) \in DOMAIN list
  BY <1>2, <1>3
<1>9. /\ \A j \in DOMAIN Append(kept, list[Len(list)]) :
           \E m \in DOMAIN list : Append(kept, list[Len(list)])[j] = list[m]
      /\ \A j \in DOMAIN kept :
           j \in DOMAIN Append(kept, list[Len(list)]) /\ Append(kept, list[Len(list)])[j] = kept[j]
  <2> DEFINE r == list[Len(list)]
  <2>1. /\ DOMAIN Append(kept, r) = 1..(Len(kept) + 1) /\ DOMAIN kept = 1..Len(kept)
        /\ Append(kept, r)[Len(kept) + 1] = r
        /\ \A j \in 1..Len(kept) : Append(kept, r)[j] = kept[j]
        /\ Len(kept) \in Nat
    BY <1>6
  <2>2. ASSUME NEW j \in 1..(Len(kept) + 1)
        PROVE  \E m \in DOMAIN list : Append(kept, r)[j] = list[m]
    <3>1. CASE j \in 1..Len(kept)
      BY <1>6, <2>1, <3>1
    <3>2. CASE j = Len(kept) + 1
      BY <1>8, <2>1, <3>2
    <3> QED BY <2>1, <3>1, <3>2
  <2>3. \A j \in 1..Len(kept) : j \in 1..(Len(kept) + 1)
    BY <2>1
  <2> QED BY <2>1, <2>2, <2>3
<1>10. ASSUME NEW n \in Names PROVE RegisteredAs(n)' \subseteq RegisteredAs(n)
  <2>1. CASE n = name
    <3> SUFFICES ASSUME NEW q \in RegisteredAs(n)' PROVE q \in RegisteredAs(n)
      OBVIOUS
    <3>1. PICK j \in DOMAIN registrationsMap'[n] : q = registrationsMap'[n][j]
      BY DEF RegisteredAs
    <3>2. PICK m \in DOMAIN list : q = list[m]
      BY <1>7, <1>9, <2>1, <3>1
    <3> QED BY <1>1, <2>1, <3>2 DEF RegisteredAs
  <2>2. CASE n # name
    BY <1>7, <2>2 DEF RegisteredAs
  <2> QED BY <2>1, <2>2
<1>11. ASSUME NEW j \in DOMAIN kept PROVE kept[j] \in RegisteredAs(name)'
  BY <1>7, <1>9 DEF RegisteredAs
<1>12. ASSUME NEW n \in Names PROVE Staying(n)' \subseteq Staying(n)
  <2>1. CASE n = name
    <3>1. Staying(n)' = IDsIn(kept)
      BY <1>1, <1>5, <2>1, PostStayingNext DEF TypeOK
    <3>2. \A m \in DOMAIN list : m # i => list[m].id \in Staying(n)
      BY <1>1, <1>2, <2>1, PostStaying DEF TypeOK
    <3> QED BY <1>6, <3>1, <3>2 DEF IDsIn
  <2>2. CASE n # name
    <3>1. Staying(n)' = IDsIn(registrationsMap'[n])
      BY <1>1, <1>5, <2>2, PostStayingNext DEF TypeOK
    <3>2. Staying(n) = IDsIn(registrationsMap[n])
      BY <1>1, <1>2, <2>2, PostStaying DEF TypeOK
    <3> QED BY <1>7, <2>2, <3>1, <3>2
  <2> QED BY <2>1, <2>2
<1>13. PatchBag'
  BY <1>4 DEF KnownInv, PatchBag
<1>14. \A j \in DOMAIN post'[k].kept : post'[k].kept[j] \in RegisteredAs(NameOf[post[k].url])'
  BY <1>1, <1>5, <1>11
<1> QED BY <1>2, <1>4, <1>5, <1>10, <1>12, <1>13, <1>14, DuplicateSteps

\* The shortened list is stored.
LEMMA StoreShortenedKnown ==
  ASSUME TypeOK, TypeOK', SerialInv, SerialInv', KnownInv, NEW k \in ServiceIDs,
         StoreShortened(k), UNCHANGED clientVars
  PROVE  KnownInv'
<1>1. PICK name, kept : name = NameOf[post[k].url] /\ kept = post[k].kept
  OBVIOUS
<1>2. /\ post \in [ServiceIDs -> PostGoroutine] /\ post[k] \in PostGoroutine
      /\ registrationsMap \in Lists /\ name \in Names /\ post[k].url \in Instances
      /\ post[k].pc = "store"
  BY <1>1, NamesNonempty DEF TypeOK, RegistryTypeOK, PostGoroutine, StoreShortened
<1>3. /\ registrationsMap'[name] = kept
      /\ \A n \in Names : n # name => registrationsMap'[n] = registrationsMap[n]
      /\ UNCHANGED patches
  BY <1>1, <1>2 DEF StoreShortened, Lists
<1>4. /\ NextIteration(k).pc \in {"check", "append"}
      /\ NextIteration(k).url = post[k].url /\ NextIteration(k).reply = post[k].reply
  BY <1>2 DEF NextIteration, PostGoroutine
<1>5. /\ post'[k] = NextIteration(k)
      /\ \A j \in ServiceIDs \ {k} : post'[j] = post[j]
  BY <1>2 DEF StoreShortened
<1>6. \A j \in DOMAIN kept : kept[j] \in RegisteredAs(name)
  BY <1>1, <1>2 DEF KnownInv, PostKnown
<1>7. ASSUME NEW n \in Names PROVE RegisteredAs(n)' \subseteq RegisteredAs(n)
  <2>1. CASE n = name
    BY <1>3, <1>6, <2>1 DEF RegisteredAs
  <2>2. CASE n # name
    BY <1>3, <2>2 DEF RegisteredAs
  <2> QED BY <2>1, <2>2
<1>8. ASSUME NEW n \in Names PROVE Staying(n)' = Staying(n)
  <2>1. Staying(n)' = IDsIn(registrationsMap'[n])
    BY <1>4, <1>5, PostStayingNext DEF TypeOK
  <2>2. CASE n = name
    <3>1. Staying(n) = IDsIn(kept)
      BY <1>1, <1>2, <2>2, PostStaying DEF TypeOK
    <3> QED BY <1>3, <2>1, <2>2, <3>1
  <2>3. CASE n # name
    <3>1. Staying(n) = IDsIn(registrationsMap[n])
      BY <1>1, <1>2, <2>3, PostStaying DEF TypeOK
    <3> QED BY <1>3, <2>1, <2>3, <3>1
  <2> QED BY <2>2, <2>3
<1>9. PatchBag'
  BY <1>3 DEF KnownInv, PatchBag
<1> QED BY <1>2, <1>3, <1>4, <1>5, <1>7, <1>8, <1>9, DuplicateSteps

\* The registration becomes visible, and is going to be announced.
LEMMA AppendRegistrationKnown ==
  ASSUME TypeOK, TypeOK', SerialInv, SerialInv', KnownInv, NEW k \in ServiceIDs,
         AppendRegistration(k), UNCHANGED clientVars
  PROVE  KnownInv'
<1>1. PICK name, r : name = NameOf[post[k].url] /\ r = [url |-> post[k].url, id |-> k]
  OBVIOUS
<1>2. /\ post \in [ServiceIDs -> PostGoroutine] /\ post[k] \in PostGoroutine
      /\ registrationsMap \in Lists /\ name \in Names /\ post[k].url \in Instances
      /\ r \in Registration /\ post[k].pc = "append"
  BY <1>1, NamesNonempty
     DEF TypeOK, RegistryTypeOK, PostGoroutine, AppendRegistration, Registration
<1>3. UNCHANGED <<phase, serviceID, request, services, patches>>
  BY DEF clientVars, AppendRegistration
<1>4. /\ post'[k].pc = "require" /\ post'[k].url = post[k].url
      /\ post'[k].reply = post[k].reply
      /\ \A j \in ServiceIDs \ {k} : post'[j] = post[j]
  BY <1>2 DEF AppendRegistration, PostGoroutine
<1>5. /\ registrationsMap'[name] = Append(registrationsMap[name], r)
      /\ \A n \in Names : n # name => registrationsMap'[n] = registrationsMap[n]
  BY <1>1, <1>2 DEF AppendRegistration, Lists
<1>6. /\ RegisteredAs(name)' = RegisteredAs(name) \cup {r}
      /\ \A n \in Names : n # name => RegisteredAs(n)' = RegisteredAs(n)
  <2>1. PICK list \in Seq(Registration) : list = registrationsMap[name]
    BY <1>2 DEF Lists
  <2>2. /\ DOMAIN Append(list, r) = 1..(Len(list) + 1) /\ DOMAIN list = 1..Len(list)
        /\ Append(list, r)[Len(list) + 1] = r
        /\ \A j \in 1..Len(list) : Append(list, r)[j] = list[j]
        /\ Len(list) \in Nat
    OBVIOUS
  <2>3. /\ \A j \in 1..(Len(list) + 1) : j \in 1..Len(list) \/ j = Len(list) + 1
        /\ \A j \in 1..Len(list) : j \in 1..(Len(list) + 1)
        /\ Len(list) + 1 \in 1..(Len(list) + 1)
    BY <2>2
  <2>4. RegisteredAs(name)' = {Append(list, r)[j] : j \in 1..(Len(list) + 1)}
    BY <1>5, <2>1, <2>2 DEF RegisteredAs
  <2>5. RegisteredAs(name) = {list[j] : j \in 1..Len(list)}
    BY <2>1, <2>2 DEF RegisteredAs
  <2>6. {Append(list, r)[j] : j \in 1..(Len(list) + 1)} = {list[j] : j \in 1..Len(list)} \cup {r}
    BY <2>2, <2>3
  <2>7. \A n \in Names : n # name => RegisteredAs(n)' = RegisteredAs(n)
    BY <1>5 DEF RegisteredAs
  <2> QED BY <2>4, <2>5, <2>6, <2>7
<1>7. Registered' = Registered \cup {r}
  BY <1>2, <1>6 DEF Registered
<1>8. ASSUME NEW n \in Names
      PROVE  Staying(n)' \subseteq Staying(n) \cup {k}
  <2>1. Staying(n)' = IDsIn(registrationsMap'[n])
    BY <1>4, PostStayingNext DEF TypeOK
  <2>2. Staying(n) = IDsIn(registrationsMap[n])
    BY <1>2, PostStaying DEF TypeOK
  <2>3. CASE n = name
    <3>1. IDsIn(Append(registrationsMap[n], r)) \subseteq IDsIn(registrationsMap[n]) \cup {r.id}
      BY <1>2, <2>3, AppendIDs DEF Lists
    <3>2. r.id = k /\ registrationsMap'[n] = Append(registrationsMap[n], r)
      BY <1>1, <1>5, <2>3
    <3> QED BY <2>1, <2>2, <3>1, <3>2
  <2>4. CASE n # name
    BY <1>5, <2>1, <2>2, <2>4
  <2> QED BY <2>3, <2>4
<1>9. /\ \A q \in Registered : q.id # k
      /\ \A p \in BagToSet(patches) : p.reg.id # k
      /\ \A s \in Instances : serviceID[s] # k
  BY <1>2 DEF KnownInv, PostKnown
<1>10. PatchBag'
  BY <1>3 DEF KnownInv, PatchBag
<1>11. Identified'
  <2>1. \A n \in Names : \A q \in RegisteredAs(n)' : NameOf[q.url] = n
    BY <1>1, <1>6 DEF KnownInv, Identified
  <2>2. \A q, t \in Registered' : q.id = t.id => q = t
    BY <1>1, <1>7, <1>9 DEF KnownInv, Identified
  <2>3. \A s \in Instances : \A q \in Registered' : q.id = serviceID'[s] => q.url = s
    BY <1>1, <1>3, <1>7, <1>9 DEF KnownInv, Identified
  <2> QED BY <2>1, <2>2, <2>3 DEF Identified
<1>12. RemovedGone'
  <2> SUFFICES ASSUME NEW p \in BagToSet(patches), p.kind = "removed"
               PROVE  p.reg.id \notin Staying(NameOf[p.reg.url])'
    BY <1>3 DEF RemovedGone
  <2>1. NameOf[p.reg.url] \in Names
    BY DEF TypeOK, RegistryTypeOK, Patch, Registration, Names
  <2> QED BY <1>8, <1>9, <2>1 DEF KnownInv, RemovedGone
<1>13. Known'
  <2> SUFFICES ASSUME NEW s \in Instances, Informed(s)',
                      NEW n \in RequiredServices(NameOf[s]) \cap Names, NEW j \in Staying(n)'
               PROVE  Announced(s, n, j)'
    BY DEF Known
  <2>1. Informed(s)
    <3>1. CASE \E m \in ServiceIDs : post'[m].url = s /\ post'[m].pc \in {"announce", "ok"}
      BY <1>4, <3>1 DEF Informed
    <3>2. CASE phase'[s] = "serving" /\ IsServiceRegistered(serviceID[s])'
      BY <1>1, <1>3, <1>7, <1>9, <3>2 DEF Informed, IsServiceRegistered
    <3> QED BY <1>3, <3>1, <3>2 DEF Informed
  <2>2. Announcing \subseteq Announcing' /\ k \in Announcing'
    BY <1>2, <1>4 DEF Announcing
  <2>3. CASE j \in Staying(n)
    <3>1. Announced(s, n, j)
      BY <2>1, <2>3 DEF KnownInv, Known
    <3> QED BY <1>3, <2>2, <3>1 DEF Announced
  <2>4. CASE j = k
    BY <2>2, <2>4 DEF Announced
  <2> QED BY <1>8, <2>3, <2>4
<1>14. PostKnown(k)'
  <2>1. PostKnown(k)
    BY DEF KnownInv
  <2> QED BY <1>1, <1>2, <1>3, <1>4, <1>6, <2>1 DEF PostKnown
<1>15. \A j \in ServiceIDs : PostKnown(j)'
  BY <1>2, <1>4, <1>14, PostKnownOthers
<1> QED BY <1>10, <1>11, <1>12, <1>13, <1>15 DEF KnownInv

\* A POST that is past the append has its registration, and only that has its
\* ServiceID.
LEMMA PostRegistered ==
  ASSUME KnownInv, NEW k \in ServiceIDs, post[k].url \in Instances,
         post[k].pc \in {"require", "sending", "announce", "ok"}
  PROVE  /\ [url |-> post[k].url, id |-> k] \in Registered
         /\ \A r \in Registered : r.id = k => r.url = post[k].url
         /\ \A n \in Names : \A r \in RegisteredAs(n) : r.id = k => n = NameOf[post[k].url]
<1> DEFINE q == [url |-> post[k].url, id |-> k]
<1>1. q \in RegisteredAs(NameOf[post[k].url])
  BY DEF KnownInv, PostKnown
<1>2. q \in Registered /\ q.id = k /\ q.url = post[k].url
  BY <1>1, NamesNonempty DEF Registered
<1> HIDE DEF q
<1>3. \A r \in Registered : r.id = k => r = q
  BY <1>2 DEF KnownInv, Identified
<1>4. ASSUME NEW n \in Names, NEW r \in RegisteredAs(n), r.id = k PROVE n = NameOf[post[k].url]
  <2>1. r \in Registered
    BY DEF Registered
  <2>2. r = q
    BY <1>3, <1>4, <2>1
  <2> QED BY <1>2, <2>2 DEF KnownInv, Identified
<1> QED BY <1>2, <1>3, <1>4 DEF q

\* A step of a POST that leaves the map alone.
LEMMA PostStayingSame ==
  ASSUME TypeOK, TypeOK', SerialInv, SerialInv', NEW k \in ServiceIDs, UNCHANGED registrationsMap,
         post[k].pc \notin {"none", "drop", "store"}, post'[k].pc \notin {"none", "drop", "store"}
  PROVE  /\ \A n \in Names : Staying(n) = IDsIn(registrationsMap[n]) /\ Staying(n)' = Staying(n)
         /\ \A n \in Names : RegisteredAs(n)' = RegisteredAs(n)
         /\ Registered' = Registered
<1>1. \A n \in Names : Staying(n) = IDsIn(registrationsMap[n])
  BY PostStaying DEF TypeOK
<1>2. \A n \in Names : Staying(n)' = IDsIn(registrationsMap'[n])
  BY PostStayingNext DEF TypeOK
<1> QED BY <1>1, <1>2 DEF Registered, RegisteredAs

\* sendRequiredServices has nothing to send, or will send everything.
LEMMA SendRequiredKnown ==
  ASSUME TypeOK, TypeOK', SerialInv, SerialInv', KnownInv, NEW k \in ServiceIDs,
         SendRequiredServices(k), UNCHANGED clientVars
  PROVE  KnownInv'
<1>1. PICK name, added :
        /\ name = NameOf[post[k].url]
        /\ added = [n \in Names |-> IF n \in RequiredServices(name)
                                    THEN registrationsMap[n] ELSE <<>>]
  OBVIOUS
<1>2. /\ post \in [ServiceIDs -> PostGoroutine] /\ post[k] \in PostGoroutine
      /\ name \in Names /\ post[k].url \in Instances /\ post[k].pc = "require"
  BY <1>1, NamesNonempty DEF TypeOK, RegistryTypeOK, PostGoroutine, SendRequiredServices
<1>3. UNCHANGED <<phase, serviceID, request, services, patches, registrationsMap>>
  BY DEF clientVars, SendRequiredServices
<1>4. post' = [post EXCEPT ![k].pc = IF added = NoLists THEN "announce" ELSE "sending",
                           ![k].added = added]
  BY <1>1 DEF SendRequiredServices
<1>5. /\ post'[k].pc = IF added = NoLists THEN "announce" ELSE "sending"
      /\ post'[k].added = added /\ post'[k].url = post[k].url /\ post'[k].reply = post[k].reply
      /\ \A j \in ServiceIDs \ {k} : post'[j] = post[j]
  BY <1>2, <1>4 DEF PostGoroutine
<1>6. /\ \A n \in Names : Staying(n) = IDsIn(registrationsMap[n]) /\ Staying(n)' = Staying(n)
      /\ \A n \in Names : RegisteredAs(n)' = RegisteredAs(n)
      /\ Registered' = Registered
  <2>1. post'[k].pc \notin {"none", "drop", "store"}
    BY <1>5
  <2> QED BY <1>2, <1>3, <2>1, PostStayingSame
<1>7. PostKnown(k)'
  <2>1. PostKnown(k)
    BY DEF KnownInv
  <2>2. \A n \in RequiredServices(name) \cap Names : post'[k].added[n] = registrationsMap'[n]
    BY <1>1, <1>3, <1>5
  <2> QED BY <1>1, <1>2, <1>3, <1>5, <1>6, <2>1, <2>2 DEF PostKnown
<1>8. \A j \in ServiceIDs : PostKnown(j)'
  BY <1>2, <1>5, <1>7, PostKnownOthers
<1>9. Known'
  <2> SUFFICES ASSUME NEW s \in Instances, Informed(s)',
                      NEW n \in RequiredServices(NameOf[s]) \cap Names, NEW j \in Staying(n)'
               PROVE  Announced(s, n, j)'
    BY DEF Known
  <2>1. CASE Informed(s)
    <3>1. Announced(s, n, j)
      BY <1>6, <2>1 DEF KnownInv, Known
    <3>2. Announcing \subseteq Announcing'
      BY <1>2, <1>5 DEF Announcing
    <3> QED BY <1>3, <3>1, <3>2 DEF Announced
  <2>2. CASE ~Informed(s)
    <3>1. PICK m \in ServiceIDs : post'[m].url = s /\ post'[m].pc \in {"announce", "ok"}
      BY <1>3, <1>6, <2>2 DEF Informed, IsServiceRegistered
    <3>2. m = k
      BY <1>5, <2>2, <3>1 DEF Informed
    <3>3. added = NoLists /\ s = post[k].url
      BY <1>5, <3>1, <3>2
    <3>4. registrationsMap[n] = <<>>
      <4>1. added[n] = registrationsMap[n]
        BY <1>1, <3>3
      <4>2. NoLists[n] = <<>>
        BY DEF NoLists
      <4> QED BY <3>3, <4>1, <4>2
    <3>5. Staying(n)' = {}
      BY <1>6, <3>4, EmptyIDs
    <3> QED BY <3>5
  <2> QED BY <2>1, <2>2
<1>10. Identified' /\ RemovedGone' /\ PatchBag'
  <2>1. Identified'
    BY <1>3, <1>6 DEF KnownInv, Identified
  <2>2. PatchBag'
    BY <1>3 DEF KnownInv, PatchBag
  <2>3. \A p \in BagToSet(patches) : NameOf[p.reg.url] \in Names
    BY DEF TypeOK, RegistryTypeOK, Patch, Registration, Names
  <2>4. RemovedGone'
    BY <1>3, <1>6, <2>3 DEF KnownInv, RemovedGone
  <2> QED BY <2>1, <2>2, <2>4
<1> QED BY <1>8, <1>9, <1>10 DEF KnownInv

\* The process gets all that it requires.
LEMMA DeliverRequiredKnown ==
  ASSUME Lossy = FALSE, TypeOK, TypeOK', SerialInv, SerialInv', KnownInv, NEW k \in ServiceIDs,
         DeliverRequired(k)
  PROVE  KnownInv'
<1>1. PICK u, added : u = post[k].url /\ added = post[k].added
  OBVIOUS
<1>2. /\ post \in [ServiceIDs -> PostGoroutine] /\ post[k] \in PostGoroutine
      /\ u \in Instances /\ post[k].pc = "sending" /\ added \in Lists
      /\ services \in [Instances -> Lists]
  <2>1. post \in [ServiceIDs -> PostGoroutine] /\ services \in [Instances -> Lists]
    BY DEF TypeOK, RegistryTypeOK, ClientTypeOK
  <2>2. post[k].pc = "sending"
    BY DEF DeliverRequired, SentRequiredServices
  <2> QED BY <1>1, <2>1, <2>2 DEF PostGoroutine
<1>3. PostKnown(k) /\ phase[u] = "posted"
  BY <1>1, <1>2 DEF KnownInv, PostKnown
<1>4. SentRequiredServices(k, "ok") /\ ReceivePatch(u, AfterAdding(u, added))
  BY <1>1, <1>3 DEF DeliverRequired, Up
<1>5. UNCHANGED <<phase, serviceID, request, patches, registrationsMap>>
  BY <1>4 DEF SentRequiredServices, ReceivePatch
<1>6. /\ post'[k].pc = "announce" /\ post'[k].url = post[k].url /\ post'[k].reply = "ok"
      /\ \A j \in ServiceIDs \ {k} : post'[j] = post[j]
  BY <1>2, <1>4 DEF SentRequiredServices, PostGoroutine
<1>7. /\ services'[u] = AfterAdding(u, added)
      /\ \A s \in Instances : s # u => services'[s] = services[s]
  BY <1>2, <1>4 DEF ReceivePatch
<1>8. /\ \A n \in Names : Staying(n) = IDsIn(registrationsMap[n]) /\ Staying(n)' = Staying(n)
      /\ \A n \in Names : RegisteredAs(n)' = RegisteredAs(n)
      /\ Registered' = Registered
  BY <1>2, <1>5, <1>6, PostStayingSame
<1>9. PostKnown(k)'
  <2>1. /\ \A s \in Instances : request'[s] = k <=> s = post'[k].url
        /\ phase'[post'[k].url] = "posted"
    BY <1>1, <1>2, <1>3, <1>5, <1>6 DEF PostKnown
  <2>2. [url |-> post'[k].url, id |-> k] \in RegisteredAs(NameOf[post[k].url])'
    <3>1. [url |-> u, id |-> k] \in RegisteredAs(NameOf[u])
      BY <1>1, <1>2, <1>3 DEF PostKnown
    <3> QED BY <1>1, <1>5, <1>6, <3>1 DEF RegisteredAs
  <2> QED BY <1>6, <2>1, <2>2 DEF PostKnown
<1>10. \A j \in ServiceIDs : PostKnown(j)'
  BY <1>2, <1>6, <1>9, PostKnownOthers
<1>11. Known'
  <2> SUFFICES ASSUME NEW s \in Instances, Informed(s)',
                      NEW n \in RequiredServices(NameOf[s]) \cap Names, NEW j \in Staying(n)'
               PROVE  Announced(s, n, j)'
    BY DEF Known
  <2>1. CASE s = u
    <3>1. added[n] = registrationsMap[n] /\ added[n] \in Seq(Registration)
      BY <1>1, <1>2, <1>3, <2>1 DEF PostKnown, Lists
    <3>2. services'[s][n] = services[s][n] \o added[n] /\ services[s][n] \in Seq(Registration)
      BY <1>2, <1>7, <2>1 DEF AfterAdding, Lists
    <3>3. j \in IDsIn(added[n])
      BY <1>8, <3>1
    <3> QED BY <3>1, <3>2, <3>3, ConcatIDs DEF Announced
  <2>2. CASE s # u
    <3>1. Informed(s)
      <4>1. CASE phase'[s] = "serving" /\ IsServiceRegistered(serviceID[s])'
        BY <1>5, <1>8, <4>1 DEF Informed, IsServiceRegistered
      <4>2. CASE \E m \in ServiceIDs : post'[m].url = s /\ post'[m].pc \in {"announce", "ok"}
        BY <1>1, <1>6, <2>2, <4>2 DEF Informed
      <4> QED BY <1>5, <4>1, <4>2 DEF Informed
    <3>2. Announced(s, n, j)
      BY <1>8, <3>1 DEF KnownInv, Known
    <3>3. Announcing \subseteq Announcing'
      BY <1>6 DEF Announcing
    <3> QED BY <1>5, <1>7, <2>2, <3>2, <3>3 DEF Announced
  <2> QED BY <2>1, <2>2
<1>12. Identified' /\ RemovedGone' /\ PatchBag'
  <2>1. Identified'
    BY <1>5, <1>8 DEF KnownInv, Identified
  <2>2. PatchBag'
    BY <1>5 DEF KnownInv, PatchBag
  <2>3. \A p \in BagToSet(patches) : NameOf[p.reg.url] \in Names
    BY DEF TypeOK, RegistryTypeOK, Patch, Registration, Names
  <2>4. RemovedGone'
    BY <1>5, <1>8, <2>3 DEF KnownInv, RemovedGone
  <2> QED BY <2>1, <2>2, <2>4
<1> QED BY <1>10, <1>11, <1>12 DEF KnownInv

\* notify tells everyone who has been informed about the new registration.
LEMMA AnnounceKnown ==
  ASSUME TypeOK, TypeOK', SerialInv, SerialInv', KnownInv, NEW k \in ServiceIDs,
         AnnounceRegistration(k), UNCHANGED clientVars
  PROVE  KnownInv'
<1>1. PICK u, reg : u = post[k].url /\ reg = [url |-> u, id |-> k]
  OBVIOUS
<1>2. /\ post \in [ServiceIDs -> PostGoroutine] /\ post[k] \in PostGoroutine
      /\ u \in Instances /\ post[k].pc = "announce" /\ reg \in Registration
  BY <1>1 DEF TypeOK, RegistryTypeOK, PostGoroutine, AnnounceRegistration, Registration
<1>3. PostKnown(k) /\ post[k].reply = "ok"
  BY <1>2 DEF KnownInv, PostKnown
<1>4. UNCHANGED <<phase, serviceID, request, services, registrationsMap>>
  BY DEF AnnounceRegistration, clientVars
<1>5. /\ post'[k].pc = "ok" /\ post'[k].url = post[k].url /\ post'[k].reply = "ok"
      /\ \A j \in ServiceIDs \ {k} : post'[j] = post[j]
  BY <1>2, <1>3 DEF AnnounceRegistration, PostGoroutine
<1>6. /\ \A n \in Names : Staying(n)' = Staying(n)
      /\ \A n \in Names : RegisteredAs(n)' = RegisteredAs(n)
      /\ Registered' = Registered
  BY <1>2, <1>4, <1>5, PostStayingSame
<1>7. /\ PatchBag'
      /\ BagToSet(patches) \subseteq BagToSet(patches')
      /\ \A p \in BagToSet(patches') : p \in BagToSet(patches) \/ p.kind = "added"
      /\ \A r \in Registered : Requires(r, NameOf[u]) =>
           [to |-> r.url, kind |-> "added", reg |-> reg] \in BagToSet(patches')
  <2>1. notify("added", reg) /\ reg.url = u
    BY <1>1 DEF AnnounceRegistration
  <2> QED BY <1>2, <2>1, notifyAdds DEF TypeOK, KnownInv
<1>8. PostKnown(k)'
  <2>1. /\ \A s \in Instances : request'[s] = k <=> s = post'[k].url
        /\ phase'[post'[k].url] = "posted"
    BY <1>1, <1>2, <1>3, <1>4, <1>5 DEF PostKnown
  <2>2. [url |-> post'[k].url, id |-> k] \in RegisteredAs(NameOf[post[k].url])'
    <3>1. [url |-> u, id |-> k] \in RegisteredAs(NameOf[u])
      BY <1>1, <1>2, <1>3 DEF PostKnown
    <3> QED BY <1>1, <1>4, <1>5, <3>1 DEF RegisteredAs
  <2> QED BY <1>5, <2>1, <2>2 DEF PostKnown
<1>9. \A j \in ServiceIDs : PostKnown(j)'
  BY <1>2, <1>5, <1>8, PostKnownOthers
<1>10. ASSUME NEW s \in Instances, Informed(s)' PROVE Informed(s)
  <2>1. CASE phase'[s] = "serving" /\ IsServiceRegistered(serviceID[s])'
    BY <1>4, <1>6, <2>1 DEF Informed, IsServiceRegistered
  <2>2. CASE \E m \in ServiceIDs : post'[m].url = s /\ post'[m].pc \in {"announce", "ok"}
    BY <1>2, <1>5, <2>2 DEF Informed
  <2> QED BY <1>4, <1>10, <2>1, <2>2 DEF Informed
<1>11. ASSUME NEW s \in Instances, Informed(s) PROVE \E r \in Registered : r.url = s
  <2>1. CASE phase[s] = "serving" /\ IsServiceRegistered(serviceID[s])
    BY <2>1 DEF IsServiceRegistered, KnownInv, Identified
  <2>2. CASE \E m \in ServiceIDs : post[m].url = s /\ post[m].pc \in {"announce", "ok"}
    <3>1. PICK m \in ServiceIDs : post[m].url = s /\ post[m].pc \in {"announce", "ok"}
      BY <2>2
    <3>2. [url |-> s, id |-> m] \in Registered
      BY <3>1, PostRegistered
    <3> QED BY <3>2
  <2> QED BY <1>11, <2>1, <2>2 DEF Informed
<1>12. ASSUME NEW s \in Instances, Informed(s),
              NEW n \in RequiredServices(NameOf[s]) \cap Names, NEW j \in Staying(n),
              Announced(s, n, j)
       PROVE  Announced(s, n, j)'
  <2>1. CASE j = k
    <3>1. PICK r \in RegisteredAs(n) : r.id = k
      BY <2>1, StayingRegistered
    <3>2. n = NameOf[u]
      BY <1>1, <1>2, <3>1, PostRegistered
    <3>3. PICK q \in Registered : q.url = s
      BY <1>11, <1>12
    <3>4. Requires(q, NameOf[u])
      BY <3>2, <3>3 DEF Requires
    <3>5. PICK p \in BagToSet(patches') : p = [to |-> s, kind |-> "added", reg |-> reg]
      BY <1>7, <3>3, <3>4
    <3>6. p.to = s /\ p.kind = "added" /\ p.reg.id = j /\ NameOf[p.reg.url] = n
      BY <1>1, <2>1, <3>2, <3>5
    <3> QED BY <3>6 DEF Announced
  <2>2. CASE j # k
    <3>1. j \in Announcing => j \in Announcing'
      BY <1>5, <2>2 DEF Announcing
    <3> QED BY <1>4, <1>7, <1>12, <3>1 DEF Announced
  <2> QED BY <2>1, <2>2
<1> QED BY <1>4, <1>6, <1>7, <1>9, <1>10, <1>12, NothingForgotten

\* The process learns its ServiceID, or that the registration failed.
LEMMA PostDoneKnown ==
  ASSUME Lossy = FALSE, TypeOK, TypeOK', SerialInv, KnownInv,
         NEW s \in Instances, NEW k \in ServiceIDs, PostDone(s, k)
  PROVE  KnownInv'
<1>1. post[k].pc \in {"ok", "failed", "broken"}
      /\ post \in [ServiceIDs -> PostGoroutine] /\ NoPost.pc = "none"
  BY DEF PostDone, EndPost, TypeOK, RegistryTypeOK, NoPost
<1>2. /\ s = post[k].url /\ phase[s] = "posted" /\ post[k].pc \in {"ok", "broken"}
  BY <1>1 DEF PostDone, KnownInv, PostKnown
<1>3. UNCHANGED <<registrationsMap, sweep, del, patches, services>>
  BY DEF PostDone, EndPost, AcceptServiceID, LoseServiceID, MeetErrorStatus, LoseConnections
<1>4. /\ \A j \in ServiceIDs : post'[j].pc = "none"
      /\ \A j \in ServiceIDs : j # k => post[j].pc = "none"
      /\ sweep.pc = "idle" /\ del.pc = "idle"
  <2>1. post' = [post EXCEPT ![k] = NoPost]
    BY DEF PostDone, EndPost
  <2>2. /\ \A j \in ServiceIDs : j # k => post[j].pc = "none"
        /\ sweep.pc = "idle" /\ del.pc = "idle"
    BY <1>1 DEF SerialInv, OneOperation
  <2> QED BY <1>1, <2>1, <2>2
<1>5. /\ \A t \in Instances : t # s => phase'[t] = phase[t] /\ serviceID'[t] = serviceID[t]
      /\ \/ post[k].pc = "ok" /\ phase'[s] = "serving" /\ serviceID'[s] = k
         \/ phase'[s] # "serving" /\ serviceID'[s] = serviceID[s]
  <2>1. phase \in [Instances -> Phases] /\ serviceID \in [Instances -> ServiceIDs \cup {NoID}]
    BY DEF TypeOK, ClientTypeOK
  <2>2. CASE post[k].pc = "ok" /\ AcceptServiceID(s)
    BY <2>1, <2>2 DEF PostDone, AcceptServiceID
  <2>3. CASE LoseConnections({s})
    BY <1>2, <2>1, <2>3 DEF LoseConnections
  <2> QED BY <1>2, <2>2, <2>3 DEF PostDone
<1>6. /\ \A n \in Names : RegisteredAs(n)' = RegisteredAs(n)
      /\ Registered' = Registered
  BY <1>3 DEF RegisteredAs, Registered
<1>7. ASSUME NEW n \in Names PROVE Staying(n)' = Staying(n)
  <2>1. Staying(n)' = IDsIn(registrationsMap'[n])
    BY <1>3, <1>4, AllStayNext
  <2>2. \A j \in ServiceIDs : post[j].pc \notin {"drop", "store"}
    BY <1>2, <1>4
  <2>3. Staying(n) = IDsIn(registrationsMap[n])
    BY <1>4, <2>2, AllStay
  <2> QED BY <1>3, <2>1, <2>3
<1>8. \A j \in ServiceIDs : PostKnown(j)'
  BY <1>4 DEF PostKnown
<1>9. ASSUME NEW t \in Instances, Informed(t)'
      PROVE  Informed(t) /\ \A n, j : Announced(t, n, j) => Announced(t, n, j)'
  <2>1. phase'[t] = "serving" /\ IsServiceRegistered(serviceID[t])'
    BY <1>4, <1>9 DEF Informed
  <2>2. ASSUME t = s PROVE Informed(t)
    BY <1>2, <1>5, <2>1, <2>2 DEF Informed
  <2>3. ASSUME t # s PROVE Informed(t)
    BY <1>5, <1>6, <2>1, <2>3 DEF Informed, IsServiceRegistered
  <2>4. Announcing = {}
    BY <1>2, <1>4 DEF Announcing
  <2> QED BY <1>3, <2>2, <2>3, <2>4 DEF Announced
<1>10. ASSUME NEW t \in Instances
       PROVE  \/ serviceID'[t] \in {serviceID[t], NoID}
              \/ \A r \in Registered' : r.id = serviceID'[t] => r.url = t
  <2>1. CASE t = s /\ post[k].pc = "ok" /\ serviceID'[s] = k
    <3>1. \A r \in Registered : r.id = k => r.url = s
      BY <1>2, <2>1, PostRegistered
    <3> QED BY <1>6, <2>1, <3>1
  <2> QED BY <1>5, <2>1
<1>11. PatchBag'
  BY <1>3 DEF KnownInv, PatchBag
<1> QED BY <1>3, <1>6, <1>7, <1>8, <1>9, <1>10, <1>11, NothingForgotten

-----------------------------------------------------------------------------
(* The steps of a removal. *)

\* remove tells the subscribers, and the registration is about to go.
LEMMA RemovalBegins ==
  ASSUME TypeOK, KnownInv, \A j \in ServiceIDs : post[j].pc = "none",
         UNCHANGED <<registrationsMap, post, clientVars>>,
         del.pc # "remove", sweep.pc # "remove",
         NEW n \in Names, NEW i \in DOMAIN registrationsMap[n], Unique(registrationsMap[n]),
         notify("removed", registrationsMap[n][i]), Leaving(n, i)'
  PROVE  KnownInv'
<1>1. PICK r : r = registrationsMap[n][i]
  OBVIOUS
<1>2. r \in Registration /\ PatchBag
  BY <1>1 DEF TypeOK, RegistryTypeOK, Lists, KnownInv
<1>3. /\ r \in Registered /\ NameOf[r.url] = n /\ r.id \notin Staying(n)'
      /\ \A m \in Names : Staying(m)' \subseteq IDsIn(registrationsMap[m])
  BY <1>1, DeletedLeaves
<1>4. \A m \in Names : Staying(m) = IDsIn(registrationsMap[m])
  BY AllStay
<1>5. /\ PatchBag'
      /\ BagToSet(patches) \subseteq BagToSet(patches')
      /\ \A p \in BagToSet(patches') : p \in BagToSet(patches) \/ p.reg = r
  BY <1>1, <1>2, notifyAdds DEF TypeOK
<1>6. UNCHANGED <<phase, serviceID, request, services>>
  BY DEF clientVars
<1>7. /\ \A m \in Names : RegisteredAs(m)' = RegisteredAs(m)
      /\ Registered' = Registered
  BY DEF RegisteredAs, Registered
<1>8. \A j \in ServiceIDs : PostKnown(j)'
  BY DEF PostKnown
<1>9. ASSUME NEW t \in Instances, Informed(t)'
      PROVE  Informed(t) /\ \A m, j : Announced(t, m, j) => Announced(t, m, j)'
  <2>1. Informed(t)
    BY <1>6, <1>7, <1>9 DEF Informed, IsServiceRegistered
  <2>2. Announcing' = Announcing
    BY DEF Announcing
  <2> QED BY <1>5, <1>6, <2>1, <2>2 DEF Announced
<1> QED BY <1>3, <1>4, <1>5, <1>6, <1>7, <1>8, <1>9, NothingForgotten

\* The registration is deleted, or was gone already.
LEMMA RemovalEnds ==
  ASSUME TypeOK, TypeOK', KnownInv, \A j \in ServiceIDs : post[j].pc = "none",
         UNCHANGED <<post, patches, clientVars>>, del'.pc # "remove", sweep'.pc # "remove",
         NEW name \in Names, NEW i \in Nat \ {0},
         \A n, j : Leaving(n, j) => n = name /\ j = i,
         \/ RemoveAtIndex(name, i)
         \/ i > Len(registrationsMap[name]) /\ UNCHANGED registrationsMap
  PROVE  KnownInv'
<1>1. PICK list : list = registrationsMap[name]
  OBVIOUS
<1>2. list \in Seq(Registration) /\ registrationsMap \in Lists
  BY <1>1 DEF TypeOK, RegistryTypeOK, Lists
<1>3. /\ \A n \in Names : n # name => registrationsMap'[n] = registrationsMap[n]
      /\ \A j \in DOMAIN registrationsMap'[name] :
           \E m \in DOMAIN list : m # i /\ registrationsMap'[name][j] = list[m]
  <2>1. CASE RemoveAtIndex(name, i)
    <3>1. /\ i \in 1..Len(list)
          /\ registrationsMap' = [registrationsMap EXCEPT ![name] = DeleteAt(list, i)]
      BY <1>1, <1>2, <2>1 DEF RemoveAtIndex
    <3>2. /\ registrationsMap'[name] = DeleteAt(list, i)
          /\ \A n \in Names : n # name => registrationsMap'[n] = registrationsMap[n]
      BY <1>2, <3>1 DEF Lists
    <3> QED BY <1>2, <3>1, <3>2, DeleteAtOthers
  <2>2. CASE i > Len(list) /\ UNCHANGED registrationsMap
    <3>1. \A j \in DOMAIN list : j # i
      BY <1>2, <2>2
    <3> QED BY <1>1, <2>2, <3>1
  <2> QED BY <1>1, <2>1, <2>2
<1>4. ASSUME NEW n \in Names PROVE RegisteredAs(n)' \subseteq RegisteredAs(n)
  <2>1. CASE n = name
    BY <1>1, <1>3, <2>1 DEF RegisteredAs
  <2>2. CASE n # name
    BY <1>3, <2>2 DEF RegisteredAs
  <2> QED BY <2>1, <2>2
<1>5. ASSUME NEW n \in Names PROVE Staying(n)' \subseteq Staying(n)
  <2>1. Staying(n)' = IDsIn(registrationsMap'[n])
    BY AllStayNext
  <2>2. ASSUME NEW m \in DOMAIN registrationsMap[n], n # name \/ m # i
        PROVE  registrationsMap[n][m].id \in Staying(n)
    <3>1. ~Leaving(n, m)
      BY <2>2
    <3> QED BY <3>1, OthersStay
  <2>3. CASE n = name
    <3> SUFFICES ASSUME NEW j \in DOMAIN registrationsMap'[name]
                 PROVE  registrationsMap'[name][j].id \in Staying(n)
      BY <2>1, <2>3 DEF IDsIn
    <3>1. PICK m \in DOMAIN list : m # i /\ registrationsMap'[name][j] = list[m]
      BY <1>3
    <3> QED BY <1>1, <2>2, <2>3, <3>1
  <2>4. CASE n # name
    <3>1. registrationsMap'[n] = registrationsMap[n]
      BY <1>3, <2>4
    <3> QED BY <2>1, <2>2, <2>4, <3>1 DEF IDsIn
  <2> QED BY <2>3, <2>4
<1>6. UNCHANGED <<phase, serviceID, request, services>>
  BY DEF clientVars
<1>7. Registered' \subseteq Registered
  BY <1>4 DEF Registered
<1>8. \A j \in ServiceIDs : PostKnown(j)'
  BY DEF PostKnown
<1>9. ASSUME NEW t \in Instances, Informed(t)'
      PROVE  Informed(t) /\ \A m, j : Announced(t, m, j) => Announced(t, m, j)'
  <2>1. Informed(t)
    BY <1>6, <1>7, <1>9 DEF Informed, IsServiceRegistered
  <2>2. Announcing' = Announcing
    BY DEF Announcing
  <2> QED BY <1>6, <2>1, <2>2 DEF Announced
<1>10. PatchBag'
  BY DEF KnownInv, PatchBag
<1> QED BY <1>4, <1>5, <1>6, <1>8, <1>9, <1>10, NothingForgotten

\* A DELETE begins with the search, and ends with the deletion.
LEMMA DeleteKnown ==
  ASSUME Serial = TRUE, TypeOK, TypeOK', SerialInv, KnownInv, StartDelete \/ EndDelete
  PROVE  KnownInv'
<1>1. CASE StartDelete
  <2>1. /\ \A j \in ServiceIDs : post[j].pc = "none"
        /\ sweep.pc = "idle" /\ del.pc = "idle"
    BY <1>1 DEF StartDelete, Admitted, Quiet
  <2>2. UNCHANGED <<registrationsMap, post, clientVars>>
    BY <1>1 DEF StartDelete, ServeDelete
  <2>3. PICK s \in Instances : ServeDelete(NameOf[s], s)
    BY <1>1 DEF StartDelete
  <2>4. PICK n \in Names : n = NameOf[s]
    BY NamesNonempty
  <2>5. PICK i \in DOMAIN registrationsMap[n] :
          /\ notify("removed", registrationsMap[n][i])
          /\ del' = [pc |-> "remove", name |-> n, i |-> i]
    BY <2>3, <2>4 DEF ServeDelete, FindAndNotify
  <2>6. Leaving(n, i)'
    BY <2>5 DEF Leaving
  <2>7. Unique(registrationsMap[n])
    BY <2>1, WithoutPosts
  <2> QED BY <2>1, <2>2, <2>5, <2>6, <2>7, RemovalBegins
<1>2. CASE EndDelete
  <2>1. UNCHANGED <<post, patches, clientVars, sweep>> /\ del.pc = "remove" /\ del' = NoDelete
    BY <1>2 DEF EndDelete, FinishDelete
  <2>2. /\ \A j \in ServiceIDs : post[j].pc = "none"
        /\ sweep.pc = "idle"
    BY <2>1 DEF SerialInv, OneOperation
  <2>3. PICK name, i : name = del.name /\ i = del.i
    OBVIOUS
  <2>4. name \in Names /\ i \in Nat \ {0}
    BY <2>3 DEF TypeOK, RegistryTypeOK
  <2>5. \A n, j : Leaving(n, j) => n = name /\ j = i
    BY <2>2, <2>3 DEF Leaving
  <2>6. \/ RemoveAtIndex(name, i)
        \/ i > Len(registrationsMap[name]) /\ UNCHANGED registrationsMap
    BY <1>2, <2>3 DEF EndDelete, FinishDelete, RemoveOutOfRange
  <2>7. del'.pc # "remove" /\ sweep'.pc # "remove"
    BY <2>1, <2>2 DEF NoDelete
  <2> QED BY <2>1, <2>2, <2>4, <2>5, <2>6, <2>7, RemovalEnds
<1> QED BY <1>1, <1>2

\* The sweep copies, examines and removes.
LEMMA SweepKnown ==
  ASSUME TypeOK, TypeOK', SerialInv, KnownInv, StartSweep \/ Sweep
  PROVE  KnownInv'
<1>1. sweep \in SweepGoroutine /\ UNCHANGED clientVars
  BY DEF TypeOK, RegistryTypeOK, StartSweep, Sweep
<1>2. UNCHANGED <<phase, serviceID, request, services>>
  BY <1>1 DEF clientVars
<1>3. ASSUME UNCHANGED <<registrationsMap, post, del, patches>>,
             sweep.pc # "remove", sweep'.pc # "remove"
      PROVE  KnownInv'
  BY <1>2, <1>3, IdleKept
<1>4. CASE SweepSnapshot \/ SweepHeartbeats \/ SweepEnd
  <2>1. UNCHANGED <<registrationsMap, post, del, patches>> /\ sweep.pc # "remove"
    BY <1>4 DEF SweepSnapshot, SweepHeartbeats, SweepEnd
  <2>2. CASE SweepSnapshot
    BY <1>1, <1>3, <2>1, <2>2 DEF SweepSnapshot, SweepGoroutine
  <2>3. CASE SweepHeartbeats
    BY <1>1, <1>3, <2>1, <2>3 DEF SweepHeartbeats, SweepGoroutine
  <2>4. CASE SweepEnd
    BY <1>3, <2>1, <2>4 DEF SweepEnd, NoSweep
  <2> QED BY <1>4, <2>2, <2>3, <2>4
<1>5. ASSUME NEW n \in Names, SweepExamine(n) PROVE KnownInv'
  <2>1. UNCHANGED <<registrationsMap, post, del>> /\ sweep.pc = "check"
    BY <1>5 DEF SweepExamine
  <2>2. CASE sweep' = [sweep EXCEPT !.snapshot[n] = Tail(@)] /\ UNCHANGED patches
    <3>1. sweep'.pc = sweep.pc
      BY <1>1, <2>2 DEF SweepGoroutine
    <3> QED BY <1>3, <2>1, <2>2, <3>1
  <2>3. CASE \E i \in DOMAIN registrationsMap[n] :
               /\ FindAndNotify(n, Examined(n).url, i)
               /\ sweep' = [sweep EXCEPT !.snapshot[n] = Tail(@),
                                         !.pc = "remove", !.name = n, !.i = i]
    <3>1. PICK i \in DOMAIN registrationsMap[n] :
               /\ FindAndNotify(n, Examined(n).url, i)
               /\ sweep' = [sweep EXCEPT !.snapshot[n] = Tail(@),
                                         !.pc = "remove", !.name = n, !.i = i]
      BY <2>3
    <3>2. sweep'.pc = "remove" /\ sweep'.name = n /\ sweep'.i = i
      BY <1>1, <3>1 DEF SweepGoroutine
    <3>3. Leaving(n, i)'
      BY <3>2 DEF Leaving
    <3>4. \A j \in ServiceIDs : post[j].pc = "none"
      BY <2>1 DEF SerialInv, OneOperation
    <3>5. del.pc # "remove" /\ sweep.pc # "remove"
      BY <2>1 DEF SerialInv, OneOperation
    <3>6. Unique(registrationsMap[n])
      BY <3>4, WithoutPosts
    <3>7. notify("removed", registrationsMap[n][i])
      BY <3>1 DEF FindAndNotify
    <3> QED BY <1>1, <2>1, <3>3, <3>4, <3>5, <3>6, <3>7, RemovalBegins
  <2> QED BY <1>5, <2>2, <2>3 DEF SweepExamine
<1>6. CASE SweepRemove
  <2>1. UNCHANGED <<post, patches, del>> /\ sweep.pc = "remove"
    BY <1>6 DEF SweepRemove
  <2>2. /\ \A j \in ServiceIDs : post[j].pc = "none"
        /\ del.pc = "idle"
    BY <2>1 DEF SerialInv, OneOperation
  <2>3. PICK name, i : name = sweep.name /\ i = sweep.i
    OBVIOUS
  <2>4. name \in Names /\ i \in Nat \ {0}
    BY <1>1, <2>3 DEF SweepGoroutine
  <2>5. \A n, j : Leaving(n, j) => n = name /\ j = i
    BY <2>2, <2>3 DEF Leaving
  <2>6. RemoveAtIndex(name, i)
    BY <1>6, <2>3 DEF SweepRemove
  <2>7. sweep'.pc # "remove"
    BY <1>1, <1>6 DEF SweepRemove, SweepGoroutine
  <2> QED BY <1>1, <2>1, <2>2, <2>4, <2>5, <2>6, <2>7, RemovalEnds
<1> QED BY <1>4, <1>5, <1>6 DEF StartSweep, Sweep

\* After a restart the registry knows nobody.
LEMMA NobodyRegistered ==
  ASSUME registrationsMap' = NoLists, post' = [k \in ServiceIDs |-> NoPost],
         del' = NoDelete, sweep' = NoSweep, patches' = EmptyBag
  PROVE  KnownInv'
<1>1. \A n \in Names : registrationsMap'[n] = <<>>
  BY DEF NoLists
<1>2. /\ \A k \in ServiceIDs : post'[k].pc = "none"
      /\ del'.pc = "idle" /\ sweep'.pc = "idle"
  BY DEF NoPost, NoDelete, NoSweep
<1>3. Registered' = {} /\ \A n \in Names : RegisteredAs(n)' = {}
  <2>1. \A n \in Names : DOMAIN registrationsMap'[n] = {}
    BY <1>1
  <2> QED BY <2>1 DEF RegisteredAs, Registered
<1>4. BagToSet(patches') = {}
  BY DEF EmptyBag, SetToBag, BagToSet
<1>5. \A s \in Instances : ~Informed(s)'
  BY <1>2, <1>3 DEF Informed, IsServiceRegistered
<1> QED BY <1>2, <1>3, <1>4, <1>5
        DEF KnownInv, PatchBag, Identified, RemovedGone, Known, PostKnown

\* In the beginning the registry knows nobody.
LEMMA InitKnown ==
  ASSUME Init
  PROVE  KnownInv
<1>1. \A n \in Names : registrationsMap[n] = <<>>
  BY DEF Init, RegistryInit, NoLists
<1>2. /\ \A k \in ServiceIDs : post[k].pc = "none"
      /\ del.pc = "idle" /\ sweep.pc = "idle"
  BY DEF Init, RegistryInit, NoPost, NoDelete, NoSweep
<1>3. Registered = {} /\ \A n \in Names : RegisteredAs(n) = {}
  <2>1. \A n \in Names : DOMAIN registrationsMap[n] = {}
    BY <1>1
  <2> QED BY <2>1 DEF RegisteredAs, Registered
<1>4. BagToSet(patches) = {}
  BY DEF Init, RegistryInit, EmptyBag, SetToBag, BagToSet
<1>5. \A s \in Instances : ~Informed(s)
  BY <1>2, <1>3 DEF Informed, IsServiceRegistered
<1> QED BY <1>2, <1>3, <1>4, <1>5
        DEF KnownInv, PatchBag, Identified, RemovedGone, Known, PostKnown

\* Every step keeps what is known.
LEMMA KnownStep ==
  ASSUME Serial = TRUE, Lossy = FALSE, TypeOK, TypeOK', SerialInv, SerialInv', KnownInv,
         [Next]_vars
  PROVE  KnownInv'
<1>1. ASSUME NEW s \in Instances, ServiceStep(s) PROVE KnownInv'
  <2>1. CASE Start(s)
    <3>1. UNCHANGED <<registrationsMap, post, del, patches, services, serviceID, request, sweep>>
      BY <2>1 DEF Start, StartProcess, registryVars
    <3>2. \A t \in Instances :
            phase'[t] = phase[t] \/ (phase[t] # "posted" /\ phase'[t] # "serving")
      BY <2>1 DEF Start, StartProcess, TypeOK, ClientTypeOK
    <3> QED BY <3>1, <3>2, IdleKept
  <2>2. CASE Beat(s)
    <3>1. /\ UNCHANGED <<registrationsMap, post, del, patches, sweep>>
          /\ UNCHANGED <<phase, serviceID, request, services>>
      BY <2>2 DEF Beat, HandleHeartbeat, clientVars
    <3> QED BY <3>1, IdleKept
  <2>3. ASSUME NEW k \in ServiceIDs, Post(s, k) \/ PostDone(s, k) PROVE KnownInv'
    BY <2>3, PostBegins, PostDoneKnown
  <2>4. ~ConnectionLost(s)
    BY DEF ConnectionLost
  <2> QED BY <1>1, <2>1, <2>2, <2>3, <2>4, CrashKnown, BeatRejectedKnown DEF ServiceStep
<1>2. ASSUME NEW k \in ServiceIDs, PostStep(k) PROVE KnownInv'
  <2>1. CASE HandlePost(k)
    BY <2>1, CheckDuplicateKnown, DropDuplicateKnown, StoreShortenedKnown,
       AppendRegistrationKnown, SendRequiredKnown, AnnounceKnown DEF HandlePost
  <2>2. ~PostDiscarded(k)
    <3>1. ASSUME PostDiscarded(k) PROVE FALSE
      <4>1. post[k].pc # "none" /\ \A s \in Instances : request[s] # k
        BY <3>1 DEF PostDiscarded, EndPost
      <4>2. post[k].url \in Instances
        BY DEF TypeOK, RegistryTypeOK, PostGoroutine
      <4> QED BY <4>1, <4>2 DEF KnownInv, PostKnown
    <3> QED BY <3>1
  <2> QED BY <1>2, <2>1, <2>2, DeliverRequiredKnown DEF PostStep
<1>3. CASE RegistryRestart
  BY <1>3, NobodyRegistered DEF RegistryRestart, RegistryReset
<1>4. CASE Tick
  <2>1. UNCHANGED <<registrationsMap, post, del, patches, phase, serviceID, request, services>>
    BY <1>4 DEF Tick, Age, clientVars
  <2>2. sweep'.pc = sweep.pc /\ sweep'.name = sweep.name /\ sweep'.i = sweep.i
    BY <1>4 DEF Tick, Age, TypeOK, RegistryTypeOK, SweepGoroutine
  <2> QED BY <2>1, <2>2, IdleKept
<1>5. CASE UNCHANGED vars
  <2>1. /\ UNCHANGED <<registrationsMap, post, del, patches, sweep>>
        /\ UNCHANGED <<phase, serviceID, request, services>>
    BY <1>5 DEF vars, registryVars, clientVars
  <2> QED BY <2>1, IdleKept
<1> QED BY <1>1, <1>2, <1>3, <1>4, <1>5, DeliverPatchKnown, DeleteKnown, SweepKnown DEF Next

\* At rest, everything that is registered stays, and nothing is left to be told.
LEMMA KnownAtRest ==
  ASSUME KnownInv
  PROVE  NoProviderMissed
<1> SUFFICES ASSUME Quiet, NEW s \in Instances, NEW n \in RequiredServices(NameOf[s]) \cap Names,
                    phase[s] = "serving", IsServiceRegistered(serviceID[s]),
                    NEW j \in IDsIn(registrationsMap[n])
             PROVE  j \in IDsIn(services[s][n])
  BY DEF NoProviderMissed
<1>1. Staying(n) = IDsIn(registrationsMap[n])
  BY AllStay DEF Quiet
<1>2. Announced(s, n, j)
  BY <1>1 DEF KnownInv, Known, Informed
<1>3. BagToSet(patches) = {} /\ Announcing = {}
  BY DEF Quiet, Announcing, EmptyBag, SetToBag, BagToSet
<1> QED BY <1>2, <1>3 DEF Announced

\* When operations do not overlap and no request is lost, a service that is registered
\* knows, once the registry is at rest, every provider that it requires: the patch of
\* sendRequiredServices and the notifications leave no gap (server.go:36-43, 63-120),
\* whatever crashes, restarts, sweeps and DELETEs happen, and in whatever order
\* the notifications arrive.
THEOREM AlwaysNoProviderMissed ==
  ASSUME Serial = TRUE, Lossy = FALSE
  PROVE  Spec => []NoProviderMissed
<1>1. Spec => []TypeOK
  BY TypeCorrect
<1>2. Spec => []SerialInv
  BY SerialInvariant
<1>3. Init => KnownInv
  BY InitKnown
<1>4. TypeOK /\ TypeOK' /\ SerialInv /\ SerialInv' /\ KnownInv /\ [Next]_vars => KnownInv'
  BY KnownStep
<1>5. KnownInv => NoProviderMissed
  BY KnownAtRest
<1> QED BY <1>1, <1>2, <1>3, <1>4, <1>5, PTL DEF Spec
=============================================================================
