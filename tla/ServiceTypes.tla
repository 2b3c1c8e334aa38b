---------------------------- MODULE ServiceTypes ----------------------------
(***************************************************************************)
(* What the registry server and its clients share (registry/registration.go*)
(* and the Registration literals of cmd/*/main.go).                        *)
(*                                                                         *)
(* A service instance is a process with one ServiceURL, one                *)
(* ServiceUpdateURL and one ServiceName, so the instance itself stands for *)
(* both URLs.  A restarted process keeps its URL and gets a new ServiceID. *)
(***************************************************************************)
EXTENDS Integers, Sequences, FiniteSets

CONSTANTS
  Instances,    \* service processes that may register, named by their URL
  NameOf,       \* the ServiceName of each instance
  ServiceIDs    \* the supply of uuids

ServiceName ==
  {"LogService", "ShellService", "NodeService", "WebService", "PaymentService"}

ASSUME NameAssumption ==
  /\ Instances # {} /\ ServiceIDs # {}
  /\ NameOf \in [Instances -> ServiceName]

\* The ServiceNames some instance carries.
Names == {NameOf[s] : s \in Instances}

\* RequiredServices of the registration each kind of service sends.
RequiredServices(name) ==
  CASE name = "NodeService"  -> {"LogService", "WebService"}
    [] name = "WebService"   -> {"NodeService", "LogService"}
    [] name = "ShellService" -> {"LogService"}
    [] OTHER                 -> {}

\* A Registration as far as the registry's logic tells registrations apart.
Registration == [url : Instances, id : ServiceIDs]

\* Whether the service behind registration r subscribed to name.
Requires(r, name) == name \in RequiredServices(NameOf[r.url])

\* The ServiceIDs of a list of registrations.
IDsIn(list) == {list[i].id : i \in DOMAIN list}

\* append(list[:i], list[i+1:]...), with i counted from 1.
DeleteAt(list, i) == SubSeq(list, 1, i - 1) \o SubSeq(list, i + 1, Len(list))

\* i is the first position of list that satisfies Test.
FirstAt(list, i, Test(_)) ==
  /\ i \in DOMAIN list
  /\ Test(list[i])
  /\ \A j \in 1..(i - 1) : ~Test(list[j])

\* A map from names to lists with no entry.
NoLists == [n \in Names |-> <<>>]

\* A map from names to lists of registrations.
Lists == [Names -> Seq(Registration)]
=============================================================================
