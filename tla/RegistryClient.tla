--------------------------- MODULE RegistryClient ---------------------------
(***************************************************************************)
(* The registry client inside every service: registry/client.go with the   *)
(* heartbeat client of registry/heartbeat/client.go.  Its actions say what *)
(* happens to the client; module Discovery pairs each of them with what    *)
(* the registry does in the same step.                                     *)
(*                                                                         *)
(* phase[s] is where the process s is:                                     *)
(*   down      not running;                                                *)
(*   register  in RegisterRequest, the body of the request still unread;   *)
(*   posted    waiting for the answer of POST request[s];                  *)
(*   retry     answered with an error status; the connection is still open *)
(*   spin      the connection broke and the request's body is drained;     *)
(*   serving   sending heartbeats.                                         *)
(***************************************************************************)
EXTENDS ServiceTypes

CONSTANT NoID     \* the empty ServiceID

ASSUME NoIDAssumption == NoID \notin ServiceIDs

VARIABLES
  phase,       \* see above
  serviceID,   \* r.ServiceID, which is also hb.ServiceID
  request,     \* the POST whose answer is awaited
  services     \* Prov.services: ServiceName -> list of registrations

clientVars == <<phase, serviceID, request, services>>

Phases == {"down", "register", "posted", "retry", "spin", "serving"}

RegistryClientInit ==
  /\ phase = [s \in Instances |-> "down"]
  /\ serviceID = [s \in Instances |-> NoID]
  /\ request = [s \in Instances |-> NoID]
  /\ services = [s \in Instances |-> NoLists]

Up(s) == phase[s] # "down"

-----------------------------------------------------------------------------
\* service.Start: the HTTP server listens before RegisterRequest begins.
StartProcess(s) ==
  /\ phase[s] = "down"
  /\ phase' = [phase EXCEPT ![s] = "register"]
  /\ UNCHANGED <<serviceID, request, services>>

\* The process dies with everything it knows.
KillProcess(s) ==
  /\ Up(s)
  /\ phase' = [phase EXCEPT ![s] = "down"]
  /\ serviceID' = [serviceID EXCEPT ![s] = NoID]
  /\ request' = [request EXCEPT ![s] = NoID]
  /\ services' = [services EXCEPT ![s] = NoLists]

(***************************************************************************)
(* One attempt of RegisterRequest reaches the registry as POST k.  The     *)
(* loop sends the same http.Request again, whose body has been read.  On a *)
(* connection that is still open the transport notices before anything was *)
(* written and rewinds the body (GetBody); on a new one it gives up with   *)
(* "ContentLength=.. with Body length 0".  So an attempt succeeds in       *)
(* "register" and "retry" and never again in "spin".                       *)
(***************************************************************************)
SendRequest(s, k) ==
  /\ phase[s] \in {"register", "retry"}
  /\ phase' = [phase EXCEPT ![s] = "posted"]
  /\ request' = [request EXCEPT ![s] = k]
  /\ UNCHANGED <<serviceID, services>>

\* RegisterRequest returns with the ServiceID of the answer.
AcceptServiceID(s) ==
  /\ phase[s] = "posted"
  /\ phase' = [phase EXCEPT ![s] = "serving"]
  /\ serviceID' = [serviceID EXCEPT ![s] = request[s]]
  /\ request' = [request EXCEPT ![s] = NoID]
  /\ UNCHANGED services

\* io.ReadAll fails: RegisterRequest returns an error, which is only logged.
LoseServiceID(s) ==
  /\ phase[s] = "posted"
  /\ phase' = [phase EXCEPT ![s] = "serving"]
  /\ request' = [request EXCEPT ![s] = NoID]
  /\ UNCHANGED <<serviceID, services>>

\* Another status than 200: sleep and send the request again.
MeetErrorStatus(s) ==
  /\ phase[s] = "posted"
  /\ phase' = [phase EXCEPT ![s] = "retry"]
  /\ request' = [request EXCEPT ![s] = NoID]
  /\ UNCHANGED <<serviceID, services>>

\* The connections of the processes in S break.
LoseConnections(S) ==
  /\ phase' = [s \in Instances |->
                 IF s \in S /\ phase[s] \in {"posted", "retry"} THEN "spin" ELSE phase[s]]
  /\ request' = [s \in Instances |-> IF s \in S THEN NoID ELSE request[s]]
  /\ UNCHANGED <<serviceID, services>>

\* Mutant: the providers are cleared, but nothing is registered again.
ReRegisterNot(s, left) ==
  /\ phase[s] = "serving"
  /\ services' = [services EXCEPT ![s] = left]
  /\ UNCHANGED <<phase, serviceID, request>>

\* 401 to a heartbeat: clear the providers and register again; what the
\* clearing leaves of them is `left'.
ReRegister(s, left) ==
  /\ phase[s] = "serving"
  /\ phase' = [phase EXCEPT ![s] = "register"]
  /\ services' = [services EXCEPT ![s] = left]
  /\ UNCHANGED <<serviceID, request>>

-----------------------------------------------------------------------------
\* list without its first registration that has ServiceID k, if any.
WithoutFirst(list, k) ==
  LET IsFirst(i) == FirstAt(list, i, LAMBDA r : r.id = k) IN
  IF \E i \in DOMAIN list : IsFirst(i)
  THEN DeleteAt(list, CHOOSE i \in DOMAIN list : IsFirst(i))
  ELSE list

\* providers.Update: what the lists of s become.
AfterAdding(s, added) == [n \in Names |-> services[s][n] \o added[n]]

AfterRemoving(s, reg) ==
  [services[s] EXCEPT ![NameOf[reg.url]] = WithoutFirst(@, reg.id)]

\* The serviceUpdateHandler of a running process, with the updated lists.
ReceivePatch(s, updated) ==
  /\ Up(s)
  /\ services' = [services EXCEPT ![s] = updated]
  /\ UNCHANGED <<phase, serviceID, request>>

-----------------------------------------------------------------------------
\* The clients' variables hold values of their types.
ClientTypeOK ==
  /\ phase \in [Instances -> Phases]
  /\ serviceID \in [Instances -> ServiceIDs \cup {NoID}]
  /\ request \in [Instances -> ServiceIDs \cup {NoID}]
  /\ services \in [Instances -> Lists]
=============================================================================
