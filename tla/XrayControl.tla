----------------------------- MODULE XrayControl -----------------------------
(***************************************************************************)
(* How a node's handlers tell xray which users to accept: node/xray_api.go *)
(* and the global variable xrayCtl of node/server.go, which every handler  *)
(* overwrites with a controller of its own and then reads again for every  *)
(* call, and once more for the connection that it will close in the end.   *)
(* So a handler may close the connection of another one, or none at all.   *)
(* xray is another process.  It is launched after the node has begun to    *)
(* serve and may be unreachable at any time: every call may fail.          *)
(***************************************************************************)
EXTENDS SessionTypes

CONSTANTS
  Conns,      \* gRPC connections; one that nobody refers to stands for a new one
  NoConn      \* the nil connection of a controller that is not initialised

ASSUME ConnAssumption == NoConn \notin Conns

VARIABLES
  xrayUsers,   \* node -> the users its xray accepts
  xrayCtl,     \* node -> the connection of the controller in xrayCtl
  open         \* node -> the connections that are open

xrayVars == <<xrayUsers, xrayCtl, open>>

XrayControlInit ==
  /\ xrayUsers = [n \in Nodes |-> {}]
  /\ xrayCtl = [n \in Nodes |-> NoConn]
  /\ open = [n \in Nodes |-> {}]

\* xrayCtl = new(XrayController)
NewController(n) ==
  /\ xrayCtl' = [xrayCtl EXCEPT ![n] = NoConn]
  /\ UNCHANGED <<xrayUsers, open>>

\* Init gives a new connection to the controller that is in xrayCtl by now.
\* (The address is constant and well formed, so that NewClient does not fail;
\* it does not wait for xray.)
InitController(n, c) ==
  /\ xrayCtl' = [xrayCtl EXCEPT ![n] = c]
  /\ open' = [open EXCEPT ![n] = @ \cup {c}]
  /\ UNCHANGED xrayUsers

\* The deferred call of a handler that returns or panics.  On the nil
\* connection it panics itself and closes nothing.
CloseController(n, c) == open' = [open EXCEPT ![n] = @ \ {c}]

\* A call through xrayCtl may reach xray.
Reaches(n) == xrayCtl[n] \in open[n]

\* xray adds a user, but not twice.
addVlessUser(n, u) ==
  /\ Reaches(n)
  /\ u \notin xrayUsers[n]
  /\ xrayUsers' = [xrayUsers EXCEPT ![n] = @ \cup {u}]

\* The call returns an error: the user is there, the connection is closed, xray
\* cannot be reached, or the connection is closed before the answer has come.
addFails(n, u) ==
  /\ xrayCtl[n] # NoConn
  /\ \/ UNCHANGED xrayUsers
     \/ addVlessUser(n, u)

\* The handler ignores whether the call succeeds.
removeVlessUser(n, u) ==
  /\ xrayCtl[n] # NoConn
  /\ \/ UNCHANGED xrayUsers
     \/ Reaches(n) /\ xrayUsers' = [xrayUsers EXCEPT ![n] = @ \ {u}]

\* A call through a controller that has not been initialised panics.
CallPanics(n) == xrayCtl[n] = NoConn

\* The node is started again, with or without its xray.
XrayReset(n) ==
  /\ xrayUsers' \in {xrayUsers, [xrayUsers EXCEPT ![n] = {}]}
  /\ xrayCtl' = [xrayCtl EXCEPT ![n] = NoConn]
  /\ open' = [open EXCEPT ![n] = {}]

\* The variables hold values of their types.
XrayTypeOK ==
  /\ xrayUsers \in [Nodes -> SUBSET Users]
  /\ xrayCtl \in [Nodes -> Conns \cup {NoConn}]
  /\ open \in [Nodes -> SUBSET Conns]
=============================================================================
