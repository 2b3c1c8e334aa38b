------------------------------ MODULE Accounts ------------------------------
(***************************************************************************)
(* The users' rows in the web service's database: Signup and AddTraffic of *)
(* web/controllers/controllers.go and the first half of the plan monitor,  *)
(* which renews plans.  A query is one step; there are no transactions.    *)
(*                                                                         *)
(* SetPlan changes no user's row: the route /admin/setplan carries none of *)
(* the parameters the handler reads.  PlanEnd is a century after Signup,   *)
(* so no plan ends.                                                        *)
(***************************************************************************)
EXTENDS SessionTypes, Integers

CONSTANTS
  Handlers,       \* goroutines of AddTraffic that run at the same time
  TrafficLimit    \* the TrafficLimit of a new row, in bytes

VARIABLES
  rows,      \* user -> its row
  adding,    \* the goroutines that post a report and serve it in AddTraffic
  renewing   \* the rows that StartPlanMonitor has found due and not saved yet

accountVars == <<rows, adding, renewing>>

\* A row: whether it exists, and TrafficUsed.
Row == [exists : BOOLEAN, used : Int]

NoRow == [exists |-> FALSE, used |-> 0]

NoUser == CHOOSE u \in Users : TRUE

\* A goroutine that serves a report: the entries it has not looked at, and the
\* user, the traffic and the row's TrafficUsed of the one it is adding.
Adder ==
  [pc : {"idle", "read", "write"}, entries : SUBSET [user : Users, traffic : Int],
   user : Users, traffic : Int, read : Int]

NotAdding == [pc |-> "idle", entries |-> {}, user |-> NoUser, traffic |-> 0, read |-> 0]

AccountsInit ==
  /\ rows = [u \in Users |-> NoRow]
  /\ adding = [h \in Handlers |-> NotAdding]
  /\ renewing = {}

\* The user is created with a full month and no traffic used.
Signup(u) ==
  /\ ~rows[u].exists
  /\ rows' = [rows EXCEPT ![u] = [exists |-> TRUE, used |-> 0]]
  /\ UNCHANGED <<adding, renewing>>

\* Connect refuses a user who has used up its traffic; -1 means unlimited.
MayConnect(u) ==
  /\ rows[u].exists
  /\ ~(rows[u].used >= TrafficLimit /\ TrafficLimit # -1)

-----------------------------------------------------------------------------
\* A goroutine posts a report.
PostReport(h, entries) ==
  /\ adding[h].pc = "idle"
  /\ adding' = [adding EXCEPT ![h] = [NotAdding EXCEPT !.pc = "read", !.entries = entries]]
  /\ UNCHANGED <<rows, renewing>>

\* AddTraffic reads the row of an entry's user ...
ReadUsed(h, e) ==
  /\ adding[h].pc = "read"
  /\ e \in adding[h].entries
  /\ rows[e.user].exists
  /\ adding' = [adding EXCEPT ![h] =
       [pc |-> "write", entries |-> @.entries \ {e}, user |-> e.user, traffic |-> e.traffic,
        read |-> rows[e.user].used]]
  /\ UNCHANGED <<rows, renewing>>

\* Mutant: the entry's traffic replaces what the row had.
UpdateUsedOnly(h) ==
  LET a == adding[h] IN
  /\ a.pc = "write"
  /\ rows' = [rows EXCEPT ![a.user].used = a.traffic]
  /\ adding' = [adding EXCEPT ![h] =
       IF a.entries = {} THEN NotAdding
       ELSE [NotAdding EXCEPT !.pc = "read", !.entries = a.entries]]
  /\ UNCHANGED renewing

\* Mutant: the sum that was made here is added again by the query.
UpdateUsedTwice(h) ==
  LET a == adding[h] IN
  /\ a.pc = "write"
  /\ rows' = [rows EXCEPT ![a.user].used = @ + a.read + a.traffic]
  /\ adding' = [adding EXCEPT ![h] =
       IF a.entries = {} THEN NotAdding
       ELSE [NotAdding EXCEPT !.pc = "read", !.entries = a.entries]]
  /\ UNCHANGED renewing

\* ... and updates one column of it; after the last entry it answers.
UpdateUsed(h) ==
  LET a == adding[h] IN
  /\ a.pc = "write"
  /\ rows' = [rows EXCEPT ![a.user].used = a.read + a.traffic]
  /\ adding' = [adding EXCEPT ![h] =
       IF a.entries = {} THEN NotAdding
       ELSE [NotAdding EXCEPT !.pc = "read", !.entries = a.entries]]
  /\ UNCHANGED renewing

\* The request fails, or the web service's process ends while it serves it:
\* what is left of the report is gone.
LoseReport(h) ==
  /\ adding[h].pc # "idle"
  /\ adding' = [adding EXCEPT ![h] = NotAdding]
  /\ UNCHANGED <<rows, renewing>>

-----------------------------------------------------------------------------
\* The plan monitor finds the rows whose NextRenew has passed.  Which ones that
\* are is the clock's choice.
FindDue(users) ==
  /\ renewing = {}
  /\ users # {}
  /\ \A u \in users : rows[u].exists
  /\ renewing' = users
  /\ UNCHANGED <<rows, adding>>

\* It saves each of them with TrafficUsed 0 and the next NextRenew.  (It returns
\* for good when a query fails: it takes no more steps.)
SaveRenewed(u) ==
  /\ u \in renewing
  /\ rows' = [rows EXCEPT ![u].used = 0]
  /\ renewing' = renewing \ {u}
  /\ UNCHANGED adding

-----------------------------------------------------------------------------
AccountsTypeOK ==
  /\ rows \in [Users -> Row]
  /\ adding \in [Handlers -> Adder]
  /\ renewing \subseteq Users
=============================================================================
