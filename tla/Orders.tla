------------------------------- MODULE Orders -------------------------------
(***************************************************************************)
(* The payment service: payment/order/mapper.go, server.go and task.go.    *)
(*                                                                         *)
(* All customers pay to one wallet.  An order is recognised by the amount  *)
(* of its transfer, so every order gets an ActualAmount of its own, the    *)
(* first amount from its price upwards that was not given out yet.  Each   *)
(* create request is handled by its own goroutine; one more polls the      *)
(* wallet's transactions of the last ten minutes.  There is no lock, and   *)
(* nothing is persisted.                                                   *)
(***************************************************************************)
EXTENDS IntervalSet, FiniteSets

CONSTANTS
  OrderIDs,     \* ids that requests carry
  Amounts,      \* amounts that requests ask for
  Handlers,     \* goroutines of create requests that run at the same time
  Transfers,    \* transactions of the wallet
  NoOrderID,    \* no id
  ReuseIDs,     \* requests may carry the id of an existing order
  PicksOverlap, \* a request may pick its amount before another has added its own
  Restarts      \* the process may be restarted

ASSUME OrdersAssumption ==
  /\ Amounts \subseteq Int_
  /\ NoOrderID \notin OrderIDs

VARIABLES
  intervals,          \* intervalSet: the actual amounts given out
  orderMap,           \* id -> order
  ActualAmountToID,   \* actual amount -> id
  create,             \* the goroutines of handleCreateOrder
  poll,               \* the goroutine of UpdateOrderStatus
  chain,              \* the transactions of the wallet
  credited,           \* history: which orders of this process each transfer has paid
  calls               \* history: how often each order's callback was called,
                      \* where 2 stands for more than once

serviceVars == <<intervals, orderMap, ActualAmountToID, create, poll>>

vars == <<serviceVars, chain, credited, calls>>

NoOrder == [status |-> "none", amount |-> 0, actual |-> 0, callback |-> FALSE]

NoCreate ==
  [pc |-> "idle", id |-> NoOrderID, amount |-> 0, callback |-> FALSE,
   actual |-> 0, local |-> <<>>]

NoPoll == [pc |-> "idle", page |-> {}, amount |-> 0]

\* kind "none" is a transaction that has not happened.
NoTransaction == [kind |-> "none", amount |-> 0, recent |-> FALSE]

\* The state of a process that has just started.
Fresh ==
  [intervals |-> <<>>,
   orderMap |-> [id \in OrderIDs |-> NoOrder],
   ActualAmountToID |-> [a \in Int_ |-> NoOrderID],
   create |-> [h \in Handlers |-> NoCreate],
   poll |-> NoPoll,
   credited |-> [t \in Transfers |-> {}],
   calls |-> [id \in OrderIDs |-> 0]]

Init ==
  /\ intervals = Fresh.intervals
  /\ orderMap = Fresh.orderMap
  /\ ActualAmountToID = Fresh.ActualAmountToID
  /\ create = Fresh.create
  /\ poll = Fresh.poll
  /\ chain = [t \in Transfers |-> NoTransaction]
  /\ credited = Fresh.credited
  /\ calls = Fresh.calls

-----------------------------------------------------------------------------
\* The request is parsed and NextMissing picks the actual amount.
HandleCreateOrder(h, id, amount, callback) ==
  /\ create[h].pc = "idle"
  /\ ReuseIDs \/ (orderMap[id] = NoOrder /\ \A g \in Handlers : create[g].id # id)
  /\ PicksOverlap \/ \A g \in Handlers : create[g].pc \notin {"load", "store"}
  /\ create' = [create EXCEPT ![h] =
       [NoCreate EXCEPT !.pc = "load", !.id = id, !.amount = amount,
                        !.callback = callback, !.actual = NextMissing(intervals, amount)]]
  /\ UNCHANGED <<intervals, orderMap, ActualAmountToID, poll, chain, credited, calls>>

\* Mutant: the amount is not added.
LoadIntervalsOnly(h) ==
  /\ create[h].pc = "load"
  /\ create' = [create EXCEPT ![h].pc = "store", ![h].local = intervals]
  /\ UNCHANGED <<intervals, orderMap, ActualAmountToID, poll, chain, credited, calls>>

\* intervalSet.Add reads the slice ...
LoadIntervals(h) ==
  /\ create[h].pc = "load"
  /\ create' = [create EXCEPT ![h].pc = "store",
                              ![h].local = AfterAdd(intervals, create[h].actual)]
  /\ UNCHANGED <<intervals, orderMap, ActualAmountToID, poll, chain, credited, calls>>

\* Mutant: the new slice is dropped.
StoreIntervalsNot(h) ==
  /\ create[h].pc = "store"
  /\ create' = [create EXCEPT ![h].pc = "order", ![h].local = <<>>]
  /\ UNCHANGED <<intervals, orderMap, ActualAmountToID, poll, chain, credited, calls>>

\* ... and stores the one it has made of it.
StoreIntervals(h) ==
  /\ create[h].pc = "store"
  /\ intervals' = create[h].local
  /\ create' = [create EXCEPT ![h].pc = "order", ![h].local = <<>>]
  /\ UNCHANGED <<orderMap, ActualAmountToID, poll, chain, credited, calls>>

\* Mutant: the order starts with a status that is none of its three.
StoreOrderUnset(h) ==
  /\ create[h].pc = "order"
  /\ orderMap' = [orderMap EXCEPT ![create[h].id] =
       [status |-> "", amount |-> create[h].amount,
        actual |-> create[h].actual, callback |-> create[h].callback]]
  /\ create' = [create EXCEPT ![h].pc = "link"]
  /\ UNCHANGED <<intervals, ActualAmountToID, poll, chain, credited, calls>>

StoreOrder(h) ==
  /\ create[h].pc = "order"
  /\ orderMap' = [orderMap EXCEPT ![create[h].id] =
       [status |-> "pending", amount |-> create[h].amount,
        actual |-> create[h].actual, callback |-> create[h].callback]]
  /\ create' = [create EXCEPT ![h].pc = "link"]
  /\ UNCHANGED <<intervals, ActualAmountToID, poll, chain, credited, calls>>

\* Mutant: the requested amount is linked instead of the actual one.
LinkAmountAsked(h) ==
  /\ create[h].pc = "link"
  /\ ActualAmountToID' = [ActualAmountToID EXCEPT ![create[h].amount] = create[h].id]
  /\ create' = [create EXCEPT ![h] = NoCreate]
  /\ UNCHANGED <<intervals, orderMap, poll, chain, credited, calls>>

\* The actual amount is linked to the order and the response is sent.
LinkAmount(h) ==
  /\ create[h].pc = "link"
  /\ ActualAmountToID' = [ActualAmountToID EXCEPT ![create[h].actual] = create[h].id]
  /\ create' = [create EXCEPT ![h] = NoCreate]
  /\ UNCHANGED <<intervals, orderMap, poll, chain, credited, calls>>

-----------------------------------------------------------------------------
\* A customer transfers an amount, or something else happens on the wallet.
Transact(t, kind, amount) ==
  /\ chain[t] = NoTransaction
  /\ chain' = [chain EXCEPT ![t] = [kind |-> kind, amount |-> amount, recent |-> TRUE]]
  /\ UNCHANGED <<serviceVars, credited, calls>>

\* A transaction leaves the window of paymentTimeout.
LeaveWindow(t) ==
  /\ chain[t].recent
  /\ chain' = [chain EXCEPT ![t].recent = FALSE]
  /\ UNCHANGED <<serviceVars, credited, calls>>

\* Mutant: the transactions up to minTimestamp are fetched.
FetchTransactionsBefore ==
  /\ poll.pc = "idle"
  /\ poll' = [poll EXCEPT !.pc = "scan", !.page = {t \in Transfers : ~chain[t].recent}]
  /\ UNCHANGED <<intervals, orderMap, ActualAmountToID, create, chain, credited, calls>>

\* The transactions since minTimestamp are fetched.  (When the request fails,
\* UpdateOrderStatus returns and nothing changes.)
FetchTransactions ==
  /\ poll.pc = "idle"
  /\ poll' = [poll EXCEPT !.pc = "scan", !.page = {t \in Transfers : chain[t].recent}]
  /\ UNCHANGED <<intervals, orderMap, ActualAmountToID, create, chain, credited, calls>>

\* Mutant: the order's status is not looked at.
MatchesAny(t, id) ==
  /\ chain[t].recent
  /\ chain[t].kind = "TransferContract"
  /\ ActualAmountToID[chain[t].amount] = id
  /\ id # NoOrderID

\* Transaction t pays the pending order of its amount.
Matches(t, id) ==
  /\ chain[t].recent
  /\ chain[t].kind = "TransferContract"
  /\ ActualAmountToID[chain[t].amount] = id
  /\ id # NoOrderID
  /\ orderMap[id].status = "pending"

SkipTransaction(t) ==
  /\ poll.pc = "scan"
  /\ t \in poll.page
  /\ \A id \in OrderIDs : ~Matches(t, id)
  /\ poll' = [poll EXCEPT !.page = @ \ {t}]
  /\ UNCHANGED <<intervals, orderMap, ActualAmountToID, create, chain, credited, calls>>

\* The order becomes paid and, if it has a callback, the callback is called.
CreditOrder(t, id) ==
  /\ poll.pc = "scan"
  /\ t \in poll.page
  /\ Matches(t, id)
  /\ orderMap' = [orderMap EXCEPT ![id].status = "paid"]
  /\ credited' = [credited EXCEPT ![t] = @ \cup {id}]
  /\ IF orderMap[id].callback
     THEN /\ poll' = [pc |-> "callback", page |-> poll.page \ {t}, amount |-> chain[t].amount]
          /\ calls' = [calls EXCEPT ![id] = Smaller(@ + 1, 2)]
     ELSE /\ poll' = [poll EXCEPT !.page = @ \ {t}]
          /\ UNCHANGED calls
  /\ UNCHANGED <<intervals, ActualAmountToID, create, chain>>

\* The callback answered 200 and the amount is unlinked, or it failed.
EndCallback(ok) ==
  /\ poll.pc = "callback"
  /\ ActualAmountToID' = IF ok THEN [ActualAmountToID EXCEPT ![poll.amount] = NoOrderID]
                               ELSE ActualAmountToID
  /\ poll' = [poll EXCEPT !.pc = "scan", !.amount = 0]
  /\ UNCHANGED <<intervals, orderMap, create, chain, credited, calls>>

\* The last page is done.
EndPoll ==
  /\ poll.pc = "scan"
  /\ poll.page = {}
  /\ poll' = NoPoll
  /\ UNCHANGED <<intervals, orderMap, ActualAmountToID, create, chain, credited, calls>>

\* The process ends (a panic on an undecodable answer, say) and starts anew.
\* The ids of its orders are gone, and with them what the histories say of them.
Restart ==
  /\ Restarts
  /\ intervals' = Fresh.intervals
  /\ orderMap' = Fresh.orderMap
  /\ ActualAmountToID' = Fresh.ActualAmountToID
  /\ create' = Fresh.create
  /\ poll' = Fresh.poll
  /\ credited' = Fresh.credited
  /\ calls' = Fresh.calls
  /\ UNCHANGED chain

-----------------------------------------------------------------------------
CreateStep(h) ==
  \/ \E id \in OrderIDs, amount \in Amounts, callback \in BOOLEAN :
       HandleCreateOrder(h, id, amount, callback)
  \/ LoadIntervals(h)
  \/ StoreIntervals(h)
  \/ StoreOrder(h)
  \/ LinkAmount(h)

PollStep ==
  \/ FetchTransactions
  \/ \E t \in Transfers :
       \/ SkipTransaction(t)
       \/ \E id \in OrderIDs : CreditOrder(t, id)
  \/ \E ok \in BOOLEAN : EndCallback(ok)
  \/ EndPoll

Environment ==
  \/ \E t \in Transfers :
       \/ \E a \in 0..MaxInt : Transact(t, "TransferContract", a)
       \/ Transact(t, "other", 0)
       \/ LeaveWindow(t)
  \/ Restart

Next == (\E h \in Handlers : CreateStep(h)) \/ PollStep \/ Environment

Spec == Init /\ [][Next]_vars

(***************************************************************************)
(* The poller runs forever (TronGrid and the callbacks answer in the end), *)
(* and a create request that was accepted is finished.                     *)
(***************************************************************************)
Fairness ==
  /\ WF_vars(PollStep)
  /\ \A h \in Handlers :
       WF_vars(LoadIntervals(h) \/ StoreIntervals(h) \/ StoreOrder(h) \/ LinkAmount(h))

FairSpec == Spec /\ Fairness

-----------------------------------------------------------------------------
OrderType ==
  [status : {"none", "pending", "paid"}, amount : Int_, actual : Int_, callback : BOOLEAN]

CreateType ==
  [pc : {"idle", "load", "store", "order", "link"}, id : OrderIDs \cup {NoOrderID},
   amount : Int_, callback : BOOLEAN, actual : Int_, local : Seq(Interval)]

PollType == [pc : {"idle", "scan", "callback"}, page : SUBSET Transfers, amount : Int_]

TransactionType ==
  [kind : {"none", "TransferContract", "other"}, amount : Int_, recent : BOOLEAN]

\* Every variable holds a value of its type.
TypeOK ==
  /\ intervals \in Seq(Interval)
  /\ orderMap \in [OrderIDs -> OrderType]
  /\ ActualAmountToID \in [Int_ -> OrderIDs \cup {NoOrderID}]
  /\ create \in [Handlers -> CreateType]
  /\ poll \in PollType
  /\ chain \in [Transfers -> TransactionType]
  /\ credited \in [Transfers -> SUBSET OrderIDs]
  /\ calls \in [OrderIDs -> 0..2]

Exists(id) == orderMap[id] # NoOrder

\* No two orders wait for, or were paid by, the same actual amount: this is
\* what lets all of them share one wallet address.
DistinctActualAmounts ==
  \A i, j \in OrderIDs :
    (Exists(i) /\ Exists(j) /\ orderMap[i].actual = orderMap[j].actual) => i = j

\* A paid order was paid by a transfer of its own ActualAmount, the "actual
\* amount to be paid".
PaidByItsAmount ==
  \A id \in OrderIDs : orderMap[id].status = "paid" =>
    \E t \in Transfers : id \in credited[t] /\ chain[t].amount = orderMap[id].actual

\* A transfer pays for one order only, although every poll of its ten minutes
\* sees it again.
OneOrderPerTransfer == \A t \in Transfers : Cardinality(credited[t]) <= 1

\* The callback of an order is called at most once, whether it fails or not,
\* however many polls see the transfer and however many transfers match.
CalledBackOnce == \A id \in OrderIDs : calls[id] <= 1

\* An order is a bill from StoreOrder on.
BillOf(id) ==
  [amounts |-> IF Exists(id) THEN {orderMap[id].actual} ELSE {},
   settledBy |-> {t \in Transfers : id \in credited[t]}]

Desk ==
  INSTANCE Bills WITH
    Amounts <- Int_,
    bills <- [id \in OrderIDs |-> BillOf(id)],
    wallet <- [t \in Transfers |->
                 IF chain[t].kind = "TransferContract" THEN {chain[t].amount} ELSE {}]

\* The payment service implements Bills: through all the steps of a create
\* request and of overlapping polls an order only ever goes from issued to
\* settled, by one transfer of the amount that is its alone.
ImplementsBills == Desk!BillsSpec

\* A transfer of the amount of a linked, pending order is noticed, unless it
\* leaves the window first.
TransferNoticed ==
  \A id \in OrderIDs, t \in Transfers :
    Matches(t, id) ~> (orderMap[id].status # "pending" \/ ~chain[t].recent)
=============================================================================
