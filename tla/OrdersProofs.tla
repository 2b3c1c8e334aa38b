---------------------------- MODULE OrdersProofs ----------------------------
(***************************************************************************)
(* Theorems about Orders, for any orders, amounts, transfers and width of  *)
(* int.                                                                    *)
(***************************************************************************)
EXTENDS Orders, IntervalSetProofs, FiniteSetTheorems

LEMMA ZeroIsInt == 0 \in Int_ /\ 0..MaxInt \subseteq Int_
  BY MaxIntAssumption DEF Int_, MinInt

LEMMA NothingHasItsType ==
  /\ NoOrder \in OrderType
  /\ NoCreate \in CreateType
  /\ NoPoll \in PollType
  /\ NoTransaction \in TransactionType
<1>1. <<>> \in Seq(Interval)
  OBVIOUS
<1> QED
  BY <1>1, ZeroIsInt DEF NoOrder, OrderType, NoCreate, CreateType,
       NoPoll, PollType, NoTransaction, TransactionType

\* A process that has just started.
LEMMA FreshType ==
  /\ Fresh.intervals \in Seq(Interval)
  /\ Fresh.orderMap \in [OrderIDs -> OrderType]
  /\ Fresh.ActualAmountToID \in [Int_ -> OrderIDs \cup {NoOrderID}]
  /\ Fresh.create \in [Handlers -> CreateType]
  /\ Fresh.poll \in PollType
  /\ Fresh.credited \in [Transfers -> SUBSET OrderIDs]
  /\ Fresh.calls \in [OrderIDs -> 0..2]
<1>1. Fresh.intervals = <<>> /\ Fresh.poll = NoPoll
  BY DEF Fresh
<1>2. Fresh.orderMap = [id \in OrderIDs |-> NoOrder] /\ Fresh.create = [h \in Handlers |-> NoCreate]
  BY DEF Fresh
<1>3. /\ Fresh.ActualAmountToID = [a \in Int_ |-> NoOrderID]
      /\ Fresh.credited = [t \in Transfers |-> {}]
      /\ Fresh.calls = [id \in OrderIDs |-> 0]
  BY DEF Fresh
<1> QED
  BY <1>1, <1>2, <1>3, NothingHasItsType

LEMMA InitType == Init => TypeOK
  BY FreshType, NothingHasItsType DEF TypeOK, Init

LEMMA CreateStepType ==
  ASSUME TypeOK, NEW h \in Handlers, CreateStep(h)
  PROVE  TypeOK'
<1>0. /\ intervals \in Seq(Interval)
      /\ orderMap \in [OrderIDs -> OrderType]
      /\ ActualAmountToID \in [Int_ -> OrderIDs \cup {NoOrderID}]
      /\ create \in [Handlers -> CreateType]
      /\ create[h] \in CreateType
      /\ poll \in PollType
      /\ chain \in [Transfers -> TransactionType]
      /\ credited \in [Transfers -> SUBSET OrderIDs]
      /\ calls \in [OrderIDs -> 0..2]
  BY DEF TypeOK
<1>h. /\ create[h].actual \in Int_ /\ create[h].amount \in Int_
      /\ create[h].callback \in BOOLEAN
      /\ create[h].local \in Seq(Interval)
      /\ create[h].id \in OrderIDs \cup {NoOrderID}
  BY <1>0 DEF CreateType
<1>1. ASSUME NEW id \in OrderIDs, NEW amount \in Amounts, NEW callback \in BOOLEAN,
             HandleCreateOrder(h, id, amount, callback)
      PROVE  TypeOK'
  <2>1. amount \in Int_ /\ NextMissing(intervals, amount) \in Int_
    BY <1>0, NextMissingType, OrdersAssumption
  <2>2. [NoCreate EXCEPT !.pc = "load", !.id = id, !.amount = amount,
                         !.callback = callback, !.actual = NextMissing(intervals, amount)]
          \in CreateType
    BY <2>1, NothingHasItsType DEF CreateType
  <2>3. create' \in [Handlers -> CreateType]
    BY <1>0, <1>1, <2>2 DEF HandleCreateOrder
  <2> QED
    BY <1>0, <1>1, <2>3 DEF TypeOK, HandleCreateOrder
<1>2. CASE LoadIntervals(h)
  <2>1. AfterAdd(intervals, create[h].actual) \in Seq(Interval)
    BY <1>0, <1>h, AfterAddType
  <2>2. create' \in [Handlers -> CreateType]
    BY <1>0, <1>2, <2>1 DEF LoadIntervals, CreateType
  <2> QED
    BY <1>0, <1>2, <2>2 DEF TypeOK, LoadIntervals
<1>3. CASE StoreIntervals(h)
  <2>e. <<>> \in Seq(Interval)
    OBVIOUS
  <2>1. create' \in [Handlers -> CreateType]
    BY <1>0, <1>3, <2>e DEF StoreIntervals, CreateType
  <2> QED
    BY <1>0, <1>h, <1>3, <2>1 DEF TypeOK, StoreIntervals
<1>4. CASE StoreOrder(h)
  <2>1. create' \in [Handlers -> CreateType]
    BY <1>0, <1>4 DEF StoreOrder, CreateType
  <2>2. orderMap' \in [OrderIDs -> OrderType]
    BY <1>0, <1>h, <1>4 DEF StoreOrder, OrderType
  <2> QED
    BY <1>0, <1>4, <2>1, <2>2 DEF TypeOK, StoreOrder
<1>5. CASE LinkAmount(h)
  <2>1. create' \in [Handlers -> CreateType]
    BY <1>0, <1>5, NothingHasItsType DEF LinkAmount
  <2>2. ActualAmountToID' \in [Int_ -> OrderIDs \cup {NoOrderID}]
    BY <1>0, <1>h, <1>5 DEF LinkAmount
  <2> QED
    BY <1>0, <1>5, <2>1, <2>2 DEF TypeOK, LinkAmount
<1> QED
  BY <1>1, <1>2, <1>3, <1>4, <1>5 DEF CreateStep

LEMMA PollStepType ==
  ASSUME TypeOK, PollStep
  PROVE  TypeOK'
<1>0. /\ intervals \in Seq(Interval)
      /\ orderMap \in [OrderIDs -> OrderType]
      /\ ActualAmountToID \in [Int_ -> OrderIDs \cup {NoOrderID}]
      /\ create \in [Handlers -> CreateType]
      /\ poll \in PollType
      /\ chain \in [Transfers -> TransactionType]
      /\ credited \in [Transfers -> SUBSET OrderIDs]
      /\ calls \in [OrderIDs -> 0..2]
  BY DEF TypeOK
<1>1. CASE FetchTransactions
  <2>1. poll' \in PollType
    BY <1>0, <1>1 DEF FetchTransactions, PollType
  <2> QED
    BY <1>0, <1>1, <2>1 DEF TypeOK, FetchTransactions
<1>2. ASSUME NEW t \in Transfers, SkipTransaction(t)
      PROVE  TypeOK'
  <2>1. poll' \in PollType
    BY <1>0, <1>2 DEF SkipTransaction, PollType
  <2> QED
    BY <1>0, <1>2, <2>1 DEF TypeOK, SkipTransaction
<1>3. ASSUME NEW t \in Transfers, NEW id \in OrderIDs, CreditOrder(t, id)
      PROVE  TypeOK'
  <2>1. poll' \in PollType
    BY <1>0, <1>3 DEF CreditOrder, PollType, TransactionType
  <2>2. orderMap' \in [OrderIDs -> OrderType]
    BY <1>0, <1>3 DEF CreditOrder, OrderType
  <2>3. credited' \in [Transfers -> SUBSET OrderIDs]
    BY <1>0, <1>3 DEF CreditOrder
  <2>4. calls' \in [OrderIDs -> 0..2]
    BY <1>0, <1>3 DEF CreditOrder, Smaller
  <2> QED
    BY <1>0, <1>3, <2>1, <2>2, <2>3, <2>4 DEF TypeOK, CreditOrder
<1>4. ASSUME NEW ok \in BOOLEAN, EndCallback(ok)
      PROVE  TypeOK'
  <2>1. poll' \in PollType
    BY <1>0, <1>4, ZeroIsInt DEF EndCallback, PollType
  <2>2. ActualAmountToID' \in [Int_ -> OrderIDs \cup {NoOrderID}]
    BY <1>0, <1>4 DEF EndCallback
  <2> QED
    BY <1>0, <1>4, <2>1, <2>2 DEF TypeOK, EndCallback
<1>5. CASE EndPoll
  <2>1. poll' \in PollType
    BY <1>5, NothingHasItsType DEF EndPoll, PollType
  <2> QED
    BY <1>0, <1>5, <2>1 DEF TypeOK, EndPoll
<1> QED
  BY <1>1, <1>2, <1>3, <1>4, <1>5 DEF PollStep

LEMMA EnvironmentType ==
  ASSUME TypeOK, Environment
  PROVE  TypeOK'
<1>0. /\ intervals \in Seq(Interval)
      /\ orderMap \in [OrderIDs -> OrderType]
      /\ ActualAmountToID \in [Int_ -> OrderIDs \cup {NoOrderID}]
      /\ create \in [Handlers -> CreateType]
      /\ poll \in PollType
      /\ chain \in [Transfers -> TransactionType]
      /\ credited \in [Transfers -> SUBSET OrderIDs]
      /\ calls \in [OrderIDs -> 0..2]
  BY DEF TypeOK
<1>1. ASSUME NEW t \in Transfers, NEW kind \in {"TransferContract", "other"}, NEW a \in 0..MaxInt,
             Transact(t, kind, a)
      PROVE  TypeOK'
  <2>1. chain' \in [Transfers -> TransactionType]
    BY <1>0, <1>1, ZeroIsInt DEF Transact, TransactionType
  <2> QED
    BY <1>0, <1>1, <2>1 DEF TypeOK, Transact, serviceVars
<1>2. ASSUME NEW t \in Transfers, LeaveWindow(t)
      PROVE  TypeOK'
  <2>1. chain' \in [Transfers -> TransactionType]
    BY <1>0, <1>2 DEF LeaveWindow, TransactionType
  <2> QED
    BY <1>0, <1>2, <2>1 DEF TypeOK, LeaveWindow, serviceVars
<1>3. CASE Restart
  BY <1>0, <1>3, FreshType DEF TypeOK, Restart
<1>4. 0 \in 0..MaxInt
  BY MaxIntAssumption
<1> QED
  BY <1>1, <1>2, <1>3, <1>4 DEF Environment

LEMMA TypeStep == TypeOK /\ [Next]_vars => TypeOK'
<1>1. CASE UNCHANGED vars
  BY <1>1 DEF TypeOK, vars, serviceVars
<1> QED
  BY <1>1, CreateStepType, PollStepType, EnvironmentType DEF Next

\* However many create requests overlap, whatever ids they carry and however
\* often the process restarts, each variable of the payment service holds a
\* value of its type: no order is in a fourth status, and no index of the
\* interval arithmetic leaves its slice.
THEOREM TypeCorrect == Spec => []TypeOK
  BY InitType, TypeStep, PTL DEF Spec

-----------------------------------------------------------------------------
\* What holds however many create requests run at the same time, as long as no
\* request carries the id of an existing order.
IdsInv ==
  /\ \A h \in Handlers : create[h].pc = "idle" <=> create[h].id = NoOrderID
  /\ \A g, h \in Handlers : create[g].id = create[h].id /\ create[h].id # NoOrderID => g = h
  /\ \A h \in Handlers : create[h].pc \in {"load", "store", "order"} => ~Exists(create[h].id)
  /\ \A h \in Handlers : create[h].pc = "link" =>
       /\ Exists(create[h].id)
       /\ orderMap[create[h].id].actual = create[h].actual
  /\ \A id \in OrderIDs : orderMap[id].status = "none" => ~Exists(id)

\* An amount is linked to an order that waits for it.
LinksInv ==
  \A a \in Int_ : ActualAmountToID[a] # NoOrderID =>
    Exists(ActualAmountToID[a]) /\ orderMap[ActualAmountToID[a]].actual = a

\* The orders a transfer has paid were waiting for its amount.
CreditsInv ==
  /\ \A t \in Transfers : \A id \in credited[t] :
       /\ orderMap[id].status = "paid"
       /\ orderMap[id].actual = chain[t].amount
       /\ chain[t].kind = "TransferContract"
  /\ \A id \in OrderIDs : orderMap[id].status = "paid" =>
       \E t \in Transfers : id \in credited[t]
  /\ \A id \in OrderIDs : calls[id] <= 1
  /\ \A id \in OrderIDs : orderMap[id].status # "paid" => calls[id] = 0

OrderInv == TypeOK /\ IdsInv /\ LinksInv /\ CreditsInv

\* An order waits for c, or was paid by it.
Issued(c) == \E id \in OrderIDs : Exists(id) /\ orderMap[id].actual = c

\* The amount c is being given out.
BeingIssued(c) == \E h \in Handlers : create[h].pc = "order" /\ create[h].actual = c

\* The intervals stand for the amounts that are given out, and they grew
\* upwards from the amounts that requests ask for.
IntervalsInv ==
  /\ IsNormal(intervals)
  /\ \A c \in Int_ : c \in Covered(intervals) <=> Issued(c) \/ BeingIssued(c)
  /\ \A c \in Covered(intervals) : \E a \in Amounts : a <= c /\ a..c \subseteq Covered(intervals)

\* What a create request knows about the amount it has picked.
PickedInv(h) ==
  /\ create[h].pc \in {"load", "store"} =>
       /\ MaxInt \notin Covered(intervals)
       /\ create[h].actual \notin Covered(intervals)
       /\ \E a \in Amounts : a <= create[h].actual /\ a..(create[h].actual - 1) \subseteq Covered(intervals)
  /\ create[h].pc = "store" =>
       /\ IsNormal(create[h].local)
       /\ Covered(create[h].local) = Covered(intervals) \cup {create[h].actual}
  /\ create[h].pc = "order" => ~Issued(create[h].actual)

\* One handler at a time has picked an amount and not stored it, and handlers
\* that are about to make an order of their amounts have different ones.
PicksInv ==
  /\ \A g, h \in Handlers :
       create[g].pc \in {"load", "store"} /\ create[h].pc \in {"load", "store"} => g = h
  /\ \A g, h \in Handlers :
       create[g].pc = "order" /\ create[h].pc = "order" /\ create[g].actual = create[h].actual => g = h

AmountsPart ==
  /\ IntervalsInv
  /\ \A h \in Handlers : PickedInv(h)
  /\ PicksInv
  /\ DistinctActualAmounts

AmountsInv == OrderInv /\ AmountsPart

-----------------------------------------------------------------------------
\* The hypotheses of the theorems: requests carry new ids, ...
NewIDs == ReuseIDs = FALSE

\* ... none picks its amount before the amounts picked earlier are stored, ...
PicksApart == PicksOverlap = FALSE

\* ... and no amount is so large that the orders could run out of ints above it.
Room == IsFiniteSet(OrderIDs) /\ \A a \in Amounts : a + Cardinality(OrderIDs) - 1 <= MaxInt

-----------------------------------------------------------------------------
LEMMA NothingIsNothing ==
  /\ NoOrder.status = "none" /\ NoOrder.actual = 0
  /\ NoCreate.pc = "idle" /\ NoCreate.id = NoOrderID
  /\ NoTransaction.kind = "none"
  /\ Fresh.intervals = <<>>
  /\ \A id \in OrderIDs : Fresh.orderMap[id] = NoOrder /\ Fresh.calls[id] = 0
  /\ \A a \in Int_ : Fresh.ActualAmountToID[a] = NoOrderID
  /\ \A h \in Handlers : Fresh.create[h] = NoCreate
  /\ \A t \in Transfers : Fresh.credited[t] = {}
  BY DEF NoOrder, NoCreate, NoTransaction, Fresh

LEMMA FreshInv ==
  ASSUME intervals = Fresh.intervals, orderMap = Fresh.orderMap,
         ActualAmountToID = Fresh.ActualAmountToID, create = Fresh.create,
         credited = Fresh.credited, calls = Fresh.calls
  PROVE  IdsInv /\ LinksInv /\ CreditsInv
<1>1. IdsInv
  BY NothingIsNothing DEF IdsInv, Exists
<1>2. LinksInv
  BY NothingIsNothing DEF LinksInv
<1>3. CreditsInv
  BY NothingIsNothing DEF CreditsInv
<1> QED
  BY <1>1, <1>2, <1>3

LEMMA CreateStepIds ==
  ASSUME OrderInv, NewIDs, NEW h \in Handlers, CreateStep(h)
  PROVE  IdsInv' /\ LinksInv' /\ CreditsInv'
<1>0. /\ orderMap \in [OrderIDs -> OrderType]
      /\ ActualAmountToID \in [Int_ -> OrderIDs \cup {NoOrderID}]
      /\ create \in [Handlers -> CreateType]
      /\ \A g \in Handlers : create[g] \in CreateType /\ create[g].id \in OrderIDs \cup {NoOrderID}
                             /\ create[g].actual \in Int_
      /\ credited \in [Transfers -> SUBSET OrderIDs]
  BY DEF OrderInv, TypeOK, CreateType
<1>i. IdsInv /\ LinksInv /\ CreditsInv
  BY DEF OrderInv
<1>1. ASSUME NEW id \in OrderIDs, NEW amount \in Amounts, NEW callback \in BOOLEAN,
             HandleCreateOrder(h, id, amount, callback)
      PROVE  IdsInv' /\ LinksInv' /\ CreditsInv'
  <2>1. /\ create[h].pc = "idle"
        /\ orderMap[id] = NoOrder
        /\ \A g \in Handlers : create[g].id # id
    BY <1>1 DEF HandleCreateOrder, NewIDs
  <2>2. create'[h].pc = "load" /\ create'[h].id = id
    BY <1>0, <1>1 DEF HandleCreateOrder, NoCreate
  <2>3. \A g \in Handlers : g # h => create'[g] = create[g]
    BY <1>0, <1>1 DEF HandleCreateOrder
  <2>4. orderMap' = orderMap
    BY <1>1 DEF HandleCreateOrder
  <2>5. IdsInv'
    BY <1>0, <1>i, <2>1, <2>2, <2>3, <2>4, OrdersAssumption DEF IdsInv, Exists
  <2>6. LinksInv' /\ CreditsInv'
    BY <1>1, <1>i DEF HandleCreateOrder, LinksInv, CreditsInv, Exists
  <2> QED
    BY <2>5, <2>6
<1>2. CASE LoadIntervals(h)
  <2>1. /\ create[h].pc = "load" /\ create'[h].pc = "store"
        /\ create'[h].id = create[h].id /\ create'[h].actual = create[h].actual
    BY <1>0, <1>2 DEF LoadIntervals, CreateType
  <2>2. \A g \in Handlers : g # h => create'[g] = create[g]
    BY <1>0, <1>2 DEF LoadIntervals
  <2>3. orderMap' = orderMap
    BY <1>2 DEF LoadIntervals
  <2>4. IdsInv'
    BY <1>0, <1>i, <2>1, <2>2, <2>3 DEF IdsInv, Exists
  <2>5. LinksInv' /\ CreditsInv'
    BY <1>2, <1>i DEF LoadIntervals, LinksInv, CreditsInv, Exists
  <2> QED
    BY <2>4, <2>5
<1>3. CASE StoreIntervals(h)
  <2>1. /\ create[h].pc = "store" /\ create'[h].pc = "order"
        /\ create'[h].id = create[h].id /\ create'[h].actual = create[h].actual
    BY <1>0, <1>3 DEF StoreIntervals, CreateType
  <2>2. \A g \in Handlers : g # h => create'[g] = create[g]
    BY <1>0, <1>3 DEF StoreIntervals
  <2>3. orderMap' = orderMap
    BY <1>3 DEF StoreIntervals
  <2>4. IdsInv'
    BY <1>0, <1>i, <2>1, <2>2, <2>3 DEF IdsInv, Exists
  <2>5. LinksInv' /\ CreditsInv'
    BY <1>3, <1>i DEF StoreIntervals, LinksInv, CreditsInv, Exists
  <2> QED
    BY <2>4, <2>5
<1>4. CASE StoreOrder(h)
  <2>0. /\ create[h].pc = "order" /\ create[h].id \in OrderIDs
        /\ orderMap[create[h].id] = NoOrder
    BY <1>0, <1>i, <1>4 DEF StoreOrder, IdsInv, Exists
  <2>1. /\ create'[h].pc = "link"
        /\ create'[h].id = create[h].id /\ create'[h].actual = create[h].actual
    BY <1>0, <1>4 DEF StoreOrder, CreateType
  <2>2. \A g \in Handlers : g # h => create'[g] = create[g]
    BY <1>0, <1>4 DEF StoreOrder
  <2>3. /\ orderMap'[create[h].id].actual = create[h].actual
        /\ orderMap'[create[h].id].status = "pending"
        /\ orderMap'[create[h].id] # NoOrder
    BY <1>0, <1>4, <2>0, NothingIsNothing DEF StoreOrder
  <2>4. \A id \in OrderIDs : id # create[h].id => orderMap'[id] = orderMap[id]
    BY <1>0, <1>4 DEF StoreOrder
  <2>5. IdsInv'
    <3>1. \A g \in Handlers : g # h => create'[g].id # create[h].id
      BY <1>i, <2>0, <2>2, OrdersAssumption DEF IdsInv
    <3> QED
      BY <1>0, <1>i, <2>0, <2>1, <2>2, <2>3, <2>4, <3>1, OrdersAssumption DEF IdsInv, Exists
  <2>6. ActualAmountToID' = ActualAmountToID /\ chain' = chain /\ credited' = credited /\ calls' = calls
    BY <1>4 DEF StoreOrder
  <2>7. LinksInv'
    BY <1>0, <1>i, <2>0, <2>4, <2>6 DEF LinksInv, Exists
  <2>8. CreditsInv'
    BY <1>0, <1>i, <2>0, <2>3, <2>4, <2>6, NothingIsNothing DEF CreditsInv
  <2> QED
    BY <2>5, <2>7, <2>8
<1>5. CASE LinkAmount(h)
  <2>0. /\ create[h].pc = "link" /\ create[h].id \in OrderIDs
        /\ Exists(create[h].id)
        /\ orderMap[create[h].id].actual = create[h].actual
    BY <1>0, <1>i, <1>5 DEF LinkAmount, IdsInv
  <2>1. create'[h].pc = "idle" /\ create'[h].id = NoOrderID
    BY <1>0, <1>5, NothingIsNothing DEF LinkAmount
  <2>2. \A g \in Handlers : g # h => create'[g] = create[g]
    BY <1>0, <1>5 DEF LinkAmount
  <2>3. orderMap' = orderMap
    BY <1>5 DEF LinkAmount
  <2>4. IdsInv'
    BY <1>0, <1>i, <2>1, <2>2, <2>3 DEF IdsInv, Exists
  <2>5. LinksInv'
    BY <1>0, <1>i, <1>5, <2>0, <2>3 DEF LinkAmount, LinksInv, Exists
  <2>6. CreditsInv'
    BY <1>i, <1>5 DEF LinkAmount, CreditsInv
  <2> QED
    BY <2>4, <2>5, <2>6
<1> QED
  BY <1>1, <1>2, <1>3, <1>4, <1>5 DEF CreateStep

\* A transfer credits an order that waits for its amount and was not paid.
LEMMA CreditPays ==
  ASSUME OrderInv, NEW t \in Transfers, NEW id \in OrderIDs, CreditOrder(t, id)
  PROVE  /\ Exists(id)
         /\ orderMap[id].status = "pending"
         /\ orderMap[id].actual = chain[t].amount
         /\ chain[t].kind = "TransferContract"
         /\ calls[id] = 0
         /\ chain[t].amount \in Int_
         /\ orderMap'[id].status = "paid"
         /\ orderMap'[id].actual = orderMap[id].actual
         /\ orderMap'[id] # NoOrder
         /\ \A i \in OrderIDs : i # id => orderMap'[i] = orderMap[i]
         /\ credited'[t] = credited[t] \cup {id}
         /\ \A u \in Transfers : u # t => credited'[u] = credited[u]
<1>0. /\ orderMap \in [OrderIDs -> OrderType]
      /\ orderMap[id] \in OrderType
      /\ chain[t] \in TransactionType
      /\ credited \in [Transfers -> SUBSET OrderIDs]
  BY DEF OrderInv, TypeOK
<1>1. /\ orderMap[id].status = "pending"
      /\ chain[t].kind = "TransferContract"
      /\ ActualAmountToID[chain[t].amount] = id
      /\ id # NoOrderID
  BY DEF CreditOrder, Matches
<1>2. chain[t].amount \in Int_
  BY <1>0 DEF TransactionType
<1>3. Exists(id) /\ orderMap[id].actual = chain[t].amount
  BY <1>1, <1>2 DEF OrderInv, LinksInv
<1>4. calls[id] = 0
  BY <1>1 DEF OrderInv, CreditsInv
<1>5. orderMap'[id].status = "paid" /\ orderMap'[id].actual = orderMap[id].actual
  BY <1>0 DEF CreditOrder, OrderType
<1>6. orderMap'[id] # NoOrder
  BY <1>5, NothingIsNothing
<1>7. \A i \in OrderIDs : i # id => orderMap'[i] = orderMap[i]
  BY <1>0 DEF CreditOrder
<1>8. credited'[t] = credited[t] \cup {id} /\ \A u \in Transfers : u # t => credited'[u] = credited[u]
  BY <1>0 DEF CreditOrder
<1> QED
  BY <1>1, <1>2, <1>3, <1>4, <1>5, <1>6, <1>7, <1>8

LEMMA PollStepIds ==
  ASSUME OrderInv, PollStep
  PROVE  IdsInv' /\ LinksInv' /\ CreditsInv'
<1>i. IdsInv /\ LinksInv /\ CreditsInv
  BY DEF OrderInv
<1>1. CASE UNCHANGED <<orderMap, ActualAmountToID, create, chain, credited, calls>>
  BY <1>1, <1>i DEF IdsInv, LinksInv, CreditsInv, Exists
<1>2. CASE FetchTransactions \/ EndPoll \/ \E t \in Transfers : SkipTransaction(t)
  BY <1>1, <1>2 DEF FetchTransactions, EndPoll, SkipTransaction
<1>3. ASSUME NEW t \in Transfers, NEW id \in OrderIDs, CreditOrder(t, id)
      PROVE  IdsInv' /\ LinksInv' /\ CreditsInv'
  <2>0. /\ ActualAmountToID \in [Int_ -> OrderIDs \cup {NoOrderID}]
        /\ \A h \in Handlers : create[h] \in CreateType /\ create[h].id \in OrderIDs \cup {NoOrderID}
        /\ credited \in [Transfers -> SUBSET OrderIDs]
        /\ calls \in [OrderIDs -> 0..2]
    BY DEF OrderInv, TypeOK, CreateType
  <2>1. /\ Exists(id)
        /\ orderMap[id].status = "pending"
        /\ orderMap[id].actual = chain[t].amount
        /\ chain[t].kind = "TransferContract"
        /\ calls[id] = 0
        /\ orderMap'[id].status = "paid"
        /\ orderMap'[id].actual = orderMap[id].actual
        /\ orderMap'[id] # NoOrder
        /\ \A i \in OrderIDs : i # id => orderMap'[i] = orderMap[i]
        /\ credited'[t] = credited[t] \cup {id}
        /\ \A u \in Transfers : u # t => credited'[u] = credited[u]
    BY <1>3, CreditPays
  <2>2. create' = create /\ ActualAmountToID' = ActualAmountToID /\ chain' = chain
    BY <1>3 DEF CreditOrder
  <2>3. \A i \in OrderIDs : orderMap'[i].actual = orderMap[i].actual /\ (Exists(i)' <=> Exists(i))
    BY <2>1 DEF Exists
  <2>4. IdsInv'
    <3>1. \A i \in OrderIDs : orderMap'[i].status = "none" => ~Exists(i)'
      BY <1>i, <2>1, <2>3 DEF IdsInv
    <3>2. \A h \in Handlers : create[h].pc # "idle" => create[h].id \in OrderIDs
      BY <1>i, <2>0 DEF IdsInv
    <3> QED
      BY <1>i, <2>2, <2>3, <3>1, <3>2 DEF IdsInv
  <2>5. LinksInv'
    BY <1>i, <2>0, <2>2, <2>3 DEF LinksInv
  <2>6. calls'[id] <= 1 /\ \A i \in OrderIDs : i # id => calls'[i] = calls[i]
    BY <1>3, <2>0, <2>1 DEF CreditOrder, Smaller
  <2>7. CreditsInv'
    <3>1. \A u \in Transfers : \A i \in credited'[u] :
            /\ orderMap'[i].status = "paid"
            /\ orderMap'[i].actual = chain'[u].amount
            /\ chain'[u].kind = "TransferContract"
      BY <1>i, <2>0, <2>1, <2>2 DEF CreditsInv
    <3>2. \A i \in OrderIDs : orderMap'[i].status = "paid" => \E u \in Transfers : i \in credited'[u]
      BY <1>i, <2>1 DEF CreditsInv
    <3>3. \A i \in OrderIDs : calls'[i] <= 1
      BY <1>i, <2>6 DEF CreditsInv
    <3>4. \A i \in OrderIDs : orderMap'[i].status # "paid" => calls'[i] = 0
      BY <1>i, <2>1, <2>6 DEF CreditsInv
    <3> QED
      BY <3>1, <3>2, <3>3, <3>4 DEF CreditsInv
  <2> QED
    BY <2>4, <2>5, <2>7
<1>4. ASSUME NEW ok \in BOOLEAN, EndCallback(ok)
      PROVE  IdsInv' /\ LinksInv' /\ CreditsInv'
  <2>1. ActualAmountToID \in [Int_ -> OrderIDs \cup {NoOrderID}]
    BY DEF OrderInv, TypeOK
  <2>2. \A a \in Int_ : ActualAmountToID'[a] # NoOrderID => ActualAmountToID'[a] = ActualAmountToID[a]
    BY <1>4, <2>1 DEF EndCallback
  <2>3. UNCHANGED <<orderMap, create, chain, credited, calls>>
    BY <1>4 DEF EndCallback
  <2> QED
    BY <1>i, <2>2, <2>3 DEF IdsInv, LinksInv, CreditsInv, Exists
<1> QED
  BY <1>2, <1>3, <1>4 DEF PollStep

LEMMA EnvironmentIds ==
  ASSUME OrderInv, Environment
  PROVE  IdsInv' /\ LinksInv' /\ CreditsInv'
<1>i. IdsInv /\ LinksInv /\ CreditsInv
  BY DEF OrderInv
<1>0. chain \in [Transfers -> TransactionType]
  BY DEF OrderInv, TypeOK
<1>1. ASSUME NEW t \in Transfers, NEW kind, NEW a, Transact(t, kind, a) \/ LeaveWindow(t)
      PROVE  IdsInv' /\ LinksInv' /\ CreditsInv'
  <2>1. UNCHANGED <<orderMap, ActualAmountToID, create, credited, calls>>
    BY <1>1 DEF Transact, LeaveWindow, serviceVars
  <2>2. \A u \in Transfers : chain[u].kind = "TransferContract" =>
          chain'[u].kind = chain[u].kind /\ chain'[u].amount = chain[u].amount
    BY <1>0, <1>1, NothingIsNothing DEF Transact, LeaveWindow, TransactionType
  <2>3. IdsInv' /\ LinksInv'
    BY <1>i, <2>1 DEF IdsInv, LinksInv, Exists
  <2>4. CreditsInv'
    BY <1>i, <2>1, <2>2 DEF CreditsInv
  <2> QED
    BY <2>3, <2>4
<1>2. CASE Restart
  <2>1. IdsInv'
    BY <1>2, NothingIsNothing DEF Restart, IdsInv, Exists
  <2>2. LinksInv'
    BY <1>2, NothingIsNothing DEF Restart, LinksInv
  <2>3. CreditsInv'
    BY <1>2, NothingIsNothing DEF Restart, CreditsInv
  <2> QED
    BY <2>1, <2>2, <2>3
<1> QED
  BY <1>1, <1>2 DEF Environment

LEMMA InitOrderInv == Init => OrderInv
  BY InitType, FreshInv DEF Init, OrderInv

LEMMA OrderInvStep ==
  ASSUME NewIDs
  PROVE  OrderInv /\ [Next]_vars => OrderInv'
<1> SUFFICES ASSUME OrderInv, [Next]_vars
             PROVE  OrderInv'
  OBVIOUS
<1>0. TypeOK'
  BY TypeStep DEF OrderInv
<1>1. CASE UNCHANGED vars
  BY <1>0, <1>1 DEF vars, serviceVars, OrderInv, IdsInv, LinksInv, CreditsInv, Exists
<1>2. CASE Next
  BY <1>0, <1>2, CreateStepIds, PollStepIds, EnvironmentIds DEF Next, OrderInv
<1> QED
  BY <1>1, <1>2

LEMMA AlwaysOrderInv ==
  ASSUME NewIDs
  PROVE  Spec => []OrderInv
  BY InitOrderInv, OrderInvStep, PTL DEF Spec

\* Even when create requests overlap and two of them are given the same amount,
\* a paid order was paid by a transfer of its own ActualAmount.
THEOREM AlwaysPaidByItsAmount ==
  ASSUME NewIDs
  PROVE  Spec => []PaidByItsAmount
<1>1. OrderInv => PaidByItsAmount
  BY DEF OrderInv, CreditsInv, PaidByItsAmount
<1>2. Spec => []OrderInv
  BY AlwaysOrderInv
<1> QED
  BY <1>1, <1>2, PTL

\* However many polls see a transfer and however many transfers match an order,
\* CreditOrder calls its callback at most once, even when create requests overlap.
THEOREM AlwaysCalledBackOnce ==
  ASSUME NewIDs
  PROVE  Spec => []CalledBackOnce
<1>1. OrderInv => CalledBackOnce
  BY DEF OrderInv, CreditsInv, CalledBackOnce
<1>2. Spec => []OrderInv
  BY AlwaysOrderInv
<1> QED
  BY <1>1, <1>2, PTL

-----------------------------------------------------------------------------
\* As long as an id is left, the amounts have not reached the largest int: the
\* orders are too few to fill everything from some requested amount upwards.
LEMMA NotFull ==
  ASSUME OrderInv, IntervalsInv, Room, NEW new \in OrderIDs, ~Exists(new),
         \A h \in Handlers : create[h].id # new
  PROVE  MaxInt \notin Covered(intervals)
<1> SUFFICES ASSUME MaxInt \in Covered(intervals)
             PROVE  FALSE
  OBVIOUS
<1>1. PICK a \in Amounts : a <= MaxInt /\ a..MaxInt \subseteq Covered(intervals)
  BY DEF IntervalsInv
<1>2. a \in Int /\ MaxInt \in Int /\ a..MaxInt \subseteq Int_
  BY OrdersAssumption, IntsAreIntegers DEF Int_
<1> DEFINE Holds(id, c) ==
             \/ Exists(id) /\ orderMap[id].actual = c
             \/ \E h \in Handlers :
                  create[h].pc = "order" /\ create[h].id = id /\ create[h].actual = c
           S == {id \in OrderIDs : \E c \in a..MaxInt : Holds(id, c)}
           f == [id \in S |-> CHOOSE c : Holds(id, c)]
<1>3. \A id \in OrderIDs : \A c, d : Holds(id, c) /\ Holds(id, d) => c = d
  <2>1. \A h \in Handlers : create[h].pc = "order" => ~Exists(create[h].id)
    BY DEF OrderInv, IdsInv
  <2>2. \A g, h \in Handlers : create[g].id = create[h].id /\ create[h].id # NoOrderID => g = h
    BY DEF OrderInv, IdsInv
  <2> QED
    BY <2>1, <2>2, OrdersAssumption
<1>4. \A c \in a..MaxInt : \E id \in OrderIDs : Holds(id, c)
  <2>1. ASSUME NEW c \in a..MaxInt, BeingIssued(c)
        PROVE  \E id \in OrderIDs : Holds(id, c)
    <3>1. PICK h \in Handlers : create[h].pc = "order" /\ create[h].actual = c
      BY <2>1 DEF BeingIssued
    <3>2. create[h] \in CreateType
      BY DEF OrderInv, TypeOK
    <3>3. create[h].id \in OrderIDs
      BY <3>1, <3>2 DEF OrderInv, IdsInv, CreateType
    <3> QED
      BY <3>1, <3>3
  <2>2. ASSUME NEW c \in a..MaxInt, Issued(c)
        PROVE  \E id \in OrderIDs : Holds(id, c)
    BY <2>2 DEF Issued
  <2>3. \A c \in a..MaxInt : Issued(c) \/ BeingIssued(c)
    BY <1>1, <1>2 DEF IntervalsInv
  <2> QED
    BY <2>1, <2>2, <2>3
<1>5. ~\E c : Holds(new, c)
  OBVIOUS
<1> HIDE DEF Holds
<1>6. \A id \in S : \A c : Holds(id, c) => f[id] = c
  <2> SUFFICES ASSUME NEW id \in S, NEW c, Holds(id, c)
               PROVE  f[id] = c
    OBVIOUS
  <2>1. Holds(id, CHOOSE d : Holds(id, d))
    OBVIOUS
  <2> QED
    BY <1>3, <2>1
<1>7. f \in Surjection(S, a..MaxInt)
  <2> HIDE DEF f
  <2>1. DOMAIN f = S /\ f = [id \in S |-> f[id]]
    BY DEF f
  <2>2. \A id \in S : f[id] \in a..MaxInt
    BY <1>6
  <2>3. \A c \in a..MaxInt : \E id \in S : f[id] = c
    BY <1>4, <1>6
  <2> QED
    BY <2>1, <2>2, <2>3 DEF Surjection
<1>8. S \subseteq OrderIDs \ {new}
  BY <1>5
<1> HIDE DEF S, f
<1>9. /\ IsFiniteSet(OrderIDs \ {new})
      /\ Cardinality(OrderIDs \ {new}) = Cardinality(OrderIDs) - 1
      /\ Cardinality(OrderIDs) \in Nat
  BY FS_RemoveElement, FS_CardinalityType DEF Room
<1>10. IsFiniteSet(S) /\ Cardinality(S) <= Cardinality(OrderIDs) - 1
  BY <1>8, <1>9, FS_Subset
<1>11. Cardinality(S) \in Nat /\ Cardinality(a..MaxInt) <= Cardinality(S)
  BY <1>7, <1>10, FS_Surjection, FS_CardinalityType
<1>12. Cardinality(a..MaxInt) = MaxInt - a + 1
  BY <1>1, <1>2, FS_Interval
<1>13. a + Cardinality(OrderIDs) - 1 <= MaxInt
  BY DEF Room
<1> QED
  BY <1>2, <1>9, <1>10, <1>11, <1>12, <1>13

\* Steps that leave the amounts alone.
LEMMA AmountsKept ==
  ASSUME AmountsPart, intervals' = intervals, create' = create,
         \A id \in OrderIDs : (Exists(id)' <=> Exists(id)) /\ orderMap'[id].actual = orderMap[id].actual
  PROVE  AmountsPart'
<1>1. \A c : Issued(c)' <=> Issued(c)
  BY DEF Issued
<1>2. \A c : BeingIssued(c)' <=> BeingIssued(c)
  BY DEF BeingIssued
<1>3. IntervalsInv'
  BY <1>1, <1>2 DEF AmountsPart, IntervalsInv
<1>4. \A h \in Handlers : PickedInv(h)'
  BY <1>1 DEF AmountsPart, PickedInv
<1>5. DistinctActualAmounts'
  BY DEF AmountsPart, DistinctActualAmounts
<1>6. PicksInv'
  BY DEF AmountsPart, PicksInv
<1> QED
  BY <1>3, <1>4, <1>5, <1>6 DEF AmountsPart

LEMMA FreshAmounts ==
  intervals = Fresh.intervals /\ orderMap = Fresh.orderMap /\ create = Fresh.create => AmountsPart
<1> SUFFICES ASSUME intervals = Fresh.intervals, orderMap = Fresh.orderMap, create = Fresh.create
             PROVE  AmountsPart
  OBVIOUS
<1>1. intervals = <<>> /\ Covered(intervals) = {} /\ IsNormal(intervals)
  BY NothingIsNothing DEF Covered, IsNormal
<1>2. \A c : ~Issued(c) /\ ~BeingIssued(c)
  BY NothingIsNothing DEF Issued, BeingIssued, Exists
<1>3. IntervalsInv
  BY <1>1, <1>2 DEF IntervalsInv
<1>4. \A h \in Handlers : PickedInv(h)
  BY NothingIsNothing DEF PickedInv
<1>5. DistinctActualAmounts
  BY NothingIsNothing DEF DistinctActualAmounts, Exists
<1>6. PicksInv
  BY NothingIsNothing DEF PicksInv
<1> QED
  BY <1>3, <1>4, <1>5, <1>6 DEF AmountsPart

LEMMA CreateStepAmounts ==
  ASSUME AmountsInv, NewIDs, PicksApart, Room, NEW h \in Handlers, CreateStep(h)
  PROVE  AmountsPart'
<1>0. /\ TypeOK
      /\ intervals \in Seq(Interval)
      /\ orderMap \in [OrderIDs -> OrderType]
      /\ create \in [Handlers -> CreateType]
      /\ create[h] \in CreateType
      /\ create[h].id \in OrderIDs \cup {NoOrderID}
      /\ create[h].actual \in Int_
  BY DEF AmountsInv, OrderInv, TypeOK, CreateType
<1>i. IntervalsInv /\ PickedInv(h) /\ PicksInv /\ DistinctActualAmounts /\ OrderInv
  BY DEF AmountsInv, AmountsPart
<1>p. \A g \in Handlers : PickedInv(g)
  BY DEF AmountsInv, AmountsPart
<1>o. \A g \in Handlers \ {h} : create'[g] = create[g]
  BY <1>0 DEF CreateStep, HandleCreateOrder, LoadIntervals, StoreIntervals, StoreOrder, LinkAmount
<1> DEFINE Other(c) == \E g \in Handlers \ {h} : create[g].pc = "order" /\ create[g].actual = c
<1>b. \A c : BeingIssued(c) <=> Other(c) \/ (create[h].pc = "order" /\ create[h].actual = c)
  BY DEF BeingIssued
<1>c. \A c : BeingIssued(c)' <=> Other(c) \/ (create'[h].pc = "order" /\ create'[h].actual = c)
  BY <1>o DEF BeingIssued
<1>q. ASSUME PickedInv(h)', intervals' = intervals, \A c : Issued(c)' <=> Issued(c)
      PROVE  \A g \in Handlers : PickedInv(g)'
  BY <1>o, <1>p, <1>q DEF PickedInv
<1> HIDE DEF Other
<1>1. ASSUME NEW id \in OrderIDs, NEW amount \in Amounts, NEW callback \in BOOLEAN,
             HandleCreateOrder(h, id, amount, callback)
      PROVE  AmountsPart'
  <2>1. create[h].pc = "idle" /\ ~Exists(id)
    BY <1>1 DEF HandleCreateOrder, NewIDs, Exists
  <2>o. /\ \A g \in Handlers : create[g].id # id
        /\ \A g \in Handlers : create[g].pc \notin {"load", "store"}
    BY <1>1 DEF HandleCreateOrder, NewIDs, PicksApart
  <2>2. MaxInt \notin Covered(intervals)
    BY <1>i, <2>o, <2>1, NotFull
  <2>3. amount \in Int_ /\ IsNormal(intervals)
    BY <1>i, OrdersAssumption DEF IntervalsInv
  <2>4. /\ NextMissing(intervals, amount) >= amount
        /\ NextMissing(intervals, amount) \notin Covered(intervals)
        /\ \A z \in amount..(NextMissing(intervals, amount) - 1) : z \in Covered(intervals)
    BY <1>0, <2>2, <2>3, NextMissingFinds
  <2>5. create'[h].pc = "load" /\ create'[h].actual = NextMissing(intervals, amount)
    BY <1>0, <1>1 DEF HandleCreateOrder, NoCreate
  <2>6. intervals' = intervals /\ orderMap' = orderMap
    BY <1>1 DEF HandleCreateOrder
  <2>7. \A c : Issued(c)' <=> Issued(c)
    BY <2>6 DEF Issued, Exists
  <2>8. IntervalsInv'
    BY <1>i, <1>b, <1>c, <2>1, <2>5, <2>6, <2>7 DEF IntervalsInv
  <2>9. PickedInv(h)'
    <3>1. NextMissing(intervals, amount) \in Int /\ amount \in Int
      BY <1>0, <2>3, NextMissingType, IntsAreIntegers
    <3>2. amount <= NextMissing(intervals, amount)
      BY <2>4, <3>1
    <3> QED
      BY <2>2, <2>4, <2>5, <2>6, <3>2 DEF PickedInv
  <2>10. DistinctActualAmounts'
    BY <1>i, <2>6 DEF DistinctActualAmounts, Exists
  <2>11. PicksInv'
    BY <1>i, <1>o, <2>o, <2>5 DEF PicksInv
  <2> QED
    BY <1>q, <2>6, <2>7, <2>8, <2>9, <2>10, <2>11 DEF AmountsPart
<1>2. CASE LoadIntervals(h)
  <2>1. /\ create[h].pc = "load" /\ create'[h].pc = "store"
        /\ create'[h].actual = create[h].actual
        /\ create'[h].local = AfterAdd(intervals, create[h].actual)
    BY <1>0, <1>2 DEF LoadIntervals, CreateType
  <2>2. intervals' = intervals /\ orderMap' = orderMap
    BY <1>2 DEF LoadIntervals
  <2>3. \A c : Issued(c)' <=> Issued(c)
    BY <2>2 DEF Issued, Exists
  <2>4. IntervalsInv'
    BY <1>i, <1>b, <1>c, <2>1, <2>2, <2>3 DEF IntervalsInv
  <2>5. /\ MaxInt \notin Covered(intervals)
        /\ create[h].actual \notin Covered(intervals)
        /\ \E a \in Amounts : a <= create[h].actual /\ a..(create[h].actual - 1) \subseteq Covered(intervals)
    BY <1>i, <2>1 DEF PickedInv
  <2>6. /\ IsNormal(AfterAdd(intervals, create[h].actual))
        /\ Covered(AfterAdd(intervals, create[h].actual)) = Covered(intervals) \cup {create[h].actual}
    BY <1>0, <1>i, <2>5, AddAdds DEF IntervalsInv
  <2>7. PickedInv(h)'
    BY <2>1, <2>2, <2>5, <2>6 DEF PickedInv
  <2>8. DistinctActualAmounts'
    BY <1>i, <2>2 DEF DistinctActualAmounts, Exists
  <2>9. PicksInv'
    BY <1>i, <1>o, <2>1 DEF PicksInv
  <2> QED
    BY <1>q, <2>2, <2>3, <2>4, <2>7, <2>8, <2>9 DEF AmountsPart
<1>3. CASE StoreIntervals(h)
  <2>1. /\ create[h].pc = "store" /\ create'[h].pc = "order"
        /\ create'[h].actual = create[h].actual
    BY <1>0, <1>3 DEF StoreIntervals, CreateType
  <2>2. intervals' = create[h].local /\ orderMap' = orderMap
    BY <1>3 DEF StoreIntervals
  <2>3. \A c : Issued(c)' <=> Issued(c)
    BY <2>2 DEF Issued, Exists
  <2>4. /\ create[h].actual \notin Covered(intervals)
        /\ \E a \in Amounts : a <= create[h].actual /\ a..(create[h].actual - 1) \subseteq Covered(intervals)
        /\ IsNormal(create[h].local)
        /\ Covered(create[h].local) = Covered(intervals) \cup {create[h].actual}
    BY <1>i, <2>1 DEF PickedInv
  <2>5. Covered(intervals)' = Covered(intervals) \cup {create[h].actual} /\ IsNormal(intervals)'
    BY <2>2, <2>4
  <2>6. \A c \in Int_ : c \in Covered(intervals)' <=> Issued(c)' \/ BeingIssued(c)'
    BY <1>i, <1>b, <1>c, <2>1, <2>3, <2>5 DEF IntervalsInv
  <2>7. ASSUME NEW c \in Covered(intervals)'
        PROVE  \E a \in Amounts : a <= c /\ a..c \subseteq Covered(intervals)'
    <3>1. CASE c \in Covered(intervals)
      BY <1>i, <2>5, <3>1 DEF IntervalsInv
    <3>2. CASE c = create[h].actual
      <4>1. PICK a \in Amounts : a <= c /\ a..(c - 1) \subseteq Covered(intervals)
        BY <2>4, <3>2
      <4>2. a \in Int /\ c \in Int
        BY <1>0, <3>2, OrdersAssumption, IntsAreIntegers
      <4>3. a..c \subseteq (a..(c - 1)) \cup {c}
        BY <4>2
      <4> QED
        BY <2>5, <3>2, <4>1, <4>3
    <3> QED
      BY <2>5, <3>1, <3>2
  <2>8. IntervalsInv'
    BY <2>5, <2>6, <2>7 DEF IntervalsInv
  <2>9. PickedInv(h)'
    BY <1>0, <1>i, <2>1, <2>3, <2>4 DEF PickedInv, IntervalsInv
  <2>10. DistinctActualAmounts'
    BY <1>i, <2>2 DEF DistinctActualAmounts, Exists
  <2>11. \A g \in Handlers : create[g].pc = "order" => create[g].actual # create[h].actual
    <3>1. \A g \in Handlers : create[g] \in CreateType
      BY <1>0
    <3> QED
      BY <1>i, <2>4, <3>1 DEF IntervalsInv, BeingIssued, CreateType
  <2>12. PicksInv'
    BY <1>i, <1>o, <2>1, <2>11 DEF PicksInv
  <2>13. \A g \in Handlers \ {h} : PickedInv(g)'
    BY <1>i, <1>o, <1>p, <2>1, <2>3 DEF PickedInv, PicksInv
  <2> QED
    BY <2>8, <2>9, <2>10, <2>12, <2>13 DEF AmountsPart
<1>4. CASE StoreOrder(h)
  <2>1. /\ create[h].pc = "order" /\ create'[h].pc = "link"
        /\ create'[h].actual = create[h].actual
    BY <1>0, <1>4 DEF StoreOrder, CreateType
  <2>2. create[h].id \in OrderIDs
    BY <1>0, <2>1 DEF AmountsInv, OrderInv, IdsInv
  <2>3. /\ orderMap'[create[h].id].actual = create[h].actual
        /\ orderMap'[create[h].id] # NoOrder
        /\ \A id \in OrderIDs : id # create[h].id => orderMap'[id] = orderMap[id]
    BY <1>0, <1>4, <2>2, NothingIsNothing DEF StoreOrder, Exists
  <2>4. ~Exists(create[h].id) /\ ~Issued(create[h].actual)
    BY <1>i, <2>1 DEF AmountsInv, OrderInv, IdsInv, PickedInv
  <2>5. \A c : Issued(c)' <=> Issued(c) \/ c = create[h].actual
    <3>1. \A id \in OrderIDs : id # create[h].id =>
            (Exists(id)' <=> Exists(id)) /\ orderMap'[id].actual = orderMap[id].actual
      BY <2>3 DEF Exists
    <3>2. ASSUME NEW c, Issued(c)'
          PROVE  Issued(c) \/ c = create[h].actual
      BY <2>3, <3>1, <3>2 DEF Issued
    <3>3. ASSUME NEW c, Issued(c)
          PROVE  Issued(c)'
      <4>1. PICK id \in OrderIDs : Exists(id) /\ orderMap[id].actual = c
        BY <3>3 DEF Issued
      <4> QED
        BY <2>4, <3>1, <4>1 DEF Issued
    <3>4. ASSUME NEW c, c = create[h].actual
          PROVE  Issued(c)'
      BY <2>2, <2>3, <3>4 DEF Issued, Exists
    <3> QED
      BY <3>2, <3>3, <3>4
  <2>6. intervals' = intervals
    BY <1>4 DEF StoreOrder
  <2>7. IntervalsInv'
    BY <1>i, <1>b, <1>c, <2>1, <2>5, <2>6 DEF IntervalsInv
  <2>8. PickedInv(h)'
    BY <2>1 DEF PickedInv
  <2>9. DistinctActualAmounts'
    BY <1>i, <2>2, <2>3, <2>4 DEF DistinctActualAmounts, Issued, Exists
  <2>10. PicksInv'
    BY <1>i, <1>o, <2>1 DEF PicksInv
  <2>11. \A g \in Handlers \ {h} : PickedInv(g)'
    BY <1>i, <1>o, <1>p, <2>1, <2>5, <2>6 DEF PickedInv, PicksInv
  <2> QED
    BY <2>7, <2>8, <2>9, <2>10, <2>11 DEF AmountsPart
<1>5. CASE LinkAmount(h)
  <2>1. create[h].pc = "link" /\ create'[h].pc = "idle"
    BY <1>0, <1>5, NothingIsNothing DEF LinkAmount
  <2>2. intervals' = intervals /\ orderMap' = orderMap
    BY <1>5 DEF LinkAmount
  <2>3. \A c : Issued(c)' <=> Issued(c)
    BY <2>2 DEF Issued, Exists
  <2>4. IntervalsInv'
    BY <1>i, <1>b, <1>c, <2>1, <2>2, <2>3 DEF IntervalsInv
  <2>5. PickedInv(h)'
    BY <2>1 DEF PickedInv
  <2>6. DistinctActualAmounts'
    BY <1>i, <2>2 DEF DistinctActualAmounts, Exists
  <2>7. PicksInv'
    BY <1>i, <1>o, <2>1 DEF PicksInv
  <2> QED
    BY <1>q, <2>2, <2>3, <2>4, <2>5, <2>6, <2>7 DEF AmountsPart
<1> QED
  BY <1>1, <1>2, <1>3, <1>4, <1>5 DEF CreateStep

LEMMA AmountsStep ==
  ASSUME NewIDs, PicksApart, Room
  PROVE  AmountsInv /\ [Next]_vars => AmountsInv'
<1> SUFFICES ASSUME AmountsInv, [Next]_vars
             PROVE  AmountsInv'
  OBVIOUS
<1>0. OrderInv'
  BY OrderInvStep DEF AmountsInv
<1>i. AmountsPart /\ OrderInv
  BY DEF AmountsInv
<1> SUFFICES AmountsPart'
  BY <1>0 DEF AmountsInv
<1>1. CASE UNCHANGED <<intervals, orderMap, create>>
  BY <1>i, <1>1, AmountsKept DEF Exists
<1>2. CASE UNCHANGED vars
  BY <1>1, <1>2 DEF vars, serviceVars
<1>3. ASSUME NEW h \in Handlers, CreateStep(h)
      PROVE  AmountsPart'
  BY <1>3, CreateStepAmounts
<1>4. CASE PollStep
  <2>1. ASSUME NEW t \in Transfers, NEW id \in OrderIDs, CreditOrder(t, id)
        PROVE  AmountsPart'
    <3>1. /\ Exists(id)
          /\ orderMap'[id].actual = orderMap[id].actual
          /\ orderMap'[id] # NoOrder
          /\ \A i \in OrderIDs : i # id => orderMap'[i] = orderMap[i]
      BY <1>i, <2>1, CreditPays
    <3>2. intervals' = intervals /\ create' = create
      BY <2>1 DEF CreditOrder
    <3>3. \A i \in OrderIDs : (Exists(i)' <=> Exists(i)) /\ orderMap'[i].actual = orderMap[i].actual
      BY <3>1 DEF Exists
    <3> QED
      BY <1>i, <3>2, <3>3, AmountsKept
  <2>2. CASE UNCHANGED <<intervals, orderMap, create>>
    BY <1>1, <2>2
  <2> QED
    BY <1>4, <2>1, <2>2
    DEF PollStep, FetchTransactions, SkipTransaction, EndCallback, EndPoll
<1>5. CASE Environment
  <2>1. CASE Restart
    <3>1. (intervals = Fresh.intervals /\ orderMap = Fresh.orderMap /\ create = Fresh.create)'
      BY <2>1 DEF Restart, Fresh
    <3> QED
      BY <3>1, FreshAmounts, PTL
  <2> QED
    BY <1>1, <1>5, <2>1 DEF Environment, Transact, LeaveWindow, serviceVars
<1> QED
  BY <1>2, <1>3, <1>4, <1>5 DEF Next

LEMMA AlwaysAmountsInv ==
  ASSUME NewIDs, PicksApart, Room
  PROVE  Spec => []AmountsInv
<1>1. Init => AmountsInv
  BY InitOrderInv, FreshAmounts DEF Init, AmountsInv
<1> QED
  BY <1>1, AmountsStep, PTL DEF Spec

\* When no request picks its amount before another has stored its own, all orders
\* can share one wallet: NextMissing, Add and the order map never give an amount
\* twice, whatever was asked for, however many requests overlap in their other
\* steps, with the poller and with each other, and however often the process
\* restarts.  (Run shared_amount shows that picks that overlap give one twice.)
THEOREM AlwaysDistinctActualAmounts ==
  ASSUME NewIDs, PicksApart, Room
  PROVE  Spec => []DistinctActualAmounts
<1>1. AmountsInv => DistinctActualAmounts
  BY DEF AmountsInv, AmountsPart
<1>2. Spec => []AmountsInv
  BY AlwaysAmountsInv
<1> QED
  BY <1>1, <1>2, PTL

\* Then a transfer pays for one order only, although every poll of its ten
\* minutes sees it again and credited orders stay linked when the callback fails.
THEOREM AlwaysOneOrderPerTransfer ==
  ASSUME NewIDs, PicksApart, Room
  PROVE  Spec => []OneOrderPerTransfer
<1>1. AmountsInv => OneOrderPerTransfer
  <2> SUFFICES ASSUME AmountsInv, NEW t \in Transfers
               PROVE  Cardinality(credited[t]) <= 1
    BY DEF OneOrderPerTransfer
  <2>0. credited[t] \subseteq OrderIDs
    BY DEF AmountsInv, OrderInv, TypeOK
  <2>1. \A id \in credited[t] : Exists(id) /\ orderMap[id].actual = chain[t].amount
    BY <2>0, NothingIsNothing DEF AmountsInv, OrderInv, CreditsInv, Exists
  <2>2. \A i, j \in credited[t] : i = j
    BY <2>0, <2>1 DEF AmountsInv, AmountsPart, DistinctActualAmounts
  <2>3. CASE credited[t] = {}
    BY <2>3, FS_EmptySet
  <2>4. ASSUME NEW i \in credited[t]
        PROVE  Cardinality(credited[t]) <= 1
    <3>1. credited[t] = {i}
      BY <2>2
    <3> QED
      BY <3>1, FS_Singleton
  <2> QED
    BY <2>3, <2>4
<1>2. Spec => []AmountsInv
  BY AlwaysAmountsInv
<1> QED
  BY <1>1, <1>2, PTL

-----------------------------------------------------------------------------
\* The bills and the wallet of the refinement.
DeskBills == [id \in OrderIDs |-> BillOf(id)]

DeskWallet ==
  [t \in Transfers |-> IF chain[t].kind = "TransferContract" THEN {chain[t].amount} ELSE {}]

\* An order that was not paid was credited by no transfer.
LEMMA UnpaidUncredited ==
  ASSUME OrderInv, NEW id \in OrderIDs, orderMap[id].status # "paid"
  PROVE  BillOf(id).settledBy = {}
  BY DEF OrderInv, CreditsInv, BillOf

LEMMA StoreOrderIssues ==
  ASSUME AmountsInv, NewIDs, NEW h \in Handlers, StoreOrder(h)
  PROVE  Desk!BillsNext
<1> DEFINE id == create[h].id
           a == create[h].actual
<1>0. /\ orderMap \in [OrderIDs -> OrderType]
      /\ create[h] \in CreateType
      /\ create[h].id \in OrderIDs \cup {NoOrderID}
      /\ a \in Int_
  BY DEF AmountsInv, OrderInv, TypeOK, CreateType
<1>1. create[h].pc = "order" /\ id \in OrderIDs /\ ~Exists(id) /\ ~Issued(a)
  BY <1>0 DEF StoreOrder, AmountsInv, AmountsPart, OrderInv, IdsInv, PickedInv
<1>2. /\ orderMap'[id].actual = a
      /\ orderMap'[id] # NoOrder
      /\ \A other \in OrderIDs : other # id => orderMap'[other] = orderMap[other]
      /\ credited' = credited /\ chain' = chain
  BY <1>0, <1>1, NothingIsNothing DEF StoreOrder
<1>3. BillOf(id) = [amounts |-> {}, settledBy |-> {}]
  <2>1. BillOf(id).settledBy = {}
    BY <1>1, UnpaidUncredited, NothingIsNothing DEF AmountsInv, Exists
  <2> QED
    BY <1>1, <2>1 DEF BillOf
<1>4. \A other \in OrderIDs : a \notin BillOf(other).amounts
  BY <1>1 DEF BillOf, Issued
<1>5. \A other \in OrderIDs : other # id => BillOf(other)' = BillOf(other)
  BY <1>2 DEF BillOf, Exists
<1>6. \A i \in OrderIDs : i = id => BillOf(i)' = [amounts |-> {a}, settledBy |-> {}]
  <2> SUFFICES ASSUME NEW i \in OrderIDs, i = id
               PROVE  BillOf(i)' = [amounts |-> {a}, settledBy |-> {}]
    OBVIOUS
  <2>1. Exists(i)'
    BY <1>2 DEF Exists
  <2>2. {t \in Transfers : i \in credited'[t]} = BillOf(i).settledBy
    BY <1>2 DEF BillOf
  <2>3. {t \in Transfers : i \in credited'[t]} = {}
    BY <1>3, <2>2
  <2> QED
    BY <1>2, <2>1, <2>3 DEF BillOf
<1> HIDE DEF id, a
<1>7. DeskBills' = [DeskBills EXCEPT ![id] = [amounts |-> {a}, settledBy |-> {}]]
  BY <1>1, <1>5, <1>6 DEF DeskBills
<1>8. DeskWallet' = DeskWallet
  BY <1>2 DEF DeskWallet
<1>9. Desk!Issue(id, a)
  BY <1>1, <1>3, <1>4, <1>7, <1>8 DEF Desk!Issue, Desk!NoBill, DeskBills, DeskWallet
<1> QED
  BY <1>0, <1>1, <1>9 DEF Desk!BillsNext

LEMMA CreditOrderSettles ==
  ASSUME AmountsInv, NEW t \in Transfers, NEW id \in OrderIDs, CreditOrder(t, id)
  PROVE  Desk!BillsNext
<1>0. /\ credited \in [Transfers -> SUBSET OrderIDs]
      /\ OrderInv
      /\ chain' = chain
  BY DEF AmountsInv, OrderInv, TypeOK, CreditOrder
<1>1. /\ Exists(id)
      /\ orderMap[id].status = "pending"
      /\ orderMap[id].actual = chain[t].amount
      /\ chain[t].kind = "TransferContract"
      /\ orderMap'[id].actual = orderMap[id].actual
      /\ orderMap'[id] # NoOrder
      /\ \A i \in OrderIDs : i # id => orderMap'[i] = orderMap[i]
      /\ credited'[t] = credited[t] \cup {id}
      /\ \A u \in Transfers : u # t => credited'[u] = credited[u]
  BY <1>0, CreditPays
<1>2. BillOf(id) = [amounts |-> {chain[t].amount}, settledBy |-> {}]
  <2>1. BillOf(id).settledBy = {}
    BY <1>0, <1>1, UnpaidUncredited
  <2> QED
    BY <1>1, <2>1 DEF BillOf
<1>3. \A other \in OrderIDs : other \notin credited[t]
  <2> SUFFICES ASSUME NEW other \in OrderIDs, other \in credited[t]
               PROVE  FALSE
    OBVIOUS
  <2>1. orderMap[other].status = "paid" /\ orderMap[other].actual = chain[t].amount
    BY <1>0 DEF OrderInv, CreditsInv
  <2>2. Exists(other)
    BY <2>1, NothingIsNothing DEF Exists
  <2>3. other = id
    BY <1>1, <2>1, <2>2 DEF AmountsInv, AmountsPart, DistinctActualAmounts
  <2> QED
    BY <1>1, <2>1, <2>3
<1>4. \A other \in OrderIDs : t \notin BillOf(other).settledBy
  BY <1>3 DEF BillOf
<1>5. \A other \in OrderIDs : other # id => BillOf(other)' = BillOf(other)
  <2> SUFFICES ASSUME NEW other \in OrderIDs, other # id
               PROVE  BillOf(other)' = BillOf(other)
    OBVIOUS
  <2>1. {u \in Transfers : other \in credited'[u]} = {u \in Transfers : other \in credited[u]}
    BY <1>1
  <2>2. orderMap'[other] = orderMap[other]
    BY <1>1
  <2> QED
    BY <2>1, <2>2 DEF BillOf, Exists
<1>6. BillOf(id)' = [amounts |-> {chain[t].amount}, settledBy |-> {t}]
  <2>1. {u \in Transfers : id \in credited[u]} = {}
    BY <1>2 DEF BillOf
  <2>2. {u \in Transfers : id \in credited'[u]} = {t}
    BY <1>1, <2>1
  <2> QED
    BY <1>1, <2>2 DEF BillOf, Exists
<1>7. DeskBills' = [DeskBills EXCEPT ![id].settledBy = {t}]
  <2>1. DeskBills[id] = [amounts |-> {chain[t].amount}, settledBy |-> {}]
    BY <1>2 DEF DeskBills
  <2>2. [DeskBills[id] EXCEPT !.settledBy = {t}] = [amounts |-> {chain[t].amount}, settledBy |-> {t}]
    BY <2>1
  <2>3. DeskBills' = [DeskBills EXCEPT ![id] = [amounts |-> {chain[t].amount}, settledBy |-> {t}]]
    BY <1>5, <1>6 DEF DeskBills
  <2> QED
    BY <2>2, <2>3
<1>8. DeskWallet' = DeskWallet
  BY <1>0 DEF DeskWallet
<1>9. DeskWallet[t] = {chain[t].amount}
  BY <1>1 DEF DeskWallet
<1>10. Desk!Settle(id, t)
  <2>1. DeskWallet[t] # {} /\ DeskBills[id].amounts = DeskWallet[t] /\ DeskBills[id].settledBy = {}
    BY <1>2, <1>9 DEF DeskBills
  <2>2. \A other \in OrderIDs : t \notin DeskBills[other].settledBy
    BY <1>4 DEF DeskBills
  <2> QED
    BY <1>7, <1>8, <2>1, <2>2, Zenon DEF Desk!Settle, DeskBills, DeskWallet
<1> QED
  BY <1>10 DEF Desk!BillsNext

LEMMA TransactArrives ==
  ASSUME TypeOK, NEW t \in Transfers, NEW kind \in {"TransferContract", "other"}, NEW a \in Int_,
         Transact(t, kind, a)
  PROVE  [Desk!BillsNext]_<<DeskBills, DeskWallet>>
<1>0. chain \in [Transfers -> TransactionType] /\ chain[t].kind = "none"
  BY NothingIsNothing DEF TypeOK, Transact
<1>1. DeskBills' = DeskBills
  BY DEF Transact, serviceVars, DeskBills, BillOf, Exists
<1>2. DeskWallet[t] = {}
  BY <1>0 DEF DeskWallet
<1>3. CASE kind = "TransferContract"
  <2>1. DeskWallet' = [DeskWallet EXCEPT ![t] = {a}]
    BY <1>0, <1>3 DEF Transact, DeskWallet
  <2>2. Desk!Arrive(t, a)
    BY <1>1, <1>2, <2>1 DEF Desk!Arrive, DeskBills, DeskWallet
  <2> QED
    BY <2>2 DEF Desk!BillsNext
<1>4. CASE kind = "other"
  <2>1. DeskWallet' = DeskWallet
    BY <1>0, <1>4 DEF Transact, DeskWallet
  <2> QED
    BY <1>1, <2>1
<1> QED
  BY <1>3, <1>4

LEMMA BillsStep ==
  ASSUME NewIDs
  PROVE  AmountsInv /\ [Next]_vars => [Desk!BillsNext]_<<DeskBills, DeskWallet>>
<1> SUFFICES ASSUME AmountsInv, [Next]_vars
             PROVE  [Desk!BillsNext]_<<DeskBills, DeskWallet>>
  OBVIOUS
<1>1. CASE UNCHANGED <<orderMap, credited, chain>>
  BY <1>1 DEF DeskBills, DeskWallet, BillOf, Exists
<1>2. CASE UNCHANGED vars
  BY <1>1, <1>2 DEF vars, serviceVars
<1>3. ASSUME NEW h \in Handlers, CreateStep(h)
      PROVE  [Desk!BillsNext]_<<DeskBills, DeskWallet>>
  BY <1>1, <1>3, StoreOrderIssues
  DEF CreateStep, HandleCreateOrder, LoadIntervals, StoreIntervals, LinkAmount
<1>4. CASE PollStep
  BY <1>1, <1>4, CreditOrderSettles
  DEF PollStep, FetchTransactions, SkipTransaction, EndCallback, EndPoll
<1>5. CASE Environment
  <2>1. TypeOK /\ chain \in [Transfers -> TransactionType]
    BY DEF AmountsInv, OrderInv, TypeOK
  <2>2. ASSUME NEW t \in Transfers, LeaveWindow(t)
        PROVE  [Desk!BillsNext]_<<DeskBills, DeskWallet>>
    <3>1. \A u \in Transfers : chain'[u].kind = chain[u].kind /\ chain'[u].amount = chain[u].amount
      BY <2>1, <2>2 DEF LeaveWindow, TransactionType
    <3>2. orderMap' = orderMap /\ credited' = credited
      BY <2>2 DEF LeaveWindow, serviceVars
    <3> QED
      BY <3>1, <3>2 DEF DeskBills, DeskWallet, BillOf, Exists
  <2>3. CASE Restart
    <3>1. \A id \in OrderIDs : BillOf(id)' = [amounts |-> {}, settledBy |-> {}]
      BY <2>3, NothingIsNothing DEF Restart, BillOf, Exists
    <3>2. chain' = chain
      BY <2>3 DEF Restart
    <3>3. Desk!Forget
      BY <3>1, <3>2 DEF Desk!Forget, Desk!NoBill
    <3> QED
      BY <3>3 DEF Desk!BillsNext
  <2>4. 0 \in Int_ /\ 0..MaxInt \subseteq Int_
    BY ZeroIsInt
  <2> QED
    BY <1>5, <2>1, <2>2, <2>3, <2>4, TransactArrives DEF Environment
<1> QED
  BY <1>2, <1>3, <1>4, <1>5 DEF Next

\* Then, through all the steps of a create request and of the polls, an order
\* only goes from issued to settled, by one transfer of the amount that is its
\* alone: the payment service implements Bills.
THEOREM AlwaysImplementsBills ==
  ASSUME NewIDs, PicksApart, Room
  PROVE  Spec => ImplementsBills
<1>1. Init => Desk!BillsInit
  <2> SUFFICES ASSUME Init
               PROVE  Desk!BillsInit
    OBVIOUS
  <2>1. \A id \in OrderIDs : BillOf(id) = [amounts |-> {}, settledBy |-> {}]
    BY NothingIsNothing DEF Init, BillOf, Exists
  <2>2. \A t \in Transfers : chain[t].kind = "none"
    BY NothingIsNothing DEF Init
  <2> QED
    BY <2>1, <2>2 DEF Desk!BillsInit, Desk!NoBill
<1>2. AmountsInv /\ [Next]_vars => [Desk!BillsNext]_<<DeskBills, DeskWallet>>
  BY BillsStep
<1>3. Spec => []AmountsInv
  BY AlwaysAmountsInv
<1> QED
  BY <1>1, <1>2, <1>3, PTL DEF Spec, ImplementsBills, Desk!BillsSpec, DeskBills, DeskWallet
=============================================================================
