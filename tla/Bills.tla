------------------------------- MODULE Bills -------------------------------
(***************************************************************************)
(* What the payment service promises while a process of it runs: bills     *)
(* that share one wallet.  Each is for an amount no other bill is for and  *)
(* is settled once, by a transfer of that amount that settles no other.    *)
(***************************************************************************)
CONSTANTS OrderIDs, Transfers, Amounts

VARIABLES
  bills,     \* id -> the amount it is for and the transfers that settled it
  wallet     \* transfer -> its amount, if it has arrived

NoBill == [amounts |-> {}, settledBy |-> {}]

BillsInit ==
  /\ bills = [id \in OrderIDs |-> NoBill]
  /\ wallet = [t \in Transfers |-> {}]

Issue(id, a) ==
  /\ bills[id] = NoBill
  /\ \A other \in OrderIDs : a \notin bills[other].amounts
  /\ bills' = [bills EXCEPT ![id] = [NoBill EXCEPT !.amounts = {a}]]
  /\ UNCHANGED wallet

Arrive(t, a) ==
  /\ wallet[t] = {}
  /\ wallet' = [wallet EXCEPT ![t] = {a}]
  /\ UNCHANGED bills

Settle(id, t) ==
  /\ wallet[t] # {}
  /\ bills[id].amounts = wallet[t]
  /\ bills[id].settledBy = {}
  /\ \A other \in OrderIDs : t \notin bills[other].settledBy
  /\ bills' = [bills EXCEPT ![id].settledBy = {t}]
  /\ UNCHANGED wallet

\* The next process knows of no bill.
Forget ==
  /\ bills' = [id \in OrderIDs |-> NoBill]
  /\ UNCHANGED wallet

BillsNext ==
  \/ \E id \in OrderIDs : (\E a \in Amounts : Issue(id, a)) \/ \E t \in Transfers : Settle(id, t)
  \/ \E t \in Transfers, a \in Amounts : Arrive(t, a)
  \/ Forget

BillsSpec == BillsInit /\ [][BillsNext]_<<bills, wallet>>
=============================================================================
