------------------------------ MODULE AmountPool ------------------------------
(***************************************************************************)
(* What the interval set of the payment service promises: it is a set of   *)
(* amounts to which amounts are added, and it finds the first amount, from *)
(* a given one upwards, that is not in the set.                            *)
(***************************************************************************)
EXTENDS Integers

CONSTANT Amounts     \* the amounts that may be added

VARIABLES
  taken,      \* the amounts added so far
  latest      \* the amount added last

PoolInit == taken = {} /\ latest = {}

Take(x) == taken' = taken \cup {x} /\ latest' = {x}

PoolNext == \E x \in Amounts : Take(x)

PoolSpec == PoolInit /\ [][PoolNext]_<<taken, latest>>

\* y is the first amount greater than or equal to x that is not in S.
IsFirstMissing(y, x, S) ==
  /\ y >= x
  /\ y \notin S
  /\ \A z \in x..(y - 1) : z \in S
=============================================================================
