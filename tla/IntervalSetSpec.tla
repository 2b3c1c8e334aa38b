--------------------------- MODULE IntervalSetSpec ---------------------------
(***************************************************************************)
(* An IntervalSet to which amounts are added, as the payment service does. *)
(***************************************************************************)
EXTENDS IntervalSet

CONSTANT Amounts     \* the amounts that are added

ASSUME AmountsAssumption == Amounts \subseteq Int_

VARIABLES
  intervals,
  latest         \* history: the amount added last

NewIntervalSet == intervals = <<>> /\ latest = {}

Add(x) == intervals' = AfterAdd(intervals, x) /\ latest' = {x}

Next == \E x \in Amounts : Add(x)

Spec == NewIntervalSet /\ [][Next]_<<intervals, latest>>

-----------------------------------------------------------------------------
Pool == INSTANCE AmountPool WITH taken <- Covered(intervals)

\* The list of intervals implements the set of amounts: an Add adds its amount
\* and nothing else, whatever it merges.
ImplementsPool == Pool!PoolSpec

\* The intervals are sorted, do not overlap and do not even touch, which is
\* what the binary searches and the answer prev.end + 1 rely on.
Normal == IsNormal(intervals)

\* NextMissing returns the first amount from x upwards that was not added.
FindsFirstMissing ==
  \A x \in Int_ :
    Pool!IsFirstMissing(NextMissing(intervals, x), x, Covered(intervals))
=============================================================================
