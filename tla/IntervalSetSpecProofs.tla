------------------------ MODULE IntervalSetSpecProofs ------------------------
(***************************************************************************)
(* Theorems about the interval set of the payment service, for any width   *)
(* of int and any amounts but the largest int.                             *)
(***************************************************************************)
EXTENDS IntervalSetSpec, IntervalSetProofs

\* No amount is the largest int, whose successor wraps around.
NoLargest == MaxInt \notin Amounts

\* The list is one of intervals, normal, and of amounts that were added.
SetInv ==
  /\ intervals \in Seq(Interval)
  /\ Normal
  /\ Covered(intervals) \subseteq Amounts

LEMMA SetInvInit == NewIntervalSet => SetInv
<1> SUFFICES ASSUME NewIntervalSet PROVE SetInv
  OBVIOUS
<1>1. intervals = <<>> /\ intervals \in Seq(Interval) /\ Len(intervals) = 0 /\ DOMAIN intervals = {}
  BY DEF NewIntervalSet
<1>2. Covered(intervals) = {}
  BY <1>1, CoveredBy
<1> QED
  BY <1>1, <1>2 DEF SetInv, Normal, IsNormal

LEMMA AddKeepsSetInv ==
  ASSUME NoLargest, SetInv, NEW x \in Amounts, Add(x)
  PROVE  SetInv' /\ Covered(intervals') = Covered(intervals) \cup {x}
<1>1. x \in Int_ /\ MaxInt \notin Covered(intervals)
  BY AmountsAssumption DEF NoLargest, SetInv
<1>2. /\ AfterAdd(intervals, x) \in Seq(Interval)
      /\ IsNormal(AfterAdd(intervals, x))
      /\ Covered(AfterAdd(intervals, x)) = Covered(intervals) \cup {x}
  BY <1>1, AddAdds DEF SetInv, Normal
<1> QED
  BY <1>2 DEF Add, SetInv, Normal

LEMMA SetInvNext == NoLargest /\ SetInv /\ [Next]_<<intervals, latest>> => SetInv'
<1> SUFFICES ASSUME NoLargest, SetInv, [Next]_<<intervals, latest>> PROVE SetInv'
  OBVIOUS
<1>1. CASE Next
  BY <1>1, AddKeepsSetInv DEF Next
<1>2. CASE UNCHANGED <<intervals, latest>>
  BY <1>2 DEF SetInv, Normal
<1> QED
  BY <1>1, <1>2

LEMMA SetInvariant ==
  ASSUME NoLargest
  PROVE  Spec => []SetInv
<1>1. SetInv /\ [Next]_<<intervals, latest>> => SetInv'
  BY SetInvNext
<1> QED
  BY <1>1, SetInvInit, PTL DEF Spec

\* The intervals stay sorted and apart, whatever is added in which order.
THEOREM AlwaysNormal ==
  ASSUME NoLargest
  PROVE  Spec => []Normal
<1>1. SetInv => Normal
  BY DEF SetInv
<1>2. Spec => []SetInv
  BY SetInvariant
<1> QED
  BY <1>1, <1>2, PTL

\* NextMissing always returns the first amount that was not added.
THEOREM AlwaysFindsFirstMissing ==
  ASSUME NoLargest
  PROVE  Spec => []FindsFirstMissing
<1>1. SetInv => FindsFirstMissing
  <2> SUFFICES ASSUME SetInv, NEW x \in Int_
               PROVE  Pool!IsFirstMissing(NextMissing(intervals, x), x, Covered(intervals))
    BY DEF FindsFirstMissing
  <2>1. intervals \in Seq(Interval) /\ IsNormal(intervals) /\ MaxInt \notin Covered(intervals)
    BY DEF NoLargest, SetInv, Normal
  <2> QED
    BY <2>1, NextMissingFinds DEF Pool!IsFirstMissing
<1>2. Spec => []SetInv
  BY SetInvariant
<1> QED
  BY <1>1, <1>2, PTL

\* The list of intervals implements the set of amounts: AmountPool.
THEOREM AlwaysImplementsPool ==
  ASSUME NoLargest
  PROVE  Spec => ImplementsPool
<1>1. NewIntervalSet => Pool!PoolInit
  <2> SUFFICES ASSUME NewIntervalSet PROVE Covered(intervals) = {} /\ latest = {}
    BY DEF Pool!PoolInit
  <2>1. intervals \in Seq(Interval) /\ DOMAIN intervals = {}
    BY DEF NewIntervalSet
  <2> QED
    BY <2>1, CoveredBy DEF NewIntervalSet
<1>2. SetInv /\ [Next]_<<intervals, latest>> => [Pool!PoolNext]_<<Covered(intervals), latest>>
  <2> SUFFICES ASSUME SetInv, [Next]_<<intervals, latest>>
               PROVE  [Pool!PoolNext]_<<Covered(intervals), latest>>
    OBVIOUS
  <2>1. ASSUME NEW x \in Amounts, Add(x) PROVE Pool!Take(x)
    BY <2>1, AddKeepsSetInv DEF Pool!Take, Add
  <2>2. CASE Next
    BY <2>1, <2>2 DEF Next, Pool!PoolNext
  <2>3. CASE UNCHANGED <<intervals, latest>>
    BY <2>3
  <2> QED
    BY <2>2, <2>3
<1>3. Spec => []SetInv
  BY SetInvariant
<1> QED
  BY <1>1, <1>2, <1>3, PTL DEF Spec, ImplementsPool, Pool!PoolSpec
=============================================================================
