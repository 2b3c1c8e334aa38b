----------------------------- MODULE IntervalSet -----------------------------
(***************************************************************************)
(* payment/order/interval_set.go: a set of integers kept as a sorted list  *)
(* of intervals.  Slices are indexed from 1.  An int wraps around after    *)
(* MaxInt.                                                                 *)
(***************************************************************************)
EXTENDS Integers, Sequences, FiniteSetsExt

CONSTANT MaxInt      \* the largest value of an int

ASSUME MaxIntAssumption == MaxInt \in Nat \ {0}

MinInt == -MaxInt - 1

Int_ == MinInt..MaxInt

\* The int x + 1, and the int x - 1.
Inc(x) == IF x = MaxInt THEN MinInt ELSE x + 1
Dec(x) == IF x = MinInt THEN MaxInt ELSE x - 1

Interval == [start : Int_, end : Int_]

\* sort.Search for the first interval that starts after x.
Search(arr, x) ==
  Min({i \in DOMAIN arr : arr[i].start > x} \cup {Len(arr) + 1})

\* Mutant: the interval goes to the end.
insertIntervalLast(arr, val) == Append(arr, val)

insertInterval(arr, val) ==
  LET pos == Search(arr, val.start) IN
  SubSeq(arr, 1, pos - 1) \o <<val>> \o SubSeq(arr, pos, Len(arr))

\* arr without its intervals i..j.
Cut(arr, i, j) == SubSeq(arr, 1, i - 1) \o SubSeq(arr, j + 1, Len(arr))

\* Mutant: an interval is not extended to the left.
SmallerFirst(a, b) == a

Larger(a, b)  == IF a > b THEN a ELSE b
Smaller(a, b) == IF a < b THEN a ELSE b

\* What Add(x) makes of the intervals s.
AfterAdd(s, x) ==
  LET pos == Search(s, x)
      mergeLeft == pos > 1 /\ Inc(s[pos - 1].end) >= x
      mergeRight == pos <= Len(s) /\ Dec(s[pos].start) <= x
  IN
  CASE mergeLeft /\ mergeRight ->
         insertInterval(Cut(s, pos - 1, pos),
                        [start |-> s[pos - 1].start, end |-> Larger(s[pos].end, x)])
    [] mergeLeft /\ ~mergeRight ->
         insertInterval(Cut(s, pos - 1, pos - 1),
                        [start |-> s[pos - 1].start, end |-> Larger(s[pos - 1].end, x)])
    [] ~mergeLeft /\ mergeRight ->
         insertInterval(Cut(s, pos, pos),
                        [start |-> Smaller(s[pos].start, x), end |-> s[pos].end])
    [] OTHER -> insertInterval(s, [start |-> x, end |-> x])

\* Mutant: off by one.
NextMissingLast(s, x) ==
  LET pos == Search(s, x) IN
  IF pos > 1 /\ x >= s[pos - 1].start /\ x <= s[pos - 1].end
  THEN s[pos - 1].end
  ELSE x

\* NextMissing(x) on the intervals s.
NextMissing(s, x) ==
  LET pos == Search(s, x) IN
  IF pos > 1 /\ x >= s[pos - 1].start /\ x <= s[pos - 1].end
  THEN Inc(s[pos - 1].end)
  ELSE x

\* The integers that the intervals s stand for.
Covered(s) == UNION {s[i].start..s[i].end : i \in DOMAIN s}

\* The intervals s are sorted, do not overlap and do not even touch.
IsNormal(s) ==
  /\ \A i \in DOMAIN s : s[i].start <= s[i].end
  /\ \A i \in 1..(Len(s) - 1) : s[i].end + 1 < s[i + 1].start
=============================================================================
