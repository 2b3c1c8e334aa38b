-------------------------- MODULE IntervalSetProofs --------------------------
(***************************************************************************)
(* What the operations of IntervalSet compute, for every list of intervals *)
(* and every width of int.                                                 *)
(***************************************************************************)
EXTENDS IntervalSet, TLAPS, WellFoundedInduction

\* A set of natural numbers that is not empty has a least element.
LEMMA MinOfNaturals ==
  ASSUME NEW T \in SUBSET Nat, T # {}
  PROVE  Min(T) \in T /\ \A y \in T : Min(T) <= y
<1>1. PICK x \in T : \A y \in T : ~(<<y, x>> \in OpToRel(<, Nat))
  BY WFMin, NatLessThanWellFounded
<1>2. \A y \in T : x <= y
  <2> SUFFICES ASSUME NEW y \in T, y < x PROVE FALSE
    OBVIOUS
  <2>1. <<y, x>> \in {ss \in Nat \X Nat : ss[1] < ss[2]}
    OBVIOUS
  <2>2. <<y, x>> \in OpToRel(<, Nat)
    BY <2>1, Zenon DEF OpToRel
  <2> QED
    BY <1>1, <2>2
<1>3. \E m \in T : \A y \in T : m <= y
  BY <1>2
<1> QED
  BY <1>3 DEF Min

LEMMA IntsAreIntegers == /\ Int_ \subseteq Int
                         /\ MinInt \in Int_ /\ MaxInt \in Int_ /\ MinInt < 0 /\ MaxInt > 0
                         /\ \A x \in Int_ : MinInt <= x /\ x <= MaxInt
  BY MaxIntAssumption DEF Int_, MinInt

LEMMA FieldsAreInts ==
  ASSUME NEW s \in Seq(Interval), NEW i \in DOMAIN s
  PROVE  /\ s[i] \in Interval
         /\ s[i].start \in Int_ /\ s[i].end \in Int_
         /\ s[i].start \in Int /\ s[i].end \in Int
<1>1. s[i] \in Interval
  OBVIOUS
<1> QED
  BY <1>1, IntsAreIntegers DEF Interval

\* sort.Search finds the position before which an interval that starts at x
\* belongs.
LEMMA SearchFinds ==
  ASSUME NEW s \in Seq(Interval), NEW x \in Int
  PROVE  /\ Search(s, x) \in 1..(Len(s) + 1)
         /\ Search(s, x) <= Len(s) => s[Search(s, x)].start > x
         /\ \A i \in 1..(Search(s, x) - 1) : s[i].start <= x
<1> DEFINE T == {i \in DOMAIN s : s[i].start > x} \cup {Len(s) + 1}
<1>1. T \in SUBSET Nat /\ T # {} /\ T \subseteq 1..(Len(s) + 1)
  OBVIOUS
<1>2. Min(T) \in T /\ \A y \in T : Min(T) <= y
  BY <1>1, MinOfNaturals
<1>3. Search(s, x) = Min(T)
  BY DEF Search
<1>4. \A i \in 1..Len(s) : s[i].start \in Int
  BY FieldsAreInts
<1> HIDE DEF T
<1>5. Search(s, x) \in 1..(Len(s) + 1)
  BY <1>1, <1>2, <1>3
<1>6. ASSUME NEW i \in 1..(Search(s, x) - 1) PROVE s[i].start <= x
  <2>1. i \in 1..Len(s) /\ i \notin T
    BY <1>2, <1>3, <1>5
  <2> QED
    BY <2>1, <1>4 DEF T
<1>7. Search(s, x) <= Len(s) => s[Search(s, x)].start > x
  BY <1>2, <1>3 DEF T
<1> QED
  BY <1>5, <1>6, <1>7
-----------------------------------------------------------------------------
\* IsNormal for any two intervals instead of neighbours.
IsApart(s) ==
  /\ \A i \in DOMAIN s : s[i].start <= s[i].end
  /\ \A i, j \in DOMAIN s : i < j => s[i].end + 1 < s[j].start

\* The least j whose interval is too close to an earlier one has a neighbour
\* that is not.
LEMMA NormalIsApart ==
  ASSUME NEW s \in Seq(Interval)
  PROVE  IsNormal(s) <=> IsApart(s)
<1>1. IsApart(s) => IsNormal(s)
  BY DEF IsApart, IsNormal
<1>2. ASSUME IsNormal(s), NEW i \in DOMAIN s
      PROVE  \A j \in DOMAIN s : i < j => s[i].end + 1 < s[j].start
  <2> DEFINE Bad == {j \in DOMAIN s : i < j /\ ~(s[i].end + 1 < s[j].start)}
  <2>1. SUFFICES ASSUME Bad # {} PROVE FALSE
    OBVIOUS
  <2>2. Bad \in SUBSET Nat
    OBVIOUS
  <2> DEFINE j == Min(Bad)
  <2>3. j \in Bad /\ \A k \in Bad : j <= k
    BY <2>1, <2>2, MinOfNaturals
  <2> HIDE DEF j
  <2>4. j \in 1..Len(s) /\ i \in 1..Len(s) /\ i < j /\ ~(s[i].end + 1 < s[j].start)
    BY <2>3
  <2>5. j - 1 \in 1..(Len(s) - 1) /\ j - 1 \notin Bad
    BY <2>3, <2>4
  <2>6. s[j - 1].end + 1 < s[(j - 1) + 1].start /\ (j - 1) + 1 = j
    BY <1>2, <2>4, <2>5 DEF IsNormal
  <2>7. i # j - 1
    BY <2>4, <2>6
  <2>8. i < j - 1 /\ j - 1 \in DOMAIN s
    BY <2>4, <2>5, <2>7
  <2>9. s[i].end + 1 < s[j - 1].start
    BY <2>5, <2>8
  <2>10. s[j - 1].start <= s[j - 1].end
    BY <1>2, <2>8 DEF IsNormal
  <2>11. /\ s[i].end \in Int /\ s[j - 1].start \in Int
         /\ s[j - 1].end \in Int /\ s[j].start \in Int
    BY <2>4, <2>8, FieldsAreInts
  <2> QED
    BY <2>4, <2>6, <2>9, <2>10, <2>11
<1>3. IsNormal(s) => IsApart(s)
  BY <1>2 DEF IsApart, IsNormal
<1> QED
  BY <1>1, <1>3

LEMMA CoveredBy ==
  ASSUME NEW s \in Seq(Interval), NEW c
  PROVE  c \in Covered(s) <=> \E i \in DOMAIN s : c \in s[i].start..s[i].end
  BY DEF Covered

LEMMA Concatenation ==
  ASSUME NEW S, NEW a \in Seq(S), NEW b \in Seq(S)
  PROVE  /\ a \o b \in Seq(S)
         /\ Len(a \o b) = Len(a) + Len(b)
         /\ \A k \in 1..(Len(a) + Len(b)) :
              (a \o b)[k] = IF k <= Len(a) THEN a[k] ELSE b[k - Len(a)]
  OBVIOUS

\* Intervals cut out of a list leave the others in place.
LEMMA CutLeaves ==
  ASSUME NEW s \in Seq(Interval), NEW i \in 1..(Len(s) + 1), NEW j \in (i - 1)..Len(s)
  PROVE  /\ Cut(s, i, j) \in Seq(Interval)
         /\ Len(Cut(s, i, j)) = Len(s) - (j - i + 1)
         /\ \A k \in 1..Len(Cut(s, i, j)) :
              Cut(s, i, j)[k] = IF k < i THEN s[k] ELSE s[k + (j - i + 1)]
<1> DEFINE a == SubSeq(s, 1, i - 1)
           b == SubSeq(s, j + 1, Len(s))
<1>1. a \in Seq(Interval) /\ Len(a) = i - 1 /\ \A k \in 1..(i - 1) : a[k] = s[k]
  OBVIOUS
<1>2. /\ b \in Seq(Interval) /\ Len(b) = Len(s) - j
      /\ \A k \in 1..(Len(s) - j) : b[k] = s[k + j]
  OBVIOUS
<1>3. Cut(s, i, j) = a \o b
  BY DEF Cut
<1> HIDE DEF a, b
<1> DEFINE r == a \o b
<1>4. /\ r \in Seq(Interval)
      /\ Len(r) = Len(a) + Len(b)
      /\ \A k \in 1..(Len(a) + Len(b)) : r[k] = IF k <= Len(a) THEN a[k] ELSE b[k - Len(a)]
  BY <1>1, <1>2, Concatenation
<1> HIDE DEF r
<1>0. Len(s) \in Nat
  OBVIOUS
<1>5. ASSUME NEW k \in 1..Len(r)
      PROVE  r[k] = IF k < i THEN s[k] ELSE s[k + (j - i + 1)]
  <2>1. CASE k < i
    BY <2>1, <1>0, <1>1, <1>2, <1>4
  <2>2. CASE ~(k < i)
    <3>1. k - (i - 1) \in 1..(Len(s) - j) /\ (k - (i - 1)) + j = k + (j - i + 1)
      BY <2>2, <1>0, <1>1, <1>2, <1>4
    <3>2. r[k] = b[k - (i - 1)]
      BY <2>2, <1>0, <1>1, <1>2, <1>4
    <3> QED
      BY <2>2, <3>1, <3>2, <1>2
  <2> QED
    BY <2>1, <2>2
<1> QED
  BY <1>0, <1>1, <1>2, <1>3, <1>4, <1>5 DEF r

\* insertInterval puts the interval in front of those that start later.
LEMMA InsertShifts ==
  ASSUME NEW s \in Seq(Interval), NEW v \in Interval,
         NEW p, p = Search(s, v.start), NEW r, r = insertInterval(s, v)
  PROVE  /\ p \in 1..(Len(s) + 1)
         /\ r \in Seq(Interval)
         /\ Len(r) = Len(s) + 1
         /\ \A k \in 1..(Len(s) + 1) :
              r[k] = IF k < p THEN s[k] ELSE IF k = p THEN v ELSE s[k - 1]
<1>1. v.start \in Int
  BY IntsAreIntegers DEF Interval
<1>2. p \in 1..(Len(s) + 1) /\ Len(s) \in Nat
  BY <1>1, SearchFinds
<1> DEFINE a == SubSeq(s, 1, p - 1)
           b == SubSeq(s, p, Len(s))
           one == <<v>>
<1>3. a \in Seq(Interval) /\ Len(a) = p - 1 /\ \A k \in 1..(p - 1) : a[k] = s[k]
  BY <1>2
<1>4. /\ b \in Seq(Interval) /\ Len(b) = Len(s) - p + 1
      /\ \A k \in 1..(Len(s) - p + 1) : b[k] = s[k + p - 1]
  BY <1>2
<1>5. one \in Seq(Interval) /\ Len(one) = 1 /\ one[1] = v
  OBVIOUS
<1>6. r = (a \o one) \o b
  BY DEF insertInterval
<1> HIDE DEF a, b, one
<1> DEFINE c == a \o one
<1>7. /\ c \in Seq(Interval) /\ Len(c) = Len(a) + Len(one)
      /\ \A k \in 1..(Len(a) + Len(one)) : c[k] = IF k <= Len(a) THEN a[k] ELSE one[k - Len(a)]
  BY <1>3, <1>5, Concatenation
<1> HIDE DEF c
<1>8. /\ c \o b \in Seq(Interval) /\ Len(c \o b) = Len(c) + Len(b)
      /\ \A k \in 1..(Len(c) + Len(b)) : (c \o b)[k] = IF k <= Len(c) THEN c[k] ELSE b[k - Len(c)]
  <2>1. c \in Seq(Interval) /\ b \in Seq(Interval)
    BY <1>4, <1>7
  <2> QED
    BY <2>1, Concatenation
<1>9. r = c \o b
  BY <1>6 DEF c
<1>10. ASSUME NEW k \in 1..(Len(s) + 1)
       PROVE  r[k] = IF k < p THEN s[k] ELSE IF k = p THEN v ELSE s[k - 1]
  <2>0. k \in 1..(Len(c) + Len(b)) /\ Len(c) = p
    BY <1>2, <1>3, <1>4, <1>5, <1>7
  <2>1. CASE k < p
    BY <2>0, <2>1, <1>2, <1>3, <1>5, <1>7, <1>8, <1>9
  <2>2. CASE k = p
    BY <2>0, <2>2, <1>2, <1>3, <1>5, <1>7, <1>8, <1>9
  <2>3. CASE k > p
    <3>1. k - p \in 1..(Len(s) - p + 1) /\ (k - p) + p - 1 = k - 1
      BY <2>0, <2>3, <1>2
    <3>2. r[k] = b[k - p]
      BY <2>0, <2>3, <1>2, <1>8, <1>9
    <3> QED
      BY <2>3, <3>1, <3>2, <1>2, <1>4
  <2> QED
    BY <2>1, <2>2, <2>3, <1>2
<1>11. r \in Seq(Interval) /\ Len(r) = Len(s) + 1
  <2>1. Len(c) = p
    BY <1>2, <1>3, <1>5, <1>7
  <2> QED
    BY <2>1, <1>2, <1>4, <1>8, <1>9
<1> QED
  BY <1>2, <1>10, <1>11
-----------------------------------------------------------------------------
\* An interval that touches none of s can be inserted into s.
LEMMA InsertKeepsApart ==
  ASSUME NEW s \in Seq(Interval), IsApart(s), NEW v \in Interval, v.start <= v.end,
         \A i \in DOMAIN s : s[i].end + 1 < v.start \/ v.end + 1 < s[i].start
  PROVE  /\ insertInterval(s, v) \in Seq(Interval)
         /\ IsApart(insertInterval(s, v))
         /\ Covered(insertInterval(s, v)) = Covered(s) \cup (v.start..v.end)
<1> DEFINE p == Search(s, v.start)
           r == insertInterval(s, v)
<1>0. v.start \in Int /\ v.end \in Int
  BY IntsAreIntegers DEF Interval
<1>1. /\ p \in 1..(Len(s) + 1)
      /\ p <= Len(s) => s[p].start > v.start
      /\ \A i \in 1..(p - 1) : s[i].start <= v.start
  BY <1>0, SearchFinds
<1>2. /\ r \in Seq(Interval) /\ Len(r) = Len(s) + 1
      /\ \A k \in 1..(Len(s) + 1) : r[k] = IF k < p THEN s[k] ELSE IF k = p THEN v ELSE s[k - 1]
  BY InsertShifts
<1> HIDE DEF p, r
<1>3. \A i \in 1..Len(s) : s[i].start \in Int /\ s[i].end \in Int /\ s[i].start <= s[i].end
  BY FieldsAreInts DEF IsApart
<1>4. \A i \in 1..(p - 1) : s[i].end + 1 < v.start
  BY <1>0, <1>1, <1>3
<1>5. ASSUME NEW i \in p..Len(s) PROVE v.end + 1 < s[i].start
  <2>1. p \in 1..Len(s) /\ s[p].start > v.start
    BY <1>1
  <2>2. s[i].start >= s[p].start
    <3>1. CASE i = p
      BY <3>1, <1>3, <2>1
    <3>2. CASE i # p
      <4>1. p < i /\ i \in DOMAIN s /\ p \in DOMAIN s
        BY <3>2, <2>1
      <4>2. s[p].end + 1 < s[i].start
        BY <4>1 DEF IsApart
      <4> QED
        BY <4>1, <4>2, <1>3, <2>1
    <3> QED
      BY <3>1, <3>2
  <2>3. i \in 1..Len(s)
    BY <2>1
  <2> QED
    BY <2>1, <2>2, <2>3, <1>0, <1>3
<1>6. IsApart(r)
  <2>1. ASSUME NEW k \in DOMAIN r PROVE r[k].start <= r[k].end
    <3>0. k \in 1..(Len(s) + 1) /\ Len(s) \in Nat
      BY <1>2
    <3>1. CASE k < p
      BY <3>0, <3>1, <1>1, <1>2, <1>3
    <3>2. CASE k = p
      BY <3>0, <3>2, <1>2
    <3>3. CASE k > p
      <4>1. k - 1 \in 1..Len(s) /\ r[k] = s[k - 1]
        BY <3>0, <3>3, <1>1, <1>2
      <4> QED
        BY <4>1, <1>3
    <3> QED
      BY <3>0, <3>1, <3>2, <3>3, <1>1
  <2>2. ASSUME NEW k \in DOMAIN r, NEW l \in DOMAIN r, k < l
        PROVE  r[k].end + 1 < r[l].start
    <3>0. k \in 1..(Len(s) + 1) /\ l \in 1..(Len(s) + 1) /\ Len(s) \in Nat
      BY <1>2
    <3>1. CASE l < p
      BY <3>0, <3>1, <2>2, <1>1, <1>2 DEF IsApart
    <3>2. CASE l = p
      BY <3>0, <3>2, <2>2, <1>1, <1>2, <1>4
    <3>3. CASE k < p /\ l > p
      <4>1. l - 1 \in DOMAIN s /\ k \in DOMAIN s /\ k < l - 1
        BY <3>0, <3>3, <1>1
      <4> QED
        BY <3>0, <3>3, <4>1, <1>1, <1>2 DEF IsApart
    <3>4. CASE k = p
      <4>1. l - 1 \in p..Len(s) /\ r[l] = s[l - 1] /\ r[k] = v
        BY <3>0, <3>4, <2>2, <1>1, <1>2
      <4> QED
        BY <4>1, <1>5
    <3>5. CASE k > p
      <4>1. l - 1 \in DOMAIN s /\ k - 1 \in DOMAIN s /\ k - 1 < l - 1
        BY <3>0, <3>5, <2>2, <1>1
      <4>2. r[k] = s[k - 1] /\ r[l] = s[l - 1]
        BY <3>0, <3>5, <2>2, <1>1, <1>2
      <4> QED
        BY <4>1, <4>2 DEF IsApart
    <3> QED
      BY <3>0, <3>1, <3>2, <3>3, <3>4, <3>5, <2>2, <1>1
  <2> QED
    BY <2>1, <2>2 DEF IsApart
<1>7. Covered(r) \subseteq Covered(s) \cup (v.start..v.end)
  <2> SUFFICES ASSUME NEW c \in Covered(r), c \notin v.start..v.end PROVE c \in Covered(s)
    OBVIOUS
  <2>1. PICK k \in DOMAIN r : c \in r[k].start..r[k].end
    BY <1>2, CoveredBy
  <2>2. k \in 1..(Len(s) + 1) /\ k # p /\ Len(s) \in Nat
    BY <1>1, <1>2, <2>1
  <2>3. CASE k < p
    <3>1. k \in DOMAIN s /\ r[k] = s[k]
      BY <2>2, <2>3, <1>1, <1>2
    <3> QED
      BY <3>1, <2>1, CoveredBy
  <2>4. CASE k > p
    <3>1. k - 1 \in DOMAIN s /\ r[k] = s[k - 1]
      BY <2>2, <2>4, <1>1, <1>2
    <3> QED
      BY <3>1, <2>1, CoveredBy
  <2> QED
    BY <2>2, <2>3, <2>4, <1>1
<1>8. v.start..v.end \subseteq Covered(r)
  <2>1. p \in DOMAIN r /\ r[p] = v
    BY <1>1, <1>2
  <2> QED
    BY <2>1, <1>2, CoveredBy
<1>9. Covered(s) \subseteq Covered(r)
  <2> SUFFICES ASSUME NEW c \in Covered(s) PROVE c \in Covered(r)
    OBVIOUS
  <2>1. PICK k \in DOMAIN s : c \in s[k].start..s[k].end
    BY CoveredBy
  <2>2. k \in 1..Len(s) /\ Len(s) \in Nat
    OBVIOUS
  <2>3. CASE k < p
    <3>1. k \in DOMAIN r /\ r[k] = s[k]
      BY <2>2, <2>3, <1>1, <1>2
    <3> QED
      BY <3>1, <2>1, <1>2, CoveredBy
  <2>4. CASE k >= p
    <3>1. k + 1 \in 1..(Len(s) + 1) /\ ~(k + 1 < p) /\ k + 1 # p /\ (k + 1) - 1 = k
      BY <2>2, <2>4, <1>1
    <3>2. k + 1 \in DOMAIN r /\ r[k + 1] = s[k]
      BY <3>1, <1>2
    <3> QED
      BY <3>2, <2>1, <1>2, CoveredBy
  <2> QED
    BY <2>2, <2>3, <2>4, <1>1
<1> QED
  BY <1>2, <1>6, <1>7, <1>8, <1>9 DEF r

\* Cut keeps the order of what it leaves, and leaves everything outside i..j.
LEMMA CutKeepsApart ==
  ASSUME NEW s \in Seq(Interval), IsApart(s),
         NEW i \in 1..(Len(s) + 1), NEW j \in (i - 1)..Len(s)
  PROVE  /\ Cut(s, i, j) \in Seq(Interval)
         /\ IsApart(Cut(s, i, j))
         /\ \A k \in DOMAIN Cut(s, i, j) :
              \E m \in DOMAIN s : (m < i \/ m > j) /\ Cut(s, i, j)[k] = s[m]
         /\ \A m \in DOMAIN s :
              (m < i \/ m > j) => \E k \in DOMAIN Cut(s, i, j) : Cut(s, i, j)[k] = s[m]
<1> DEFINE r == Cut(s, i, j)
           d == j - i + 1
<1>1. /\ r \in Seq(Interval) /\ Len(r) = Len(s) - d
      /\ \A k \in 1..Len(r) : r[k] = IF k < i THEN s[k] ELSE s[k + d]
  BY CutLeaves
<1>2. d \in Nat /\ Len(s) \in Nat /\ i \in Nat /\ j \in Nat /\ d = j - i + 1
  OBVIOUS
<1> HIDE DEF r, d
<1> DEFINE M(k) == IF k < i THEN k ELSE k + d
<1>3. ASSUME NEW k \in DOMAIN r
      PROVE  M(k) \in DOMAIN s /\ (M(k) < i \/ M(k) > j) /\ r[k] = s[M(k)]
  <2>1. k \in 1..Len(r)
    BY <1>1
  <2>2. CASE k < i
    BY <2>1, <2>2, <1>1, <1>2
  <2>3. CASE ~(k < i)
    <3>1. k + d \in DOMAIN s /\ k + d > j
      BY <2>1, <2>3, <1>1, <1>2
    <3> QED
      BY <2>1, <2>3, <3>1, <1>1
  <2> QED
    BY <2>2, <2>3
<1>4. \A k, l \in DOMAIN r : k < l => M(k) < M(l)
  BY <1>1, <1>2
<1>5. ASSUME NEW m \in DOMAIN s, m < i \/ m > j
      PROVE  \E k \in DOMAIN r : r[k] = s[m]
  <2>1. CASE m < i
    <3>1. m \in DOMAIN r /\ r[m] = s[m]
      BY <2>1, <1>1, <1>2
    <3> QED
      BY <3>1
  <2>2. CASE m > j
    <3>1. m - d \in 1..Len(r) /\ ~(m - d < i) /\ (m - d) + d = m
      BY <2>2, <1>1, <1>2
    <3>2. m - d \in DOMAIN r /\ r[m - d] = s[m]
      BY <3>1, <1>1
    <3> QED
      BY <3>2
  <2> QED
    BY <1>5, <2>1, <2>2
<1> HIDE DEF M
<1>6. IsApart(r)
  BY <1>3, <1>4 DEF IsApart
<1>7. \A k \in DOMAIN r : \E m \in DOMAIN s : (m < i \/ m > j) /\ r[k] = s[m]
  BY <1>3
<1> QED
  BY <1>1, <1>5, <1>6, <1>7 DEF r
-----------------------------------------------------------------------------
\* v stands for the intervals i..j of s and the integer x, and touches no other.
Replaces(s, i, j, v, x) ==
  /\ v \in Interval
  /\ v.start <= v.end
  /\ \A m \in DOMAIN s :
       (m < i \/ m > j) => s[m].end + 1 < v.start \/ v.end + 1 < s[m].start
  /\ \A c \in Int : c \in v.start..v.end <=>
       c = x \/ \E m \in DOMAIN s : m >= i /\ m <= j /\ c \in s[m].start..s[m].end

LEMMA ReplacedAdds ==
  ASSUME NEW s \in Seq(Interval), IsApart(s), NEW x \in Int,
         NEW i \in 1..(Len(s) + 1), NEW j \in (i - 1)..Len(s),
         NEW v, Replaces(s, i, j, v, x)
  PROVE  /\ insertInterval(Cut(s, i, j), v) \in Seq(Interval)
         /\ IsApart(insertInterval(Cut(s, i, j), v))
         /\ Covered(insertInterval(Cut(s, i, j), v)) = Covered(s) \cup {x}
<1> DEFINE r == Cut(s, i, j)
<1>1. /\ r \in Seq(Interval)
      /\ IsApart(r)
      /\ \A k \in DOMAIN r : \E m \in DOMAIN s : (m < i \/ m > j) /\ r[k] = s[m]
      /\ \A m \in DOMAIN s : (m < i \/ m > j) => \E k \in DOMAIN r : r[k] = s[m]
  BY CutKeepsApart
<1> HIDE DEF r
<1>2. v \in Interval /\ v.start <= v.end
  BY DEF Replaces
<1>3. \A k \in DOMAIN r : r[k].end + 1 < v.start \/ v.end + 1 < r[k].start
  BY <1>1 DEF Replaces
<1>4. /\ insertInterval(r, v) \in Seq(Interval)
      /\ IsApart(insertInterval(r, v))
      /\ Covered(insertInterval(r, v)) = Covered(r) \cup (v.start..v.end)
  BY <1>1, <1>2, <1>3, InsertKeepsApart
<1>5. ASSUME NEW c PROVE c \in Covered(r) \cup (v.start..v.end) <=> c \in Covered(s) \cup {x}
  <2>1. CASE c \notin Int
    <3>1. \A t \in Seq(Interval) : c \notin Covered(t)
      BY <2>1, CoveredBy
    <3> QED
      BY <2>1, <3>1, <1>1
  <2>2. CASE c \in Int
    <3>1. c \in v.start..v.end <=>
            c = x \/ \E m \in DOMAIN s : m >= i /\ m <= j /\ c \in s[m].start..s[m].end
      BY <2>2 DEF Replaces
    <3>2. c \in Covered(r) => c \in Covered(s)
      BY <1>1, CoveredBy
    <3>3. ASSUME c \in Covered(s), c \notin Covered(r)
          PROVE  \E m \in DOMAIN s : m >= i /\ m <= j /\ c \in s[m].start..s[m].end
      <4>1. PICK m \in DOMAIN s : c \in s[m].start..s[m].end
        BY <3>3, CoveredBy
      <4>2. ~(m < i \/ m > j)
        BY <3>3, <4>1, <1>1, CoveredBy
      <4> QED
        BY <4>1, <4>2
    <3>4. (\E m \in DOMAIN s : m >= i /\ m <= j /\ c \in s[m].start..s[m].end)
            => c \in Covered(s)
      BY CoveredBy
    <3> QED
      BY <3>1, <3>2, <3>3, <3>4
  <2> QED
    BY <2>1, <2>2
<1> QED
  BY <1>4, <1>5 DEF r

\* Where the intervals s end and start.
LEMMA FieldsBounded ==
  ASSUME NEW s \in Seq(Interval), IsNormal(s), MaxInt \notin Covered(s), NEW i \in DOMAIN s
  PROVE  /\ s[i].start \in Int /\ s[i].end \in Int
         /\ s[i].start \in Int_ /\ s[i].end \in Int_
         /\ s[i].start <= s[i].end
         /\ s[i].end < MaxInt
<1>1. /\ s[i].start \in Int /\ s[i].end \in Int
      /\ s[i].start \in Int_ /\ s[i].end \in Int_
      /\ s[i].start <= s[i].end
  BY FieldsAreInts DEF IsNormal
<1>2. s[i].end \in Covered(s)
  BY <1>1, CoveredBy
<1> QED
  BY <1>1, <1>2, IntsAreIntegers

\* Add adds its integer and nothing else, and keeps the intervals sorted and
\* apart, as long as no interval ends at MaxInt, where end + 1 wraps around.
LEMMA AddAdds ==
  ASSUME NEW s \in Seq(Interval), IsNormal(s), MaxInt \notin Covered(s), NEW x \in Int_
  PROVE  /\ AfterAdd(s, x) \in Seq(Interval)
         /\ IsNormal(AfterAdd(s, x))
         /\ Covered(AfterAdd(s, x)) = Covered(s) \cup {x}
<1> DEFINE pos == Search(s, x)
           mergeLeft == pos > 1 /\ Inc(s[pos - 1].end) >= x
           mergeRight == pos <= Len(s) /\ Dec(s[pos].start) <= x
<1>0. x \in Int /\ MinInt <= x /\ x <= MaxInt /\ MaxInt \in Int /\ MinInt \in Int
  BY IntsAreIntegers
<1>1. IsApart(s)
  BY NormalIsApart
<1>2. /\ pos \in 1..(Len(s) + 1)
      /\ pos <= Len(s) => s[pos].start > x
      /\ \A i \in 1..(pos - 1) : s[i].start <= x
  BY <1>0, SearchFinds
<1>3. \A i \in 1..Len(s) : /\ s[i].start \in Int /\ s[i].end \in Int
                          /\ s[i].start \in Int_ /\ s[i].end \in Int_
                          /\ s[i].start <= s[i].end
                          /\ s[i].end < MaxInt
  BY FieldsBounded
<1>4. pos > 1 => (Inc(s[pos - 1].end) >= x <=> s[pos - 1].end + 1 >= x)
  BY <1>2, <1>3 DEF Inc
<1>5. pos <= Len(s) => (Dec(s[pos].start) <= x <=> s[pos].start = x + 1)
  BY <1>0, <1>2, <1>3 DEF Dec
<1>6. Len(s) \in Nat
  OBVIOUS
<1>7. \A i, j \in 1..Len(s) : i < j => s[i].end + 1 < s[j].start
  BY <1>1 DEF IsApart
<1>la. ASSUME NEW i \in 1..Len(s), NEW m \in 1..Len(s), m = i \/ i < m, x + 1 < s[i].start
       PROVE  x + 1 < s[m].start
  <2>1. CASE m = i
    BY <2>1, <1>la
  <2>2. CASE i < m
    <3>1. s[i].end + 1 < s[m].start /\ s[i].start <= s[i].end
      BY <2>2, <1>3, <1>7
    <3> QED
      BY <3>1, <1>la, <1>0, <1>3
  <2> QED
    BY <1>la, <2>1, <2>2
<1>ea. ASSUME NEW i \in 1..Len(s), NEW m \in 1..Len(s), m = i \/ m < i, s[i].end + 1 < x
       PROVE  s[m].end + 1 < x
  <2>1. CASE m = i
    BY <2>1, <1>ea
  <2>2. CASE m < i
    <3>1. s[m].end + 1 < s[i].start /\ s[i].start <= s[i].end
      BY <2>2, <1>3, <1>7
    <3> QED
      BY <3>1, <1>ea, <1>0, <1>3
  <2> QED
    BY <1>ea, <2>1, <2>2
<1> HIDE DEF pos
<1>8. CASE mergeLeft /\ mergeRight
  <2> DEFINE v == [start |-> s[pos - 1].start, end |-> Larger(s[pos].end, x)]
  <2>1. /\ pos - 1 \in 1..Len(s) /\ pos \in 1..Len(s)
        /\ s[pos].start = x + 1 /\ s[pos - 1].end = x - 1
    <3>1. pos - 1 \in 1..Len(s) /\ pos \in 1..Len(s) /\ pos > 1 /\ pos <= Len(s)
      BY <1>2, <1>6, <1>8
    <3>2. s[pos].start = x + 1 /\ s[pos - 1].end + 1 >= x
      BY <3>1, <1>4, <1>5, <1>8
    <3>3. s[pos - 1].end + 1 < s[pos].start
      BY <3>1, <1>7
    <3> QED
      BY <3>1, <3>2, <3>3, <1>0, <1>3
  <2>2. v = [start |-> s[pos - 1].start, end |-> s[pos].end]
    BY <2>1, <1>0, <1>3 DEF Larger
  <2>3. Replaces(s, pos - 1, pos, v, x)
    <3>1. v \in Interval /\ v.start <= v.end
      BY <2>1, <2>2, <1>0, <1>3 DEF Interval
    <3>2. ASSUME NEW m \in DOMAIN s, m < pos - 1 \/ m > pos
          PROVE  s[m].end + 1 < v.start \/ v.end + 1 < s[m].start
      BY <3>2, <2>1, <2>2, <1>3, <1>7
    <3>3. ASSUME NEW c \in Int
          PROVE  c \in v.start..v.end <=>
                   c = x \/ \E m \in DOMAIN s : m >= pos - 1 /\ m <= pos /\ c \in s[m].start..s[m].end
      <4>1. \A m \in DOMAIN s : m >= pos - 1 /\ m <= pos => m = pos - 1 \/ m = pos
        BY <2>1
      <4>2. c \in v.start..v.end <=>
              c = x \/ c \in s[pos - 1].start..s[pos - 1].end \/ c \in s[pos].start..s[pos].end
        BY <2>1, <2>2, <1>0, <1>3
      <4> QED
        BY <4>1, <4>2, <2>1
    <3> QED
      BY <3>1, <3>2, <3>3 DEF Replaces
  <2>4. AfterAdd(s, x) = insertInterval(Cut(s, pos - 1, pos), v)
    BY <1>8 DEF AfterAdd, pos
  <2>5. pos - 1 \in 1..(Len(s) + 1) /\ pos \in ((pos - 1) - 1)..Len(s)
    BY <2>1, <1>6
  <2> HIDE DEF v
  <2> QED
    BY <1>0, <1>1, <2>3, <2>4, <2>5, ReplacedAdds, NormalIsApart
<1>9. CASE mergeLeft /\ ~mergeRight
  <2> DEFINE v == [start |-> s[pos - 1].start, end |-> Larger(s[pos - 1].end, x)]
  <2>1. /\ pos - 1 \in 1..Len(s)
        /\ s[pos - 1].start <= x /\ s[pos - 1].end + 1 >= x
        /\ pos <= Len(s) => s[pos].start > x + 1
    BY <1>0, <1>2, <1>3, <1>4, <1>5, <1>6, <1>9
  <2>2. /\ v.start = s[pos - 1].start
        /\ v.end \in Int_ /\ v.end \in Int
        /\ \/ v.end = x /\ s[pos - 1].end <= x
           \/ v.end = s[pos - 1].end /\ x <= s[pos - 1].end
    BY <2>1, <1>0, <1>3 DEF Larger
  <2>3. Replaces(s, pos - 1, pos - 1, v, x)
    <3>1. v \in Interval /\ v.start <= v.end
      BY <2>1, <2>2, <1>0, <1>3 DEF Interval
    <3>2. ASSUME NEW m \in DOMAIN s, m < pos - 1 \/ m > pos - 1
          PROVE  s[m].end + 1 < v.start \/ v.end + 1 < s[m].start
      <4>1. CASE m < pos - 1
        BY <4>1, <2>1, <2>2, <1>7
      <4>2. CASE m > pos - 1
        <5>1. s[pos - 1].end + 1 < s[m].start
          BY <4>2, <2>1, <1>7
        <5>2. pos \in 1..Len(s) /\ (m = pos \/ pos < m)
          BY <4>2, <2>1, <1>2
        <5>3. x + 1 < s[m].start
          BY <5>2, <2>1, <1>la
        <5> QED
          BY <5>1, <5>3, <2>2
      <4> QED
        BY <3>2, <4>1, <4>2
    <3>3. ASSUME NEW c \in Int
          PROVE  c \in v.start..v.end <=>
                   c = x \/ \E m \in DOMAIN s : m >= pos - 1 /\ m <= pos - 1 /\ c \in s[m].start..s[m].end
      <4>1. \A m \in DOMAIN s : m >= pos - 1 /\ m <= pos - 1 => m = pos - 1
        BY <2>1
      <4>2. c \in v.start..v.end <=> c = x \/ c \in s[pos - 1].start..s[pos - 1].end
        BY <2>1, <2>2, <1>0, <1>3
      <4> QED
        BY <4>1, <4>2, <2>1
    <3> QED
      BY <3>1, <3>2, <3>3 DEF Replaces
  <2>4. AfterAdd(s, x) = insertInterval(Cut(s, pos - 1, pos - 1), v)
    BY <1>9 DEF AfterAdd, pos
  <2>5. pos - 1 \in 1..(Len(s) + 1) /\ pos - 1 \in ((pos - 1) - 1)..Len(s)
    BY <2>1, <1>6
  <2> HIDE DEF v
  <2> QED
    BY <1>0, <1>1, <2>3, <2>4, <2>5, ReplacedAdds, NormalIsApart
<1>10. CASE ~mergeLeft /\ mergeRight
  <2> DEFINE v == [start |-> Smaller(s[pos].start, x), end |-> s[pos].end]
  <2>1. /\ pos \in 1..Len(s) /\ s[pos].start = x + 1
        /\ pos > 1 => s[pos - 1].end + 1 < x
    BY <1>0, <1>2, <1>3, <1>4, <1>5, <1>6, <1>10
  <2>2. v = [start |-> x, end |-> s[pos].end]
    BY <2>1, <1>0, <1>3 DEF Smaller
  <2>3. Replaces(s, pos, pos, v, x)
    <3>1. v \in Interval /\ v.start <= v.end
      BY <2>1, <2>2, <1>0, <1>3 DEF Interval
    <3>2. ASSUME NEW m \in DOMAIN s, m < pos \/ m > pos
          PROVE  s[m].end + 1 < v.start \/ v.end + 1 < s[m].start
      <4>1. CASE m < pos
        <5>1. pos - 1 \in 1..Len(s) /\ (m = pos - 1 \/ m < pos - 1)
          BY <4>1, <2>1
        <5> QED
          BY <4>1, <5>1, <2>1, <2>2, <1>ea
      <4>2. CASE m > pos
        BY <4>2, <2>1, <2>2, <1>7
      <4> QED
        BY <3>2, <4>1, <4>2
    <3>3. ASSUME NEW c \in Int
          PROVE  c \in v.start..v.end <=>
                   c = x \/ \E m \in DOMAIN s : m >= pos /\ m <= pos /\ c \in s[m].start..s[m].end
      <4>1. \A m \in DOMAIN s : m >= pos /\ m <= pos => m = pos
        BY <2>1
      <4>2. c \in v.start..v.end <=> c = x \/ c \in s[pos].start..s[pos].end
        BY <2>1, <2>2, <1>0, <1>3
      <4> QED
        BY <4>1, <4>2, <2>1
    <3> QED
      BY <3>1, <3>2, <3>3 DEF Replaces
  <2>4. AfterAdd(s, x) = insertInterval(Cut(s, pos, pos), v)
    BY <1>10 DEF AfterAdd, pos
  <2>5. pos \in 1..(Len(s) + 1) /\ pos \in (pos - 1)..Len(s)
    BY <2>1, <1>6
  <2> HIDE DEF v
  <2> QED
    BY <1>0, <1>1, <2>3, <2>4, <2>5, ReplacedAdds, NormalIsApart
<1>11. CASE ~mergeLeft /\ ~mergeRight
  <2> DEFINE v == [start |-> x, end |-> x]
  <2>1. /\ pos > 1 => s[pos - 1].end + 1 < x
        /\ pos <= Len(s) => s[pos].start > x + 1
    BY <1>0, <1>2, <1>3, <1>4, <1>5, <1>6, <1>11
  <2>2. v \in Interval /\ v.start <= v.end /\ v.start = x /\ v.end = x
    BY <1>0 DEF Interval
  <2>3. ASSUME NEW m \in DOMAIN s
        PROVE  s[m].end + 1 < v.start \/ v.end + 1 < s[m].start
    <3>1. CASE m < pos
      <4>1. pos - 1 \in 1..Len(s) /\ (m = pos - 1 \/ m < pos - 1)
        BY <3>1, <1>2, <1>6
      <4> QED
        BY <3>1, <4>1, <2>1, <2>2, <1>2, <1>ea
    <3>2. CASE m >= pos
      <4>1. pos \in 1..Len(s) /\ (m = pos \/ pos < m)
        BY <3>2, <1>2, <1>6
      <4> QED
        BY <3>2, <4>1, <2>1, <2>2, <1>la
    <3> QED
      BY <3>1, <3>2, <1>2
  <2>4. AfterAdd(s, x) = insertInterval(s, v)
    BY <1>11 DEF AfterAdd, pos
  <2>5. v.start..v.end = {x}
    BY <2>2, <1>0
  <2> HIDE DEF v
  <2> QED
    BY <1>1, <2>2, <2>3, <2>4, <2>5, InsertKeepsApart, NormalIsApart
<1> QED
  BY <1>8, <1>9, <1>10, <1>11
\* NextMissing returns the first integer from x upwards that s does not cover.
LEMMA NextMissingFinds ==
  ASSUME NEW s \in Seq(Interval), IsNormal(s), MaxInt \notin Covered(s), NEW x \in Int_
  PROVE  /\ NextMissing(s, x) \in Int_
         /\ NextMissing(s, x) >= x
         /\ NextMissing(s, x) \notin Covered(s)
         /\ \A z \in x..(NextMissing(s, x) - 1) : z \in Covered(s)
<1> DEFINE pos == Search(s, x)
           y == NextMissing(s, x)
           inside == pos > 1 /\ x >= s[pos - 1].start /\ x <= s[pos - 1].end
<1>0. x \in Int /\ MinInt <= x /\ x <= MaxInt /\ MaxInt \in Int /\ MinInt \in Int
  BY IntsAreIntegers
<1>1. \A i, j \in 1..Len(s) : i < j => s[i].end + 1 < s[j].start
  BY NormalIsApart DEF IsApart
<1>2. /\ pos \in 1..(Len(s) + 1)
      /\ pos <= Len(s) => s[pos].start > x
      /\ \A i \in 1..(pos - 1) : s[i].start <= x
  BY <1>0, SearchFinds
<1>3. \A i \in 1..Len(s) : /\ s[i].start \in Int /\ s[i].end \in Int
                          /\ s[i].start \in Int_ /\ s[i].end \in Int_
                          /\ s[i].start <= s[i].end
                          /\ s[i].end < MaxInt
  BY FieldsBounded
<1>4. Len(s) \in Nat
  OBVIOUS
<1>5. inside => y = Inc(s[pos - 1].end)
  BY DEF NextMissing
<1>6. ~inside => y = x
  BY DEF NextMissing
<1> HIDE DEF pos, y
<1>7. CASE inside
  <2>1. pos - 1 \in 1..Len(s)
    BY <1>2, <1>4, <1>7
  <2>2. y = s[pos - 1].end + 1
    BY <2>1, <1>0, <1>3, <1>5, <1>7 DEF Inc
  <2>3. y \in Int_ /\ y >= x
    BY <2>1, <2>2, <1>0, <1>3, <1>7, MaxIntAssumption DEF Int_, MinInt
  <2>4. y \notin Covered(s)
    <3> SUFFICES ASSUME NEW m \in 1..Len(s), y \in s[m].start..s[m].end PROVE FALSE
      BY CoveredBy
    <3>1. CASE m < pos - 1
      <4>1. s[m].end + 1 < s[pos - 1].start
        BY <3>1, <2>1, <1>1
      <4> QED
        BY <4>1, <2>1, <2>2, <1>3
    <3>2. CASE m = pos - 1
      BY <3>2, <2>1, <2>2, <1>3
    <3>3. CASE m > pos - 1
      <4>1. s[pos - 1].end + 1 < s[m].start
        BY <3>3, <2>1, <1>1
      <4> QED
        BY <4>1, <2>1, <2>2, <1>3
    <3> QED
      BY <3>1, <3>2, <3>3, <2>1
  <2>5. ASSUME NEW z \in x..(y - 1) PROVE z \in Covered(s)
    <3>1. z \in s[pos - 1].start..s[pos - 1].end
      BY <2>1, <2>2, <1>0, <1>3, <1>7
    <3> QED
      BY <3>1, <2>1, CoveredBy
  <2> QED
    BY <2>3, <2>4, <2>5 DEF y
<1>8. CASE ~inside
  <2>1. y = x
    BY <1>6, <1>8
  <2>2. y \notin Covered(s)
    <3> SUFFICES ASSUME NEW m \in 1..Len(s), x \in s[m].start..s[m].end PROVE FALSE
      BY <2>1, CoveredBy
    <3>1. CASE m < pos - 1
      <4>1. pos - 1 \in 1..Len(s) /\ pos - 1 \in 1..(pos - 1)
        BY <3>1, <1>2, <1>4
      <4>2. s[m].end + 1 < s[pos - 1].start /\ s[pos - 1].start <= x
        BY <3>1, <4>1, <1>1, <1>2
      <4> QED
        BY <4>1, <4>2, <1>0, <1>3
    <3>2. CASE m = pos - 1
      BY <3>2, <1>0, <1>2, <1>3, <1>8
    <3>3. CASE m = pos
      BY <3>3, <1>0, <1>2, <1>3
    <3>4. CASE m > pos
      <4>1. pos \in 1..Len(s)
        BY <3>4, <1>2, <1>4
      <4>2. s[pos].end + 1 < s[m].start /\ s[pos].start > x
        BY <3>4, <4>1, <1>1, <1>2
      <4> QED
        BY <4>1, <4>2, <1>0, <1>3
    <3> QED
      BY <3>1, <3>2, <3>3, <3>4, <1>2
  <2> QED
    BY <2>1, <2>2, <1>0 DEF y
<1> QED
  BY <1>7, <1>8
-----------------------------------------------------------------------------
\* Also where ints wrap around, the operations on intervals return intervals.
LEMMA IncDecType == \A x \in Int_ : Inc(x) \in Int_ /\ Dec(x) \in Int_
  BY MaxIntAssumption DEF Inc, Dec, Int_, MinInt

LEMMA NextMissingType ==
  ASSUME NEW s \in Seq(Interval), NEW x \in Int_
  PROVE  NextMissing(s, x) \in Int_
<1> DEFINE pos == Search(s, x)
<1>1. pos \in 1..(Len(s) + 1)
  BY SearchFinds, IntsAreIntegers
<1>2. pos > 1 => pos - 1 \in DOMAIN s
  BY <1>1
<1> HIDE DEF pos
<1>3. pos > 1 => Inc(s[pos - 1].end) \in Int_
  BY <1>2, FieldsAreInts, IncDecType
<1> QED
  BY <1>3 DEF NextMissing, pos

LEMMA AfterAddType ==
  ASSUME NEW s \in Seq(Interval), NEW x \in Int_
  PROVE  AfterAdd(s, x) \in Seq(Interval)
<1> DEFINE pos == Search(s, x)
<1>1. pos \in 1..(Len(s) + 1) /\ Len(s) \in Nat
  BY SearchFinds, IntsAreIntegers
<1>2. \A i \in 1..Len(s) : s[i].start \in Int_ /\ s[i].end \in Int_
  BY FieldsAreInts
<1>3. \A a, b \in Int_ : Larger(a, b) \in Int_ /\ Smaller(a, b) \in Int_
  BY DEF Larger, Smaller
<1>4. ASSUME NEW t \in Seq(Interval), NEW v \in Interval
      PROVE  insertInterval(t, v) \in Seq(Interval)
  BY InsertShifts
<1>5. ASSUME NEW i \in 1..(Len(s) + 1), NEW j \in (i - 1)..Len(s)
      PROVE  Cut(s, i, j) \in Seq(Interval)
  BY CutLeaves
<1> DEFINE L == [start |-> s[pos - 1].start, end |-> Larger(s[pos].end, x)]
           M == [start |-> s[pos - 1].start, end |-> Larger(s[pos - 1].end, x)]
           R == [start |-> Smaller(s[pos].start, x), end |-> s[pos].end]
           X == [start |-> x, end |-> x]
<1> HIDE DEF pos
<1>6. pos > 1 /\ pos <= Len(s) => insertInterval(Cut(s, pos - 1, pos), L) \in Seq(Interval)
  <2> SUFFICES ASSUME pos > 1, pos <= Len(s)
               PROVE  insertInterval(Cut(s, pos - 1, pos), L) \in Seq(Interval)
    OBVIOUS
  <2>1. /\ pos - 1 \in 1..Len(s) /\ pos \in 1..Len(s)
        /\ pos - 1 \in 1..(Len(s) + 1) /\ pos \in ((pos - 1) - 1)..Len(s)
    BY <1>1
  <2>2. L \in Interval
    BY <2>1, <1>2, <1>3 DEF Interval
  <2>3. Cut(s, pos - 1, pos) \in Seq(Interval)
    BY <2>1, <1>5
  <2> HIDE DEF L
  <2> QED
    BY <2>2, <2>3, <1>4
<1>7. pos > 1 => insertInterval(Cut(s, pos - 1, pos - 1), M) \in Seq(Interval)
  <2> SUFFICES ASSUME pos > 1
               PROVE  insertInterval(Cut(s, pos - 1, pos - 1), M) \in Seq(Interval)
    OBVIOUS
  <2>1. pos - 1 \in 1..Len(s) /\ pos - 1 \in 1..(Len(s) + 1) /\ pos - 1 \in ((pos - 1) - 1)..Len(s)
    BY <1>1
  <2>2. M \in Interval
    BY <2>1, <1>2, <1>3 DEF Interval
  <2>3. Cut(s, pos - 1, pos - 1) \in Seq(Interval)
    BY <2>1, <1>5
  <2> HIDE DEF M
  <2> QED
    BY <2>2, <2>3, <1>4
<1>8. pos <= Len(s) => insertInterval(Cut(s, pos, pos), R) \in Seq(Interval)
  <2> SUFFICES ASSUME pos <= Len(s)
               PROVE  insertInterval(Cut(s, pos, pos), R) \in Seq(Interval)
    OBVIOUS
  <2>1. pos \in 1..Len(s) /\ pos \in 1..(Len(s) + 1) /\ pos \in (pos - 1)..Len(s)
    BY <1>1
  <2>2. R \in Interval
    BY <2>1, <1>2, <1>3 DEF Interval
  <2>3. Cut(s, pos, pos) \in Seq(Interval)
    BY <2>1, <1>5
  <2> HIDE DEF R
  <2> QED
    BY <2>2, <2>3, <1>4
<1>9. insertInterval(s, X) \in Seq(Interval)
  <2>1. X \in Interval
    BY DEF Interval
  <2> HIDE DEF X
  <2> QED
    BY <2>1, <1>4
<1> QED
  BY <1>6, <1>7, <1>8, <1>9 DEF AfterAdd, pos
=============================================================================
