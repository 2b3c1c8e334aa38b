-------------------------- MODULE HostTrafficProofs --------------------------
(***************************************************************************)
(* Theorems about HostTraffic, for any limit, size of a gigabyte and       *)
(* bounds.                                                                 *)
(***************************************************************************)
EXTENDS HostTraffic, TLAPS

TypeInv ==
  /\ month \in Nat
  /\ resetDay \in BOOLEAN
  /\ traffic \in Nat
  /\ usageFile \in Nat \cup {-1}
  /\ monthFile \in Nat \cup {-1}
  /\ blocked \in BOOLEAN
  /\ cycleTraffic \in Nat
  /\ booted \in BOOLEAN
  /\ carried \in BOOLEAN

LEMMA QuotientGrows ==
  ASSUME NEW d \in Nat \ {0}, NEW a \in Nat, NEW b \in Nat, a <= b
  PROVE  a \div d \in Nat /\ b \div d \in Nat /\ a \div d <= b \div d
<1>1. /\ a \div d \in Int /\ a % d \in 0..(d - 1) /\ a = d * (a \div d) + (a % d)
  OBVIOUS
<1>2. /\ b \div d \in Int /\ b % d \in 0..(d - 1) /\ b = d * (b \div d) + (b % d)
  OBVIOUS
<1> QED
  BY <1>1, <1>2

\* More bytes are no smaller percentage of the limit.
LEMMA PercentGrows ==
  ASSUME NEW a \in Nat, NEW b \in Nat, a <= b
  PROVE  Percent(a) \in Nat /\ Percent(b) \in Nat /\ Percent(a) <= Percent(b)
<1>1. a \div GB \in Nat /\ b \div GB \in Nat /\ a \div GB <= b \div GB
  BY QuotientGrows, TrafficAssumption
<1>2. /\ (a \div GB) * 100 \in Nat /\ (b \div GB) * 100 \in Nat
      /\ (a \div GB) * 100 <= (b \div GB) * 100
  BY <1>1
<1> QED
  BY <1>2, QuotientGrows, TrafficAssumption DEF Percent

LEMMA PercentOfNothing == Percent(0) = 0
<1>1. 0 \div GB = 0 /\ 0 \div TRAFFIC_LIMIT_GB = 0
  BY TrafficAssumption
<1> QED
  BY <1>1 DEF Percent

\* Nothing but what the reset left is measured in excess, and the file of a host
\* that is blocked is there and not above the counter.
ExcessInv ==
  /\ usageFile # -1 /\ ~carried => traffic - usageFile <= cycleTraffic
  /\ blocked => usageFile \in 0..traffic

HostInv == TypeInv /\ BlockedOnCycle /\ CycleMeasured /\ ExcessInv

LEMMA InitHostInv == Init => HostInv
<1>1. Init => TypeInv
  <2>1. Init => resetDay \in BOOLEAN /\ blocked \in BOOLEAN /\ booted \in BOOLEAN
                /\ carried \in BOOLEAN
    BY Zenon DEF Init
  <2>2. Init => /\ month \in Nat /\ traffic \in Nat /\ cycleTraffic \in Nat
                /\ usageFile \in Nat \cup {-1} /\ monthFile \in Nat \cup {-1}
    BY DEF Init
  <2> QED
    BY <2>1, <2>2 DEF TypeInv
<1>2. Init => BlockedOnCycle
  BY DEF Init, BlockedOnCycle
<1>3. Init => CycleMeasured
  BY DEF Init, CycleMeasured
<1>4. Init => ExcessInv
  BY DEF Init, ExcessInv
<1> QED
  BY <1>1, <1>2, <1>3, <1>4 DEF HostInv

LEMMA MeasureKeeps ==
  ASSUME HostInv, CheckMeasures
  PROVE  HostInv'
<1> DEFINE first == usageFile = -1 \/ traffic < usageFile
           start == IF first THEN traffic ELSE usageFile
<1>0. TypeInv
  BY DEF HostInv
<1>1. /\ usageFile' = start
      /\ monthFile' = IF first THEN month ELSE monthFile
      /\ cycleTraffic' = IF usageFile = -1 THEN 0 ELSE cycleTraffic
      /\ booted' = (booted /\ usageFile # -1)
      /\ carried' = (carried /\ ~first)
      /\ blocked' = (blocked \/ Percent(traffic - start) >= 95)
      /\ month' = month /\ resetDay' = resetDay /\ traffic' = traffic
  BY DEF CheckMeasures
<1>2. start \in Nat /\ start <= traffic
  BY <1>0 DEF TypeInv
<1>3. TypeInv'
  BY <1>0, <1>1, <1>2 DEF TypeInv
<1>4. BlockedOnCycle'
  <2>1. CASE blocked
    <3>1. ~first /\ carried' = carried /\ cycleTraffic' = cycleTraffic
      BY <1>0, <1>1, <2>1 DEF HostInv, ExcessInv, TypeInv
    <3> QED
      BY <1>1, <2>1, <3>1 DEF HostInv, BlockedOnCycle
  <2>2. CASE first
    <3>1. traffic - start = 0
      BY <1>0, <2>2 DEF TypeInv
    <3>2. ~(Percent(traffic - start) >= 95)
      BY <3>1, PercentOfNothing
    <3>3. blocked' => blocked
      BY <1>1, <3>2
    <3> QED
      BY <2>1, <3>3 DEF BlockedOnCycle
  <2>3. CASE ~first
    <3> DEFINE most == IF carried THEN traffic ELSE cycleTraffic
    <3>1. carried' = carried /\ cycleTraffic' = cycleTraffic /\ start = usageFile /\ usageFile # -1
      BY <1>0, <1>1, <2>3 DEF TypeInv
    <3>2. most \in Nat /\ traffic - start \in Nat /\ traffic - start <= most
      BY <1>0, <1>2, <3>1 DEF TypeInv, HostInv, ExcessInv
    <3>3. /\ Percent(traffic - start) \in Nat /\ Percent(most) \in Nat
          /\ Percent(traffic - start) <= Percent(most)
      BY <3>2, PercentGrows
    <3>4. Percent(traffic - start) >= 95 => Percent(most) >= 95
      BY <3>3
    <3>5. blocked' => blocked \/ Percent(most) >= 95
      BY <1>1, <3>4
    <3>6. most' = most
      BY <1>1, <3>1
    <3> QED
      BY <2>1, <3>5, <3>6 DEF BlockedOnCycle
  <2> QED
    BY <2>2, <2>3
<1>5. CycleMeasured'
  BY <1>0, <1>1, <1>2 DEF HostInv, TypeInv, CycleMeasured
<1>6. ExcessInv'
  BY <1>0, <1>1, <1>2 DEF HostInv, TypeInv, ExcessInv
<1> QED
  BY <1>3, <1>4, <1>5, <1>6 DEF HostInv

LEMMA HostStep == HostInv /\ [Next]_vars => HostInv'
<1> SUFFICES ASSUME HostInv, [Next]_vars
             PROVE  HostInv'
  OBVIOUS
<1>0. TypeInv /\ BlockedOnCycle /\ CycleMeasured /\ ExcessInv
  BY DEF HostInv
<1>1. CASE CheckResets
  <2>1. TypeInv'
    <3>1. carried' = TRUE \/ carried' = FALSE
      BY <1>1 DEF CheckResets
    <3> QED
      BY <1>0, <1>1, <3>1 DEF CheckResets, TypeInv
  <2>2. BlockedOnCycle'
    BY <1>0, <1>1 DEF CheckResets, BlockedOnCycle
  <2>3. CycleMeasured'
    BY <1>0, <1>1 DEF CheckResets, TypeInv, CycleMeasured
  <2>4. ExcessInv'
    <3>1. traffic \in Nat /\ traffic' = traffic /\ usageFile' = 0 /\ cycleTraffic' = 0 /\ ~blocked'
      BY <1>0, <1>1 DEF CheckResets, TypeInv
    <3>2. CASE traffic > 0
      <4>1. carried' = TRUE
        BY <1>1, <3>2 DEF CheckResets
      <4> QED
        BY <3>1, <4>1 DEF ExcessInv
    <3>3. CASE traffic = 0
      BY <3>1, <3>3 DEF ExcessInv
    <3> QED
      BY <3>1, <3>2, <3>3
  <2> QED
    BY <2>1, <2>2, <2>3, <2>4 DEF HostInv
<1>2. CASE CheckMeasures
  BY <1>2, MeasureKeeps
<1>3. CASE Transfer
  <2>1. /\ traffic \in Nat /\ traffic' = traffic + 1
        /\ cycleTraffic \in Nat /\ cycleTraffic' = cycleTraffic + 1
        /\ blocked' = blocked /\ carried' = carried
    BY <1>0, <1>3 DEF Transfer, TypeInv
  <2>2. Percent(traffic) \in Nat /\ Percent(traffic') \in Nat /\ Percent(traffic) <= Percent(traffic')
    BY <2>1, PercentGrows
  <2>3. /\ Percent(cycleTraffic) \in Nat /\ Percent(cycleTraffic') \in Nat
        /\ Percent(cycleTraffic) <= Percent(cycleTraffic')
    BY <2>1, PercentGrows
  <2>4. BlockedOnCycle'
    BY <1>0, <2>1, <2>2, <2>3 DEF BlockedOnCycle
  <2>5. TypeInv' /\ CycleMeasured' /\ ExcessInv'
    BY <1>0, <1>3 DEF Transfer, TypeInv, CycleMeasured, ExcessInv
  <2> QED
    BY <2>4, <2>5 DEF HostInv
<1>4. CASE NextDay
  <2>1. TypeInv'
    <3>1. month' \in Nat
      BY <1>0, <1>4, TrafficAssumption DEF NextDay, TypeInv
    <3>2. resetDay' \in BOOLEAN
      BY <1>4, Zenon DEF NextDay
    <3> QED
      BY <1>0, <1>4, <3>1, <3>2 DEF NextDay, TypeInv
  <2>2. BlockedOnCycle'
    BY <1>0, <1>4 DEF NextDay, BlockedOnCycle
  <2>3. CycleMeasured' /\ ExcessInv'
    BY <1>0, <1>4 DEF NextDay, TypeInv, CycleMeasured, ExcessInv
  <2> QED
    BY <2>1, <2>2, <2>3 DEF HostInv
<1>5. CASE ServiceStart \/ FindProviders
  <2>1. TypeInv'
    BY <1>0, <1>5 DEF ServiceStart, FindProviders, TypeInv
  <2>2. BlockedOnCycle'
    <3>1. CASE ServiceStart
      BY <3>1 DEF ServiceStart, BlockedOnCycle
    <3>2. CASE FindProviders
      BY <1>0, <3>2 DEF FindProviders, BlockedOnCycle
    <3> QED
      BY <1>5, <3>1, <3>2
  <2>3. CycleMeasured' /\ ExcessInv'
    BY <1>0, <1>5 DEF ServiceStart, FindProviders, TypeInv, CycleMeasured, ExcessInv
  <2> QED
    BY <2>1, <2>2, <2>3 DEF HostInv
<1>6. CASE Boot
  <2>1. TypeInv'
    BY <1>0, <1>6 DEF Boot, TypeInv
  <2>2. BlockedOnCycle'
    <3>1. blocked' = FALSE
      BY <1>6 DEF Boot
    <3> QED
      BY <3>1 DEF BlockedOnCycle
  <2>3. CycleMeasured' /\ ExcessInv'
    BY <1>0, <1>6 DEF Boot, TypeInv, CycleMeasured, ExcessInv
  <2> QED
    BY <2>1, <2>2, <2>3 DEF HostInv
<1>7. CASE UNCHANGED vars
  BY <1>0, <1>7 DEF vars, HostInv, TypeInv, BlockedOnCycle, CycleMeasured, ExcessInv
<1> QED
  BY <1>1, <1>2, <1>3, <1>4, <1>5, <1>6, <1>7 DEF Next, Check

LEMMA HostInvariant == Spec => []HostInv
  BY InitHostInv, HostStep, PTL DEF Spec

\* Whatever files survive a boot and whenever the service restarts, the firewall is
\* closed only when the traffic of the cycle is at 95 percent of the limit; in a
\* cycle whose reset found the counters above 0, only when the counters are.
THEOREM AlwaysBlockedOnCycle == Spec => []BlockedOnCycle
<1>1. HostInv => BlockedOnCycle
  BY DEF HostInv
<1> QED
  BY <1>1, HostInvariant, PTL

\* The checks never measure less than the traffic of the cycle, unless the host
\* was booted in it.
THEOREM AlwaysCycleMeasured == Spec => []CycleMeasured
<1>1. HostInv => CycleMeasured
  BY DEF HostInv
<1> QED
  BY <1>1, HostInvariant, PTL

\* So a check leaves the firewall closed when the traffic of the cycle is at 95
\* percent, unless the cycle begins with this check.
THEOREM MeasuringBlocks ==
  Spec => [][CheckMeasures /\ ~booted /\ Percent(cycleTraffic) >= 95
               => blocked' \/ cycleTraffic' = 0]_vars
<1>1. HostInv /\ CheckMeasures /\ ~booted /\ Percent(cycleTraffic) >= 95
        => blocked' \/ cycleTraffic' = 0
  <2> SUFFICES ASSUME HostInv, CheckMeasures, ~booted, Percent(cycleTraffic) >= 95, usageFile # -1
               PROVE  blocked'
    BY DEF CheckMeasures
  <2>1. /\ traffic \in Nat /\ cycleTraffic \in Nat /\ usageFile \in Nat
        /\ traffic - usageFile >= cycleTraffic
    BY DEF HostInv, TypeInv, CycleMeasured
  <2>2. ~(traffic < usageFile) /\ traffic - usageFile \in Nat /\ cycleTraffic <= traffic - usageFile
    BY <2>1
  <2>3. /\ Percent(cycleTraffic) \in Nat /\ Percent(traffic - usageFile) \in Nat
        /\ Percent(cycleTraffic) <= Percent(traffic - usageFile)
    BY <2>1, <2>2, PercentGrows
  <2>4. Percent(traffic - usageFile) >= 95
    BY <2>3
  <2> QED
    BY <2>2, <2>4 DEF CheckMeasures
<1> QED
  BY <1>1, HostInvariant, PTL
=============================================================================
