----------------------------- MODULE HostTraffic -----------------------------
(***************************************************************************)
(* The traffic limit of a node's host: node/traffic_check.go, which main   *)
(* of the node service calls every ten seconds, once it has found a log    *)
(* and a web service.  The kernel's counters start from 0 when the host    *)
(* boots; usageFile holds the counter at the beginning of the cycle, or 0  *)
(* after a reset, monthFile the month of the last reset.  The files are in *)
(* the temporary directory and may outlive a boot or not.                  *)
(*                                                                         *)
(* A month is a reset day followed by the other days.                      *)
(***************************************************************************)
EXTENDS Integers

CONSTANTS
  GB,               \* bytes of a gigabyte
  TRAFFIC_LIMIT_GB,
  MaxMonth,         \* bound: the last month
  MaxTraffic,       \* bound: the traffic of a cycle, and the counter
  Boots             \* the host may be booted

ASSUME TrafficAssumption ==
  /\ GB \in Nat \ {0}
  /\ TRAFFIC_LIMIT_GB \in Nat \ {0}
  /\ MaxMonth \in Nat
  /\ MaxTraffic \in Nat
  /\ Boots \in BOOLEAN

VARIABLES
  month, resetDay,   \* the date
  traffic,           \* the counters of /proc/net/dev, summed up
  usageFile,         \* -1 when there is no file
  monthFile,
  blocked,           \* the firewall drops everything but ssh
  checking,          \* main has started the checks
  cycleTraffic,      \* history: the traffic since the cycle began
  booted,            \* history: the host was booted since then
  carried            \* history: the reset left earlier traffic to be measured

vars ==
  <<month, resetDay, traffic, usageFile, monthFile, blocked, checking,
    cycleTraffic, booted, carried>>

\* The cycle begins with the first check.
Init ==
  /\ month = 0
  /\ resetDay \in BOOLEAN
  /\ traffic = 0
  /\ usageFile = -1
  /\ monthFile = -1
  /\ blocked = FALSE
  /\ checking = FALSE
  /\ cycleTraffic = 0
  /\ booted = FALSE
  /\ carried = FALSE

Percent(bytes) == ((bytes \div GB) * 100) \div TRAFFIC_LIMIT_GB

\* The day of the reset: the firewall is opened and the files are written.  The
\* counters go on, so that the next checks measure what they held already.
CheckResets ==
  /\ checking
  /\ resetDay
  /\ monthFile # month
  /\ blocked' = FALSE
  /\ usageFile' = 0
  /\ monthFile' = month
  /\ cycleTraffic' = 0
  /\ booted' = FALSE
  /\ carried' = (traffic > 0)
  /\ UNCHANGED <<month, resetDay, traffic, checking>>

\* Mutant: a missing file is not told from one that holds -1.
CheckMeasuresUnrecorded ==
  LET first == traffic < usageFile
      start == IF first THEN traffic ELSE usageFile
  IN
  /\ checking
  /\ ~(resetDay /\ monthFile # month)
  /\ usageFile' = start
  /\ monthFile' = IF first THEN month ELSE monthFile
  /\ cycleTraffic' = IF usageFile = -1 THEN 0 ELSE cycleTraffic
  /\ booted' = (booted /\ usageFile # -1)
  /\ carried' = (carried /\ ~first)
  /\ blocked' = (blocked \/ Percent(traffic - start) >= 95)
  /\ UNCHANGED <<month, resetDay, traffic, checking>>

\* Mutant: closing the firewall starts the measurement anew, so that the service
\* leaves it open when it is started again.
CheckMeasuresOnce ==
  LET first == usageFile = -1 \/ traffic < usageFile
      start == IF first THEN traffic ELSE usageFile
  IN
  /\ checking
  /\ ~(resetDay /\ monthFile # month)
  /\ usageFile' = IF Percent(traffic - start) >= 95 THEN traffic ELSE start
  /\ monthFile' = IF first THEN month ELSE monthFile
  /\ cycleTraffic' = IF usageFile = -1 THEN 0 ELSE cycleTraffic
  /\ booted' = (booted /\ usageFile # -1)
  /\ carried' = (carried /\ ~first)
  /\ blocked' = (blocked \/ Percent(traffic - start) >= 95)
  /\ UNCHANGED <<month, resetDay, traffic, checking>>

\* Any other check: a first measurement, or one after a boot, is recorded, and
\* the firewall is closed from 95 percent of the limit.
CheckMeasures ==
  LET first == usageFile = -1 \/ traffic < usageFile
      start == IF first THEN traffic ELSE usageFile
  IN
  /\ checking
  /\ ~(resetDay /\ monthFile # month)
  /\ usageFile' = start
  /\ monthFile' = IF first THEN month ELSE monthFile
  /\ cycleTraffic' = IF usageFile = -1 THEN 0 ELSE cycleTraffic
  /\ booted' = (booted /\ usageFile # -1)
  /\ carried' = (carried /\ ~first)
  /\ blocked' = (blocked \/ Percent(traffic - start) >= 95)
  /\ UNCHANGED <<month, resetDay, traffic, checking>>

-----------------------------------------------------------------------------
Transfer ==
  /\ traffic < MaxTraffic /\ cycleTraffic < MaxTraffic
  /\ traffic' = traffic + 1
  /\ cycleTraffic' = cycleTraffic + 1
  /\ UNCHANGED <<month, resetDay, usageFile, monthFile, blocked, checking, booted, carried>>

NextDay ==
  /\ \/ resetDay /\ resetDay' = FALSE /\ UNCHANGED month
     \/ ~resetDay /\ month < MaxMonth /\ resetDay' = TRUE /\ month' = month + 1
  /\ UNCHANGED <<traffic, usageFile, monthFile, blocked, checking, cycleTraffic, booted, carried>>

\* The service is started again: main opens the firewall and does not check yet.
ServiceStart ==
  /\ blocked' = FALSE
  /\ checking' = FALSE
  /\ UNCHANGED <<month, resetDay, traffic, usageFile, monthFile, cycleTraffic, booted, carried>>

\* main has got a log and a web provider, for which it waits as long as it takes,
\* and starts the checks.
FindProviders ==
  /\ ~checking
  /\ checking' = TRUE
  /\ UNCHANGED <<month, resetDay, traffic, usageFile, monthFile, blocked,
                 cycleTraffic, booted, carried>>

Boot ==
  /\ Boots
  /\ traffic' = 0
  /\ blocked' = FALSE
  /\ checking' = FALSE
  /\ booted' = TRUE
  /\ carried' = FALSE
  /\ \/ usageFile' = -1 /\ monthFile' = -1
     \/ UNCHANGED <<usageFile, monthFile>>
  /\ UNCHANGED <<month, resetDay, cycleTraffic>>

Check == CheckResets \/ CheckMeasures

Next == Check \/ Transfer \/ NextDay \/ ServiceStart \/ FindProviders \/ Boot

Spec == Init /\ [][Next]_vars

\* A check runs every ten seconds once the checks are started.  Nothing makes a
\* provider appear.
FairSpec == Spec /\ WF_vars(Check)
-----------------------------------------------------------------------------
\* The firewall is closed only when the traffic of the cycle is at 95 percent of
\* the limit, whatever files survive a boot and whenever the service starts.  The
\* one exception is a cycle whose reset (line 108) found the counters above 0:
\* there, only when the traffic since the boot of the host is.
BlockedOnCycle == blocked => Percent(IF carried THEN traffic ELSE cycleTraffic) >= 95

\* What a check measures is at least what the host has transferred in the cycle,
\* although a reset writes 0 to the file and not the counter: without a boot in
\* between, the check never lets the host have more than its limit.
CycleMeasured == usageFile # -1 /\ ~booted => traffic - usageFile >= cycleTraffic

\* The traffic from 95 percent of the limit.
OverLimit == {bytes \in 0..MaxTraffic : Percent(bytes) >= 95}

\* Once the checks run, the firewall gets closed when the traffic of the cycle is
\* at 95 percent, unless a new cycle begins first or the service is restarted,
\* which opens the firewall until the checks run again.  A boot of the host is
\* excused: with the counters it forgets the traffic before it.
OverLimitBlocked ==
  cycleTraffic \in OverLimit /\ ~booted /\ checking
    ~> blocked \/ cycleTraffic \notin OverLimit \/ booted \/ ~checking
=============================================================================
