SPECIFICATION FairSpec
CONSTANTS
  GB = 2
  TRAFFIC_LIMIT_GB = 3
  MaxMonth = 1
  MaxTraffic = 9
  Boots = TRUE
INVARIANTS BlockedOnCycle CycleMeasured
PROPERTY OverLimitBlocked
