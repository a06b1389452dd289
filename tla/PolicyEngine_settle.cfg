SPECIFICATION FairSpec
CONSTANTS
  OpenThreshold = 5
  CloseThreshold = 3
  DecayPerTick = 6
  Series = {s1}
  Finding = {f1, f2}
  None = None
  Severities = {4, 6}
  Lags <- LagsAny
  ConfirmWindow = 1
  QuietPeriod = 2
  AgeCap = 5
  MaxLag = 2
  Faults <- DatabaseFaults
INVARIANT OneOpenEvent
PROPERTIES AttachedForGood AlarmsSettle
