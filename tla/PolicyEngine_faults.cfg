SPECIFICATION Spec
CONSTANTS
  OpenThreshold = 5
  CloseThreshold = 3
  DecayPerTick = 6
  Series = {s1}
  Finding = {f1, f2, f3}
  None = None
  Severities = {6}
  Lags <- LagsNow
  ConfirmWindow = 1
  QuietPeriod = 2
  AgeCap = 4
  MaxLag = 1
  Faults <- FaultNames
SYMMETRY Symmetry
INVARIANTS TypeOK AlarmKnowsItsEvent FiringAboveClose
PROPERTY KeepsEventLog
