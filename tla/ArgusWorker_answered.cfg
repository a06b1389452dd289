SPECIFICATION FairSpec
CONSTANTS
  Msg = {"a", "b", "c"}
  Bad = {"c"}
  SeriesOf <- TwoSeries
  TimeOf <- Times
  SampleOf <- Samples
  EwmaWarmup = 1
  LossWarmup = 2
  Rarity = 10
  Series = {"s1", "s2"}
  Monitors <- OneMonitor
  UnitsPerTick = 1
  FetchMax = 2
  InboxCap = 1
  Faults <- LiveFaults
PROPERTY AllAnswered
CHECK_DEADLOCK FALSE
