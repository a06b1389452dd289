SPECIFICATION Spec
CONSTANTS
  Msg = {"a", "b", "c"}
  Bad = {}
  SeriesOf <- OneSeries
  TimeOf <- Times
  SampleOf <- Samples
  EwmaWarmup = 1
  LossWarmup = 2
  Rarity = 2
  Series = {"s1"}
  Monitors <- TwoMonitors
  UnitsPerTick = 1
  FetchMax = 2
  InboxCap = 1
  Faults <- SafeFaults
INVARIANTS TypeOK  AppliedOnce  TailIsUrn AckedIsSaved
