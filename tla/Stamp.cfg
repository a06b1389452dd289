SPECIFICATION FairSpec
CONSTANTS
  PacketCount = 3
  Late = FALSE
  Steps = FALSE
  Nano = 3
  Fraction = 4
  Seconds = 4
  Starts <- MidSecond
  End = 5
  Skews <- AheadOrBehind
  None = None
INVARIANTS   RttIsNetworkTime MetricsAreMeasured
PROPERTIES ReflectorStops SenderEnds
CHECK_DEADLOCK FALSE
