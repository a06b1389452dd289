SPECIFICATION FairSpec
CONSTANTS
  Msg = {"a", "b"}
  Bad <- NoProbe
  Unparsed <- NoProbe
  Rejected = {"b"}
  FetchMax = 2
  FlushSize = 2
  PendingCap = 1
  Faults <- NoFaults
PROPERTY ProbesAreStored
CHECK_DEADLOCK FALSE
