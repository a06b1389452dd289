SPECIFICATION Spec
CONSTANTS
  Msg = {"a", "b", "c", "d"}
  Bad = {"c"}
  Unparsed = {"d"}
  Rejected <- NoProbe
  FetchMax = 2
  FlushSize = 2
  PendingCap = 1
  Faults <- FaultNames
INVARIANTS TypeOK AckedIsStored StoredIsPublished
