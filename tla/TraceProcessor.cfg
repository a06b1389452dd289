SPECIFICATION FairSpec
CONSTANTS
  Worker = {w1, w2}
  Trace = {"there", "back", "lb", "bad"}
  Bad = {"bad"}
  Lb = {"lb"}
  Hops <- Paths
  Asn <- AsnOf
  EachAsked = FALSE
  Faults <- FaultNames
  MaxMishaps = 2
  None = None
INVARIANTS AckedIsStored StoredIsPublished OnePath
PROPERTY TracesAreStored
CHECK_DEADLOCK FALSE
