SPECIFICATION FairSpec
CONSTANTS
  Id = {"ping", "reflector"}
  Gen = {1, 2}
  Configs <- Churn
  StreamCap = 1
  Slot = {l1, l2, l3}
  None = None
INVARIANTS TypeOK OneLoopPerTask RunsWhatIsDesired
PROPERTY ReconcileEnds
