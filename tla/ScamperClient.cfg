SPECIFICATION FairSpec
CONSTANTS
  Call = {attach, p1, p2, p3}
  Attach = attach
  DataId = {i1, i2}
  None = None
INVARIANTS OwnData ReaderNeverBlocks QueueInStep
PROPERTIES AcceptedIsAnswered
CHECK_DEADLOCK FALSE
