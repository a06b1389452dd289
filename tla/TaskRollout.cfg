SPECIFICATION FairRollout
CONSTANTS
  Id = {"ping-x", "ping-x-2", "hand"}
  Gen = {1, 2, 3}
  Configs <- NoConfigs
  StreamCap = 1
  Slot = {l1, l2}
  None = None
  Editor = {"alice"}
  HandWritten <- ByHand
  RowCap = 2
  Candidates <- IdOrder
 
PROPERTIES  OthersUndisturbed
CHECK_DEADLOCK FALSE
