SPECIFICATION LinksSpec
CONSTANTS
  Probe = {1, 2}
  MaxTtl = 4
  Addr = {"a", "b"}
  Timeout = "Z"
  MaxHops = 4
INVARIANTS FingerprintIsTheTraces LinksJoinNeighbours
CHECK_DEADLOCK FALSE
