CONSTANTS
  c1 = c1
  c2 = c2
  c3 = c3
  none = none
  Clients = {c1, c2, c3}
  Calls = {"select", "results", "process"}
  Creator = none
  Timing = "burst"
  Crashes = FALSE
  BufferPieces = 2
  MaxPieces = 3
  MaxQueries = 4
SPECIFICATION Spec
CHECK_DEADLOCK FALSE
INVARIANTS OwnAnswer ChannelClean
PROPERTIES ServesEachOnce
