CONSTANTS
  c1 = c1
  c2 = c2
  c3 = c3
  none = none
  Clients = {c1, c2}
  Calls = {"select", "update", "results", "rowLoop", "foreignKeys", "process", "command", "rowUpdate"}
  Creator = c1
  Timing = "slow"
  Crashes = TRUE
  BufferPieces = 2
  MaxPieces = 2
  MaxQueries = 2
SPECIFICATION FairSpec
CHECK_DEADLOCK FALSE
PROPERTIES CallsReturn
