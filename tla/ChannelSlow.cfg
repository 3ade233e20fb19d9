CONSTANTS
  c1 = c1
  c2 = c2
  c3 = c3
  none = none
  Clients = {c1, c2, c3}
  Calls = {"select", "process", "update", "results"}
  Creator = none
  Timing = "slow"
  Crashes = TRUE
  BufferPieces = 2
  MaxPieces = 2
  MaxQueries = 3
SPECIFICATION Spec
CHECK_DEADLOCK FALSE
INVARIANTS TypeOK QueryExclusive NeverFuture MutexReturned
SYMMETRY ClientSymmetry
