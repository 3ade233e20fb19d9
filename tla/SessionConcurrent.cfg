CONSTANTS
  c1 = c1
  c2 = c2
  c3 = c3
  e1 = e1
  e2 = e2
  NoExec = NoExec
  Clients = {c1, c2, c3}
  Exec <- SameExecOf
  MaxConnects = 3
  Overlap = TRUE
  Crashes = FALSE
  LaunchMayFail = FALSE
  RmidAgain = FALSE
SPECIFICATION Spec
CHECK_DEADLOCK FALSE
SYMMETRY ClientSymmetry
INVARIANTS TypeOK NamesInv OneLiveDes CurrentPipes
PROPERTIES LiveFifosKept
