CONSTANTS
  c1 = c1
  c2 = c2
  c3 = c3
  e1 = e1
  e2 = e2
  NoExec = NoExec
  Clients = {c1, c2}
  Exec <- SameExecOf
  MaxConnects = 2
  Overlap = TRUE
  Crashes = TRUE
  LaunchMayFail = TRUE
  RmidAgain = TRUE
SPECIFICATION FairSpec
CHECK_DEADLOCK FALSE
PROPERTIES CallsReturn
