CONSTANTS
  c1 = c1
  c2 = c2
  c3 = c3
  e1 = e1
  e2 = e2
  NoExec = NoExec
  Clients = {c1, c2, c3}
  Exec <- MixedExecOf
  MaxConnects = 4
  Overlap = FALSE
  Crashes = TRUE
  LaunchMayFail = FALSE
  RmidAgain = TRUE
SPECIFICATION Spec
CHECK_DEADLOCK FALSE
SYMMETRY SameExecSymmetry
INVARIANTS CountExact NothingLeft SameExec CountNeverShort NeverDetached
PROPERTIES QuitOnlyAlone
