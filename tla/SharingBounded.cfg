CONSTANTS
  c1 = c1
  c2 = c2
  c3 = c3
  none = none
  Clients = {c1, c2, c3}
  None = none
  MAX_CLIENTS = 2
  Faults = TRUE
  Slow = TRUE
  MaxConnects = 4
SPECIFICATION Spec
CHECK_DEADLOCK FALSE
INVARIANTS TypeOK HandlesWhole TableBounded SameDes QuitOnlyAlone
SYMMETRY ClientSymmetry
