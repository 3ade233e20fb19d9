CONSTANTS
  MaxParams = 1
  MaxSets = 1
  MaxCalls = 4
SPECIFICATION Spec
CHECK_DEADLOCK FALSE
INVARIANTS OnlyBoundSent
