CONSTANTS
  MaxParams = 2
  MaxSets = 3
  MaxCalls = 5
SPECIFICATION Spec
CHECK_DEADLOCK FALSE
INVARIANTS TypeOK OwnExecution StatusesTrue  DummySentOnce NeverOthersResult
