CONSTANTS
  scroller = scroller
  writer = writer
  v1 = v1
  v2 = v2
  NoValue = NoValue
  Statements = {scroller, writer}
  Values = {v1, v2}
  Bad = {v2}
  ArraySize = 2
  Stored <- OneTwin
  Moves <- SplitMoves
  Offsets <- NearOffsets
  Writes <- SplitWrites
  Faults = TRUE
  MaxRows = 3
  MaxSelects = 2
SPECIFICATION Spec
CHECK_DEADLOCK FALSE
INVARIANTS TypeOK RowsetTrue
PROPERTIES RightRow OneCopyOnly
