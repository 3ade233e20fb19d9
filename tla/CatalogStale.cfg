CONSTANTS
  c1 = c1
  c2 = c2
  des = des
  ext = ext
  unknown = unknown
  noname = noname
  Clients = {c1, c2}
  Databases = {des, ext}
  Des = des
  Unknown = unknown
  NoName = noname
  Calls = {"columns", "statistics", "special", "tables", "primary", "statement", "useStatement", "setCatalog", "getCatalog"}
  AnswersMixed = FALSE
  Crashes = FALSE
  MaxCalls = 3
SPECIFICATION Spec
CHECK_DEADLOCK FALSE
INVARIANTS OnlyOwnErrors
