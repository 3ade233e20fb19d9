CONSTANTS
  c1 = c1
  c2 = c2
  des = des
  ext = ext
  unknown = unknown
  noname = noname
  Clients = {c1, c2}
  Databases = {des, ext}
  Des = des
  Unknown = unknown
  NoName = noname
  Calls = {"columns", "statistics", "special", "tables", "primary", "statement", "useStatement", "setCatalog", "getCatalog"}
  AnswersMixed = TRUE
  Crashes = TRUE
  MaxCalls = 2
SYMMETRY ClientSymmetry
SPECIFICATION Spec
CHECK_DEADLOCK FALSE
INVARIANTS TypeOK DatabaseKept StatementsAtHome RightDatabase
PROPERTIES SeesChosen
