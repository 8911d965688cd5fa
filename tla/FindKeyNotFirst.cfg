SPECIFICATION LayoutSpec
CONSTANTS
  ColumnCount = 3
  PrimaryKey = 2
  Literals = {"a", "b", "c"}
  Empty = "empty"
  Default <- MCDefault
  WithUpdate = TRUE
INVARIANTS
  PositionsAgree
  KeysAgree
