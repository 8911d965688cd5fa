SPECIFICATION LayoutSpec
CONSTANTS
  ColumnCount = 3
  PrimaryKey = 1
  Literals = {"a", "b", "c"}
  Empty = "empty"
  Default <- MCDefault
  WithUpdate = TRUE
INVARIANTS
  OffsetsAgree
  PositionsAgree
