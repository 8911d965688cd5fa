SPECIFICATION ConditionSpec
CONSTANTS
  Numerals = {"1", "1.0", "2", "1e999", "nan"}
  Unheld = {"1e999"}
  NaNs = {"nan"}
  ValueOf <- MCValueOf
  Characters = {"a", ".", "%", "_", "newline"}
  Stored <- MCStored
  Where <- MCWhere
INVARIANTS
  AdmitsTheDocumented
  LikeMeansPattern
  EqualityIsOfTexts
  NegationsPartition
  ThrowsOnlyOutOfRange
CHECK_DEADLOCK FALSE
