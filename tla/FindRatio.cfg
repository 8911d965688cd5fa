SPECIFICATION Spec
CONSTANTS
  Words = {"1", "2"}
  MaxQuotes = 0
  TypedQuotes <- MCBare
  KeyLiterals <- MCKeyLiterals
  ValueLiterals <- MCValueLiterals
  Keep <- MCKeep
  InsertBatches <- MCInsertBatches
  ImportBatches <- MCNoBatches
  Conditions <- MCSafeConditions
  InitialCounters <- MCStarted
  StopPhases <- MCNoPhases
  MaxRecords = 4
  MaxLeftover = 0
PROPERTIES
  CompactsAtDocumentedRatio
