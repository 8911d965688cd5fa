SPECIFICATION Spec
CONSTANTS
  Words = {"1", "2"}
  MaxQuotes = 1
  TypedQuotes <- MCQuoted
  KeyLiterals <- MCKeyLiterals
  ValueLiterals <- MCValueLiterals
  Keep <- MCKeep
  InsertBatches <- MCInsertBatches
  ImportBatches <- MCNoBatches
  Conditions <- MCSafeConditions
  InitialCounters <- MCStarted
  StopPhases <- MCNoPhases
  MaxRecords = 3
  MaxLeftover = 0
INVARIANTS
  IndexedReadAgrees
