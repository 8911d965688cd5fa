SPECIFICATION Spec
CONSTANTS
  Words = {"1", "2"}
  MaxQuotes = 2
  TypedQuotes <- MCNested
  KeyLiterals <- MCKeyLiterals
  ValueLiterals <- MCValueLiterals
  Keep <- MCKeep
  InsertBatches <- MCOneValueBatches
  ImportBatches <- MCImportBatches
  Conditions <- MCConditions
  InitialCounters <- MCStarted
  StopPhases <- MCAllPhases
  MaxRecords = 3
  MaxLeftover = 1
INVARIANTS
  IndexAligned
PROPERTIES
  RecordsOnlyDie
