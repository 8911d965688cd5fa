SPECIFICATION Spec
CONSTANTS
  Words = {"1", "2"}
  MaxQuotes = 0
  TypedQuotes <- MCBare
  KeyLiterals <- MCKeyLiterals
  ValueLiterals <- MCValueLiterals
  Keep <- MCKeep
  InsertBatches <- MCInsertBatches
  ImportBatches <- MCNoBatches
  Conditions <- MCConditions
  InitialCounters <- MCInherited
  StopPhases <- MCStopOutsideCompaction
  MaxRecords = 4
  MaxLeftover = 0
INVARIANTS
  TypeOK
  IndexComplete
  UniqueLiveKeys
  IndexedReadAgrees
  CopyFaithful
