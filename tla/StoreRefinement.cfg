SPECIFICATION FairSpec
CONSTANTS
  Words = {"1", "2"}
  MaxQuotes = 0
  TypedQuotes <- MCBare
  KeyLiterals <- MCKeyLiterals
  ValueLiterals <- MCValueLiterals
  Keep <- MCKeep
  InsertBatches <- MCInsertBatches
  ImportBatches <- MCNoBatches
  Conditions <- MCSafeConditions
  InitialCounters <- MCStarted
  StopPhases <- MCStopOutsideUpdate
  MaxRecords = 4
  MaxLeftover = 0
INVARIANTS
  IndexPointsToLive
  CounterBelowTombstones
PROPERTIES
  ImplementsSqlTable
  StatementEnds
