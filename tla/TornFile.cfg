SPECIFICATION TornSpec
CONSTANTS
  Base = 64
  KeyTexts <- MCKeys
  ValTexts <- MCValues
  MaxCells = 39
  MaxTears = 1
INVARIANTS
  TornTypeOK
  RecordsUndamaged
  IndexNamesRecords
PROPERTIES
  SelectReadsRecords
  ScansEnd
