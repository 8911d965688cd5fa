SPECIFICATION StatementSpec
CONSTANTS
  NoList <- MCNoList
  Schemas <- MCSchemas
  Inserts <- MCInserts
  CsvLines <- MCFittingLines
  Updates <- MCUpdates
  MaxRows = 2
INVARIANTS
  DefaultsSubstituted
