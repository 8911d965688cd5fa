SPECIFICATION StatementSpec
CONSTANTS
  NoList <- MCNoList
  Schemas <- MCSchemas
  Inserts <- MCInserts
  CsvLines <- MCFittingLines
  Updates <- MCEmptyUpdates
  MaxRows = 2
INVARIANTS
  StoredAsDenoted
