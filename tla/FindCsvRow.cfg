SPECIFICATION StatementSpec
CONSTANTS
  NoList <- MCNoList
  Schemas <- MCSchemas
  Inserts <- MCInserts
  CsvLines <- MCCsvLines
  Updates <- MCUpdates
  MaxRows = 2
PROPERTIES
  BadRowsSkipped
