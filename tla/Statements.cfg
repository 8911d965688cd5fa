SPECIFICATION StatementSpec
CONSTANTS
  NoList <- MCNoList
  Schemas <- MCSchemas
  Inserts <- MCInserts
  CsvLines <- MCFittingLines
  Updates <- MCUpdates
  MaxRows = 2
INVARIANTS
  StatementTypeOK
  RestartKeepsSchema
  StoredAsDenoted
  ReadsWithinRecords
  VerdictAgrees
PROPERTIES
  InsertsCutOnlyByDefault
