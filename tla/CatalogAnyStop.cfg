SPECIFICATION CatalogFairSpec
CONSTANTS
  Tables = {"users", "posts"}
  Schemas = {"plain", "broad", "keyless", "wide"}
  ColumnCount <- MCColumnCount
  Keyed = {"plain", "broad", "wide"}
  StopPhases <- MCAllStops
  MaxIncarnation = 2
INVARIANTS
  CatalogTypeOK
  KnownTablesOnDisk
  KnownTablesUsable
PROPERTIES
  WorkEnds
