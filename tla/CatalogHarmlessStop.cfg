SPECIFICATION CatalogSpec
CONSTANTS
  Tables = {"users", "posts"}
  Schemas = {"plain", "widest"}
  ColumnCount <- MCColumnCount
  Keyed = {"plain", "widest"}
  StopPhases <- MCHarmlessStops
  MaxIncarnation = 3
INVARIANTS
  OwnRecords
PROPERTIES
  InitSucceeds
  ImplementsRegistry
