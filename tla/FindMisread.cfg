SPECIFICATION CatalogSpec
CONSTANTS
  Tables = {"users", "posts"}
  Schemas = {"plain", "broad"}
  ColumnCount <- MCColumnCount
  Keyed = {"plain", "broad"}
  StopPhases <- MCStopInDrop
  MaxIncarnation = 2
PROPERTIES
  InitSucceeds
