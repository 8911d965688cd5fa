SPECIFICATION CatalogSpec
CONSTANTS
  Tables = {"users", "posts"}
  Schemas = {"plain", "wide"}
  ColumnCount <- MCColumnCount
  Keyed = {"plain", "wide"}
  StopPhases <- MCNoStops
  MaxIncarnation = 2
PROPERTIES
  InitSucceeds
