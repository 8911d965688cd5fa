SPECIFICATION CatalogSpec
CONSTANTS
  Tables = {"users", "posts"}
  Schemas = {"plain"}
  ColumnCount <- MCColumnCount
  Keyed = {"plain"}
  StopPhases <- MCStopInDrop
  MaxIncarnation = 2
PROPERTIES
  CreatedTableEmpty
