SPECIFICATION DatabaseSpec
CONSTANTS
  LeafMaxCells = 3
  Keys = {1, 2, 3, 4}
  Builds = {3}
  Tables = 1
  Shouted = u
  Words = {a, b, c}
  Names <- MCNames
  Busy = 1
SYMMETRY Symmetry
INVARIANTS
  CatalogListsTables
  TablesAreDistinct
  SavedTablesReturn
