CONSTANTS
  Indexes = {i1}
  Keys = {1, 2, 3, 4, 5}
  RowIds = {7}
  Order = 2
  NoIndex = NoIndex
  Tables <- MCTables
  MaxSavedHeight = 2
SPECIFICATION Spec
INVARIANTS
  SearchTrees
  RangesAreComplete
  FindIsMap
