SPECIFICATION Spec
CONSTANTS
  Tables <- MCTables
  Ids <- MCIds
  Stale = {0, 99}
INVARIANTS Narrowed FindsPosition
PROPERTIES Terminates
