SPECIFICATION Spec
CONSTANTS
  Ids <- MCIds
  Reverses = {r1, r2}
  Times = {0, 1}
  Others <- OtherTables
  IdTblSizeStep = 2
INVARIANTS TypeOK ArrayOrdered
PROPERTIES ImplementsMap
VIEW State
