SPECIFICATION TopologySpec
CONSTANTS
  MaxElements = 3
  MaxLinks = 2
  Types <- FourTypes
  Testers = {t1, t2}
SYMMETRY TesterSymmetry
CHECK_DEADLOCK FALSE
INVARIANTS LinksMutual RoutesComplete ChosenIsTested TestKeepsDocument
