SPECIFICATION TopologySpec
CONSTANTS
  MaxElements = 3
  MaxLinks = 2
  Types <- AllTypes
  Testers = {}
CHECK_DEADLOCK FALSE
INVARIANT AssertionHolds
