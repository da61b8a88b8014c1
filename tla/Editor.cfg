SPECIFICATION EditorSpec
CONSTANTS
  MaxElements = 3
  MaxLinks = 2
  Types <- Simulated
  Testers = {t1}
  Device = "en1"
  Offered <- TwoOptions
  MaxDrags = 3
  MaxEdits = 1
  MaxTests = 1
CHECK_DEADLOCK FALSE
INVARIANTS CanvasMirrors AddressesDistinct ConfigReachesParts
PROPERTIES SavedIsOpened MarksInvolved
