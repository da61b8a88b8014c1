SPECIFICATION FairSpec
CONSTANTS
  Threads <- TwoThreads
  Data <- Packets
  Asks <- Captures
  NoData = NoData
  Nodes = {n1, n2}
  Null = Null
  MaxFails = 1
  MaxTurns = 1
CHECK_DEADLOCK FALSE
INVARIANTS WellLinked ReadsOpenHandle SessionServesItsOwn
PROPERTIES ImplementsFifo StopReturns GetMsgReturns
