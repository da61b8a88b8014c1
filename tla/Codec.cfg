SPECIFICATION Spec

CONSTANTS
  Ips <- TwoIps
  Ports <- TwoPorts
  Ticks <- TwoTicks
  Rands <- SomeRands
  ServerTexts <- Texts

INVARIANTS
  DecodesWhatWasSent
  ImplementsSTUNMsg

PROPERTIES
  DecodeEnds

CHECK_DEADLOCK FALSE
