SPECIFICATION SessionSpec
CONSTANTS
  PrivateIPs = {2, 3}
  PublicIPs = {4, 5}
  NATPublicIPs <- TwoNatIPs
  MaxPort = 5
  ClientPorts = {3, 4, 5}
  ServerPorts = {1, 2}
  Timeout = 2
  Configs <- OneConfig
  ClientA = 2
  ClientB = 3
  SourcePort = 3
  ServerAIP = 4
  ServerBIP = 5
  ServerPort1 = 1
  ServerPort2 = 2
  NumMessages = 2
  Sleeps = {1, 2}
  MaxLost = 0
  MaxFails = 0
  Late = TRUE
CHECK_DEADLOCK FALSE
INVARIANT TransactionMatched
