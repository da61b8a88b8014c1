SPECIFICATION ThreadsSpec
CONSTANTS
  PrivateIPs = {2, 3}
  PublicIPs = {4}
  NATPublicIPs <- OneNatIP
  MaxPort = 1
  ClientPorts = {0}
  ServerPorts = {0}
  Timeout = 1
  MaxAge = 1
  MaxLate = 1
  MaxTimeouts = 1
  Configs <- ThreadConfigs
INVARIANTS NoFault PortsHeld FreshBindingExclusive
PROPERTIES AnsweredWhenDone StopReturns
