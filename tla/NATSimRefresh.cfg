SPECIFICATION ThreadsSpec
CONSTANTS
  PrivateIPs = {2, 3}
  PublicIPs = {4}
  NATPublicIPs <- OneNatIP
  MaxPort = 2
  ClientPorts = {0, 1}
  ServerPorts = {0}
  Timeout = 2
  MaxAge = 0
  MaxLate = 0
  MaxTimeouts = 1
  Configs <- PlainConfigs
INVARIANTS RefreshesTracedEntry
