SPECIFICATION Spec
CONSTANTS
  PrivateIPs = {2, 3}
  PublicIPs = {4, 5}
  NATPublicIPs <- TwoNatIPs
  MaxPort = 1
  ClientPorts = {0}
  ServerPorts = {0, 1}
  Timeout = 2
  Configs <- NATConfigs
INVARIANTS BindingExclusive PortsAccounted TablesMirror
PROPERTIES ReplyReachesSender OnlyOverLiveBinding
