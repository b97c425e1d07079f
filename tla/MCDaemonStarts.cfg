SPECIFICATION DaemonSpec
CONSTANTS
  Pids = {p1, p2}
  Clients = {c1}
  BusIds = {b1}
  Types <- MCTypes
  HexIds <- MCHexIds
  Sources <- MCSources
  DiscoverLinux <- discover_servers_blocking
  DiscoverMacos <- discover_servers_macos
  OthersAnnounced <- MCOthers
  SelfAddrs <- MCSelf
  ConcurrentStarts = TRUE
  MaxStarts = 2
  MaxPlugs = 1
  MaxCalls = 2
  MaxFaults = 1
INVARIANT OneDaemon
CHECK_DEADLOCK FALSE
