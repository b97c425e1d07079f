SPECIFICATION FairEngineSpec
CONSTANTS
  Tasks <- MCTasks
  EngineOf <- MCEngineOf
  Devices <- MCDevices
  Speed <- MCSpeed
  PortList <- MCPortList
  HubOf <- MCHubOf
  Platforms <- MCPlatforms
  PolicyOf <- MCPolicyOf
  MaxCalls = 3
  MaxFaults = 1
  MaxAttempt = 2
INVARIANTS LeaseIsUsed OwnImportsListed
PROPERTIES RetriesAsConfigured ReconnectSucceeds
CHECK_DEADLOCK FALSE
