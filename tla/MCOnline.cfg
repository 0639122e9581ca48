SPECIFICATION OnlineSpec
CONSTANTS
  MAX_EVENT_DISPATCH_TASKS = 2
  UPDATE_STREAM_RESTART_AFTER = 3
  MaxUpdates = 3
  Parents <- MCParents
  MaxCycles = 3
  MaxMoves = 1
  VersionOf <- MCVersionOf
  Capacity = 1
  MaxEvents = 5
  MaxTokens = 2
  Modules = {"m", "n"}
  Manifests <- MCManifests
  MaxStarts = 2
INVARIANTS
  HostInv
  UpstreamInv
  LogInv
  CatalogInv
PROPERTIES
  OutageEndsLoop
CHECK_DEADLOCK FALSE
