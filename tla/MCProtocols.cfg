SPECIFICATION ProtocolsSpec
CONSTANTS
  MaxRequest = 2
  Versions = {2, 4, 5}
  ParentTime = 5
  ExecuteTime = 2
  CallTime = 2
  ReserveTime = 1
  TerminalTime = 2
  ShortTime = 1
  PipeSize = 2
INVARIANTS
  LegacyInv
  CodecInv
  GrantsHonoured
  SourceInv
  RoutingInv
PROPERTIES
  ImplementsService
  SentRequestEnds
