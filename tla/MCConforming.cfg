SPECIFICATION ConformingSpec
CONSTANTS
  r1 = r1 r2 = r2 i1 = i1 i2 = i2 s1 = s1 c1 = c1 c2 = c2
  NoId = NoId
  Requests = {r1, r2}
  Ids = {i1, i2}
  ReqId <- DistinctIds
  Expected <- Kinds
  Calls = {c1}
  Stoppers = {s1}
  Handles = {}
  ControlQueue = 1
  ReaderQueue = 1
  WriterQueue = 2
  RpcQueue = 1
  MaxActive = 1
  MaxPending = 1
  UsizeModulus = 4
  MaxEmits = 3
  TerminalKinds = {"initialized", "result"}
  GatewayMethods = {"granted"}
  HostCalls = {"message.edit"}
  ReuseCallIds = FALSE
INVARIANTS
  ConformingModuleNeverBlamed
CHECK_DEADLOCK FALSE
