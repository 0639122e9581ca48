SPECIFICATION FairSpec
CONSTANTS
  r1 = r1 r2 = r2 r3 = r3 i1 = i1 i2 = i2 i3 = i3
  NoId = NoId
  s1 = s1 s2 = s2 c1 = c1 c2 = c2 h1 = h1
  Requests = {}
  Ids = {}
  ReqId <- NoRequestIds
  Expected <- NoExpected
  Calls = {c1}
  Stoppers = {}
  Handles = {h1}
  ControlQueue = 2
  ReaderQueue = 1
  WriterQueue = 1
  RpcQueue = 1
  MaxActive = 1
  MaxPending = 1
  UsizeModulus = 4
  MaxEmits = 1
  TerminalKinds = {}
  GatewayMethods = {}
  HostCalls = {"message.edit"}
PROPERTIES
  ReleaseWaitsForHostCalls
CHECK_DEADLOCK FALSE
