SPECIFICATION ScenarioSpec
CONSTANTS
  r1 = r1 r2 = r2 r3 = r3 i1 = i1 i2 = i2 i3 = i3
  NoId = NoId
  s1 = s1 s2 = s2 c1 = c1 c2 = c2 h1 = h1
  Requests = {r1, r2, r3}
  Ids = {i1, i2}
  ReqId <- ReusedId
  Expected <- Lifecycle
  Calls = {c1}
  Stoppers = {s1, s2}
  Handles = {}
  ControlQueue = 2
  ReaderQueue = 1
  WriterQueue = 2
  RpcQueue = 1
  MaxActive = 1
  MaxPending = 1
  UsizeModulus = 4
  MaxEmits = 2
  TerminalKinds = {"initialized", "result"}
  GatewayMethods = {"granted"}
  HostCalls = {"message.edit"}
  Scenarios <- LifecycleAndShutdown
INVARIANTS
  SequentialContract
  FlushDiscipline
  ShutdownBarrier
  ClosingDrainsRequests
  StopContract
CHECK_DEADLOCK FALSE
