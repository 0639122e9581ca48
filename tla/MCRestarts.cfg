SPECIFICATION RestartsSpec
CONSTANTS
  m1 = m1 m2 = m2 t1 = t1 t2 = t2
  NoMsg = NoMsg NoSlot = NoSlot
  Msgs = {m1, m2}
  Slots = {t1, t2}
  Ttl = 1
  MaxFuture = 0
  MaxAttempts = 2
  MaxClock = 2
  MaxStarts = 3
  u1 = u1 u2 = u2
  None = None
  Usernames = {u1, u2}
  MaxNames = 2
  MaxFlows = 2
  MaxQueue = 2
  MaxRestarts = 1
  log = log a1 = a1
  Topics = {log, a1}
  LogTask = log
  FolderIds = {2, 3}
  Capacity = 2
  Other <- PrivatePeer
  MaxGroups = 2
  MaxRuns = 2
  MaxEdits = 1
  StorageFails = TRUE
INVARIANTS
  TypeOK
  CompletedMeansRestarted
  FailedMeansNoReceipt
  ReceiptInv
  SetupInv
  WorkspaceInv
PROPERTIES
  RestartsSteps
CHECK_DEADLOCK FALSE
