SPECIFICATION MessagesSpec
CONSTANTS
  m1 = m1 m2 = m2 hello = hello goodbye = goodbye
  photo = photo text1 = text1 text2 = text2 host1 = host1
  menuForm = menuForm botEdit = botEdit
  UserText = UserText Absent = Absent NoOp = NoOp User = User
  Msgs = {m1, m2}
  Texts = {hello, goodbye}
  Ops = {photo, text1, text2, host1, menuForm, botEdit}
  Kind <- EditKind
  Target <- Targets
  Text <- MixedTexts
  MaxEntries = 3
  MaxUserEdits = 2
  Invocations = {"c1", "c2", "c3"}
  InvKind <- MCKind
  PeerOf <- MCPeer
  Own = {"c1", "c3"}
  Replied = {"c2"}
  HandleCap = 3
  HandleTtl = 1
  MaxClock = 1
  GrantSets <- MCGrants
  Mods = {"m1", "m2"}
  Forms = {"f1", "f2"}
  Owners <- MCOwners
  MenuCap = 1
  PubCap = 1
  MaxPresses = 1
  MaxLives = 2
INVARIANTS
  OwnEditNeverRouted
  ProvenanceInv
  CallsInv
  BotInv
PROPERTIES
  MenuContract
CHECK_DEADLOCK FALSE
