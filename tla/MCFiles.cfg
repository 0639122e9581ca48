SPECIFICATION FilesSpec
CONSTANTS
  Names = {"help", "lm", "x"}
  Builtin = {"help", "lm"}
  Aliasable = {"help"}
  PrefixTexts = {",", "!", "a"}
  ValidPrefixes = {",", "!"}
  MaxAliases = 1
  MaxArgs = 1
  MaxCommands = 3
  MaxCrashes = 1
  MaxGen = 3
  MaxEntries = 2
  Ttl = 1
  MaxTime = 1
  RenameFails = TRUE
  CleanupFails = TRUE
  Procs = {"p1", "p2"}
  FileOrder <- MCFileOrder
  MaxSessions = 2
  MaxDirs = 2
  MaxLaunches = 4
  MaxKills = 1
INVARIANTS
  StoresInv
  InstallInv
  SessionInv
PROPERTIES
  FilesSteps
CHECK_DEADLOCK FALSE
