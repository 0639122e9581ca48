SPECIFICATION SessionSpec
CONSTANTS
  Procs = {"p1"}
  FileOrder <- MCFileOrder
  MaxSessions = 2
  MaxDirs = 1
  MaxLaunches = 4
  MaxKills = 0
INVARIANT NextResetRecovers
CHECK_DEADLOCK FALSE
