SPECIFICATION EnvSpec
CONSTANTS
  Admins = {}
  Checker = Checker
  NoPlugin = NoPlugin
  Recent = TRUE
  MaxProcs = 2
  MaxFailures = 4
  MaxChanges = 0
CHECK_DEADLOCK FALSE
INVARIANT RestartsLimited
