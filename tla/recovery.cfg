SPECIFICATION RecoverySpec
CONSTANTS
  s1 = s1
  s2 = s2
  Servers = {s1, s2}
  RunScheduler = {s1}
  MaxJobs = 2
  NBatches = 2
  MaxEvents = 1
  Events = {"crash", "stop", "cancel"}
  Prompt = TRUE
  Admins = {a1}
  Checker = Checker
  NoPlugin = NoPlugin
  Recent = FALSE
  MaxProcs = 2
  MaxFailures = 2
  MaxChanges = 1
CHECK_DEADLOCK FALSE
INVARIANTS
  RecoveryTypeOK
  OneInProgress
  NoStrayProcess
PROPERTIES
  ImplementsMigration
  MigrationEnds CancelAnswered
  DeadIsReplaced
