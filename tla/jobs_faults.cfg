SPECIFICATION Spec
CONSTANTS
  s1 = s1
  s2 = s2
  Servers = {s1, s2}
  RunScheduler = {s1}
  MaxJobs = 2
  NBatches = 1
  MaxEvents = 1
  Events = {"crash", "stop", "leader", "config", "query"}
  Prompt = FALSE
CHECK_DEADLOCK FALSE
INVARIANT MigrationSound
