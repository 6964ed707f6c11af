SPECIFICATION Spec
CONSTANTS
  s1 = s1
  s2 = s2
  Servers = {s1, s2}
  RunScheduler = {s1, s2}
  MaxJobs = 2
  NBatches = 1
  MaxEvents = 1
  Events = {"cancel", "stop"}
  Prompt = FALSE
CHECK_DEADLOCK FALSE
SYMMETRY Symmetry
INVARIANTS ClaimExclusive MigrationSound ExecutorAlive
PROPERTIES NeverReactivated VerdictStands
