SPECIFICATION Spec
CONSTANTS
  s1 = s1
  s2 = s2
  Servers = {s1, s2}
  RunScheduler = {s1}
  MaxJobs = 3
  NBatches = 2
  MaxEvents = 1
  Events = {"cancel"}
  Prompt = TRUE
CHECK_DEADLOCK FALSE
INVARIANT SingleInstance
