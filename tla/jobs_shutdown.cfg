SPECIFICATION Spec
CONSTANTS
  s1 = s1
  Servers = {s1}
  RunScheduler = {s1}
  MaxJobs = 3
  NBatches = 2
  MaxEvents = 1
  Events = {"stop"}
  Prompt = TRUE
CHECK_DEADLOCK FALSE
INVARIANT ShutdownReturns
