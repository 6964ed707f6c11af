SPECIFICATION Spec
CONSTANTS
  u1 = u1
  Everyone = Everyone
  Conns = {c1}
  Users = {u1}
  UserOf <- MCUserOf
  Callers = {}
  QueueCap = 1
  SendCap = 0
  Overflow = FALSE
  Verdicts = {"gone"}
  Reauth = TRUE
CHECK_DEADLOCK FALSE
INVARIANT Consistent
