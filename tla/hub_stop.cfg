SPECIFICATION StopSpec
CONSTANTS
  u1 = u1
  Everyone = Everyone
  Conns = {c1, c2}
  Users = {u1}
  UserOf <- MCUserOf
  Callers = {}
  QueueCap = 1
  SendCap = 0
  Overflow = FALSE
  Verdicts = {}
  Reauth = FALSE
CHECK_DEADLOCK FALSE
PROPERTY StopReturns
