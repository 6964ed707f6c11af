SPECIFICATION Spec
CONSTANTS
  u1 = u1
  Everyone = Everyone
  Conns = {c1, c2}
  Users = {u1}
  UserOf <- MCUserOf
  Callers = {}
  QueueCap = 1
  SendCap = 1
  Overflow = TRUE
  Verdicts = {"gone", "idle"}
  Reauth = FALSE
CHECK_DEADLOCK FALSE
SYMMETRY Symmetry
INVARIANTS HubNeverPanics Reachable NoneLeft
PROPERTY UsesIndex
