SPECIFICATION RequestsSpec
CONSTANTS
  u1 = u1
  Everyone = Everyone
  Conns = {c1}
  Users = {u1}
  Callers = {x1}
  QueueCap = 1
  r1 = r1
  r2 = r2
  r3 = r3
  p1 = p1
  Keys = {p1, NoId}
  Values = {r1, r2, r3, Unknown}
  Size = 1
  None = None
  MaxGeneration = 0
  Requests = {r1, r2, r3}
  PendingOf <- MCPendingOf
  NoId = NoId
  Unknown = Unknown
CHECK_DEADLOCK FALSE
INVARIANTS
  RequestsTypeOK
  OnePost RightReply PendingIsOwned
PROPERTIES
  CallsReturn PumpsFinish
  PendingEnds
