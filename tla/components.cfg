SPECIFICATION Spec
CONSTANTS
  c1 = c1
  c2 = c2
  c3 = c3
  c4 = c4
  u1 = u1
  u2 = u2
  x = x
  n1 = n1
  n2 = n2
  s1 = s1
  Conns = {c1, c2, c3, c4}
  Users = {u1, u2}
  UserOf <- MCUserOf
  Everyone = Everyone
  Keys = {k1, k2, k3}
  Values = {v1, v2}
  Size = 2
  None = None
  MaxGeneration = 1
  Clients = {p, q}
  KvValues = {x, y}
  NoValue = NoValue
  Routines = {g1, g2, g3}
  Timers = {t1, t2}
  MutexHolder = MutexHolder
  NoTimer = NoTimer
  Tasks = {a, b}
  Starters = {s1, s2}
  NoTask = NoTask
  NoJob = NoJob
  Notifications = {n1, n2}
  UserIds = {u1}
  Recipient <- MCRecipient
  BufferSize = 1
  Cards = {d1, d2, d3}
  MaxClasses = 3
CHECK_DEADLOCK FALSE
INVARIANTS
  TypesOK
  Consistent VisitOnce
  LiveInFront
  HashedIsGone
  WakeUpComes AllAwaited
  OnlyRacesHurt
  OneTask MailedOnce
  CardsFollowMouse
PROPERTIES
  ImplementsMap ImplementsRegister
  WaitsEnd AllSettled
