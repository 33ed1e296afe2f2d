CONSTANTS
  Absent = Absent
  a1 = a1
  a2 = a2
  s1 = s1
  s2 = s2
  i1 = i1
  ActorIds = {a1, a2}
  Roles = {sec, rev}
  Security = sec
  Logins = {l1, l2}
  BootLogin = l1
  SessionIds = {s1, s2}
  Intents = {i1, i2, i3}
  Threads = {h1, h2}
  MaxVersion = 2
  Generations = {g1, g2, g3, g4}
  TripIds = {t1, t2}
  None = None
  c1 = c1
  c2 = c2
  p1 = p1
  b1 = b1
  Clients = {c1, c2, c3}
  Principals = {p1, p2}
  FeedbackIntents = {f1, f2}
  Subjects = {b1, b2}
  OwnerOf <- Owner
  Ratings = {1}
  RowIds = {1, 2}
  NoRow = NoRow
  Requests = {r1, r2, r3}
  Shared = FALSE
  MayFail = TRUE
  NoSession = NoSession
  Workers = {w1, w2}
  Nil = Nil
  Budget = 2
  Interval = 1
  Threshold = 2
  OpenFor = 2
  DayLength = 3
  MaxTime = 3
  CalendarIds = {e1, e2}
  Digests = {x1, x2}
  Operators = {o1}
  Grid = {540, 660, 780, 900, 1020, 1080, 1140, 1200}
  NoRoute = NoRoute
  NoDinner = NoDinner
  Sights = {1, 2, 3}
  Days = {1, 2}
  NoDay = NoDay
  MayTimeOut = TRUE
SPECIFICATION MCSpec
SYMMETRY Symmetry
CHECK_DEADLOCK FALSE
INVARIANTS
  ServicesTypeOK
  HistoryIsAChain
  SecurityAdminRemains
  AuditTellsHistory
  SharingIsSound
  LimitsAreKept
  TransactionsAreWhole
  JobPublishesOnce
  DayIsFeasible
  TripIsAccountedFor
PROPERTY
  CircuitRefuses
