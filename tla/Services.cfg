CONSTANTS
  Calls = {c1, c2}
  MaxVersion = 2
  Tasks = {t1, t2, t3, t4}
  Limit = 2
  MaxWaiters = 2
  Hosts = {h1, h2}
  PeriodicTasks = {k1}
  TTL = 3
  Latency = 2
  Terms = {n1}
  Renewals = {x1}
  Uploads = {u1}
  Deliveries = {d1, d2}
  None = None
  LastDay = 2
  Quota = 2
  MaxDeaths = 1
  FoldWorkers = {f1, f2}
  RunWorkers = {r1, r2}
  MaxAttempts = 2
  Expiring = {u1}
  MayForget = TRUE
  MaxRestores = 1
  MaxRefolds = 1
  MaxCrashes = 1
  Sites = {1, 2}
  Passes = {p1, p2}
  MaxPeople = 2
  MaxChanges = 2
  Events = {e1, e2, e3}
  Users = {w1}
  UserOf <- OneUser
  Pushers = {s1}
  BatchSize = 1
  MaxCloses = 2
  Requests = {q1, q2}
  GrantKinds = {pl, de}
  Legacy = pl
  MaxGrants = 4
  MaxFailures = 1
SPECIFICATION PartSpec
INVARIANTS
  CacheIsSound
  RecordedFileKept
  CountedOnce
  EventsReachTheUser
  GrantsFitRole
PROPERTIES
  ImplementsPool
  TasksStartUnderLock
  CurrentPassSettles
SYMMETRY PassSymmetry
CHECK_DEADLOCK FALSE
