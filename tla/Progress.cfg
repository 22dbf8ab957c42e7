\* One host whose terms end and begin again, an upload that is removed and
\* restored while a worker folds, and two processes with one update.
CONSTANTS
  Hosts = {h1}
  Tasks = {t1}
  TTL = 2
  Latency = 1
  Terms = {n1, n2}
  Calls = {c1}
  Uploads = {u1}
  FoldWorkers = {f1}
  RunWorkers = {r1}
  None = None
  MaxAttempts = 2
  Expiring = {u1}
  MayForget = TRUE
  MaxRestores = 1
  MaxRefolds = 1
  MaxCrashes = 1
  Processes = {p1, p2}
  Patches = {a}
  Seeded = FALSE
  LockExpires = TRUE
  MaxUpdates = 1
  MaxFaults = 1
SPECIFICATION FairSpec
PROPERTIES
  SchedulerGoesOn
  RemovedGoes
  SettingsAgree
CHECK_DEADLOCK FALSE
