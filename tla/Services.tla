------------------------------ MODULE Services ------------------------------
(***************************************************************************)
(* Parts of the server that several processes or requests work on at once: *)
(* the semaphore, the scheduler, the intake and the folds of measurements, *)
(* the flags, the notifications and the grants, each with its own state,   *)
(* and what is to hold of each.  They have no state in common.             *)
(***************************************************************************)
CONSTANTS
  Tasks, Limit, MaxWaiters,
  Hosts, PeriodicTasks, TTL, Latency, Terms, Renewals,
  Uploads, Deliveries, None, LastDay, Quota, MaxDeaths,
  FoldWorkers, RunWorkers, MaxAttempts, Expiring, MayForget, MaxRestores, MaxRefolds, MaxCrashes,
  Sites, Passes, MaxPeople, MaxChanges,
  Events, Users, UserOf, Pushers, BatchSize, MaxCloses,
  Requests, GrantKinds, Legacy, MaxGrants, MaxFailures

VARIABLES
  permits, waiters, task, aborted,
  leaderLock, ttl, life, election, current, active, beating, beat, chain, age,
  recorded, rawFiles, temporary, settled, delivery, sweep, day, crashes,
  upload, fold, locked, digest, files, rebuilds, folder, runner, restoring,
  due, unmarked, pastRetention, account, claims, spent,
  flags, people, lead, pass, opened, changes,
  row, call, retries, seen, now, clock, batch, ok, told, lateEvents, raced, closes,
  role, grants, nextId, req, failures, given

Semaphore == INSTANCE BoundedSemaphore WITH active <- permits, pc <- task
Leader == INSTANCE SchedulerLeader
            WITH Processes <- Hosts, Tasks <- PeriodicTasks, Calls <- Renewals, lock <- leaderLock
Intake == INSTANCE MeasurementIntake WITH MaxCrashes <- MaxDeaths, row <- recorded, files <- rawFiles
Folds == INSTANCE UploadFolds WITH expired <- pastRetention
Flags == INSTANCE ObservationFlags
Watches == INSTANCE WatchNotifications
             WITH Deliveries <- Pushers, Limit <- BatchSize, pc <- call, late <- lateEvents
Grants == INSTANCE RoleGrants WITH Kinds <- GrantKinds

\* No permit of the semaphore is lost or given twice (boundedSemaphore.ts).
ImplementsPool == []Semaphore!TypeOK /\ Semaphore!ImplementsPool

\* Tasks start in the one term of the host that holds the lock (index.ts).
TasksStartUnderLock == []Leader!TypeOK /\ Leader!TasksStartUnderLock

\* An accepted upload keeps its file (intake.ts, purge.ts).
RecordedFileKept == Intake!TypeOK /\ Intake!RecordedFileKept

\* The digest holds every upload as often as its fold row says (runs.rs).
CountedOnce == Folds!TypeOK /\ Folds!CountedOnce

\* A pass leaves the flags in line with the evidence it read (sync.ts).
CurrentPassSettles == []Flags!TypeOK /\ Flags!CurrentPassSettles

\* No event about a watched station is lost (notifications/service.ts).
EventsReachTheUser == Watches!TypeOK /\ Watches!EventsReachTheUser

\* The grants of a user fit the role (roles and grants of users).
GrantsFitRole == Grants!TypeOK /\ Grants!GrantsFitRole
=============================================================================
