# A verification of btsearch

btsearch is a database of mobile base stations. Official registers of several
countries are imported, users submit corrections, phones upload measurements,
and the three are brought together. This directory holds TLA+ models of its
core logic, the TLC runs that check them on small instances, and theorems that
TLAPS proves for all instances. The models follow the code where concurrency,
failure and persistence meet: the import of official registers, the scheduler,
measurements, submissions, stations, the audit log, and the library that these
share.

Paths below are relative to `src/apps/server/src` unless they start elsewhere.

## 1. Inventory

| component | state | operations | what makes it correct | module |
|---|---|---|---|---|
| run queue (`features/official/import/runs.ts`, `runner.ts`) | rows of `import_runs`: state, claim token, attempt, heartbeat | enqueue, claim, heartbeat, ownership transaction, finish, fail, delete, cancel, hand back, prune | one running run per source, one owner per run, work fenced by attempt, ended runs stay ended, every run ends | `ImportRuns`, `ImportLease` |
| processing of a run (`run.ts`, `datasets.ts`, `download.ts`, `snapshots.ts`, `release.ts`, `guard.ts`, `checkpoints.ts`) | listed files, snapshots, applied slices, checkpoints, approvals | discover, check a listing, download, record, compare, stage, guard, apply, forget an idle run | checkpoints tell what was stored; a slice shrinks only with approval; requests are decided; nothing published is missed for ever | `ImportDatasets` |
| after-steps (`afterSteps.ts`, `steps/*`) | `import_run_steps`, `import_changes`, notifications, links; pushes and messages outside the database | start, perform, finish and resume ten steps | each notification once, push at most once, completion at least once, nothing left out | `ImportAfterSteps` |
| scheduling and requests (`schedule.ts`, `features/official/importRuns.ts`, `scripts/officialImport.ts`) | `next_check_at` per dataset | queue due imports, queue a requested run, switch and re-time datasets, command line | a check is queued once and the next one lies on the grid; two requests never both get a run | `ImportSchedule` |
| licensees and remap (`features/official/licensees.ts`, `import/remap`) | operator and brand of a licensee, remap runs, the sites, permits, listings and links of both operators | map, queue, plan, apply, attempt again | one remap at a time; what the licensee lists moves, and nothing is lost or left behind | `LicenseeMapping`, `OfficialRemap` |
| sites and permits (`import/sites`) | sites, locations, permits, sectors, listings, changes | stage, guard, move, insert, list, archive, delete orphans | the rows are those of the releases; the stronger dataset places a site; changes tell what happened | `OfficialSites` |
| microwave links (`import/links`) | links with their records and dates | match, renew, update, archive | a row is one link for ever | `MicrowaveLinks` |
| station links (`features/official/links.ts`, `linkRule.ts`) | links between stations and sites | correct in an edit, in an import, rebuild | the links are those a rebuild would find | `StationLinks` |
| scheduler leadership (`index.ts`, `lib/redisLock.ts`) | a lock in Redis, terms and timers per process | elect, renew, run a task, resign | tasks start under the lock; a leader in the end | `SchedulerLeader` |
| submissions (`features/submissions`) | proposals, photos, files | create, edit, upload, review, delete, clean up | a decision is taken once, on what the reviewer saw; every photo has its file | `Submissions` |
| stations and locations (`features/stations`, `features/locations`) | stations, locations, photos, selections | move a station, move a location, detach, delete | a station keeps its photos; an occupied location stays | `StationLocations` |
| audit and revert (`features/audit`) | operations with old and new values, markers | record, join, revert, revert a revert | a revert takes back what it says, once, and no later edit | `AuditRevert` |
| measurement intake (`features/measurements`) and engine queue (`engine/crates/store/src/queue.rs`, `runs.rs`) | uploads, files, folds | receive, claim, fold, withdraw, exclude, restore, subtract, rebuild, purge | a file lives while it is needed; an upload counts once; what is removed stops counting | `MeasurementIntake`, `UploadFolds` |
| observed cells and flags (`features/observed`) | flags and their reviews | pass, move, raise, resolve, dismiss, reopen | a pass leaves the flags in line with its evidence | `ObservationFlags` |
| notifications (`features/notifications`) | unread notifications, push queue | create, coalesce, read, push | no event lost | `WatchNotifications`, `ImportAfterSteps` |
| roles (`features/access`, `features/audit/auth`) | role and grants of a user | grant, revoke, hooks around the library's write of a role | grants fit the role | `RoleGrants` |
| library (`lib/`) | semaphore, stale cache, runtime settings | acquire, release, abort; load, store, wait; update, publish, resynchronise | no permit lost; no copy undone; processes agree | `BoundedSemaphore`, `PermitPool`, `StaleCache`, `RuntimeSettings` |
| fold and estimate (`engine/crates/fold`, `estimate`, `geo`) | sums over squares | fold, subtract, estimate | floating point, out of TLC's reach | none |
| search, statistics, exports, terrain, images, client views, Discord bot | none of their own | queries and presentation | | none |

How they interact: an administrator, the command line or the scheduler inserts
a run; importer processes poll for runs and claim them; the processing of a run
commits everything in *ownership transactions* (`inRunTransaction`), each of
which locks the row of the run and checks its token; the after-steps work on
the `import_changes` that the processing left, and talk to Redis and to push
services outside of a transaction. One host, the holder of a Redis lock, runs
the periodic tasks (checks, pushes, purges, clean-ups). Submissions, station
edits and reverts write stations, locations and photos in audited transactions,
and each of them corrects the links of the groups it touches. The measurement
engine, in Rust, shares only the database and the raw files with the server.

What is hard here: two processes may believe that they own one run (a stale
heartbeat, a crash, a hand-back, a cancel), or that they are the scheduler; a
statement decides on a snapshot; a run is resumed half way, from what the
database says, while its publisher has changed the files; files, Redis and push
services cannot be rolled back; transactions lock different rows and read in
READ COMMITTED. `PROJECT.json` lists the hazards at the line where they bite.

## 2. Modules

```
ImportLease          what the run table promises
ImportRuns           implements ImportLease           <- MCImportRuns        ImportRunsProofs
ImportDatasets       what a run stores                <- MCImportDatasets    ImportDatasetsProofs
ImportAfterSteps     what a run does afterwards       <- MCImportAfterSteps  ImportAfterStepsProofs
Official             four parts beside the runs       <- MCOfficial          OfficialProofs
  ImportSchedule, OfficialRemap, MicrowaveLinks
  StationLinks       (also <- MCStationLinks)                                StationLinksProofs
LicenseeMapping                                       <- MCOfficial          OfficialProofs
OfficialSites                                         <- MCOfficial
Services             seven parts of the server        <- MCServices
  BoundedSemaphore   implements PermitPool, what a semaphore promises        ServiceProofs
  SchedulerLeader    (with fairness <- MCProgress)                           ServiceProofs
  WatchNotifications, RoleGrants                                             ServiceProofs
  MeasurementIntake, ObservationFlags                                        MeasurementProofs
  UploadFolds        (with fairness <- MCProgress)                           MeasurementProofs
StaleCache                                            <- MCServices          ServiceProofs
RuntimeSettings      (with fairness)                  <- MCProgress
Contributions        submissions and the audit log    <- MCStations          ContributionProofs
  Submissions, AuditRevert
StationLocations                                      <- MCStations
```

`Official`, `Services` and `Contributions` have no behaviour of their own. Each
takes an instance of the modules below it, with constants and variables as free
as theirs, and conjoins what the module promises into one property per part. A
run lists these properties and a theorem states the same definitions.

The composition of the import is by assumption and guarantee. ImportRuns shows,
for any pipeline that commits in ownership transactions, that only the latest
claim of the one running run of a source commits. ImportDatasets and
ImportAfterSteps start from that: ImportDatasets has one run at a time and one
worker, whose claim may end at every step; ImportAfterSteps lets the replaced
workers live on, because they act outside of the database, and lets only the
latest commit. OfficialSites, OfficialRemap, MicrowaveLinks and LicenseeMapping
take the application of a release or a remap as one transaction for the same
reason. SchedulerLeader shows how far one may rely on a single scheduler;
ImportSchedule does not rely on it and has two.

### ImportRuns

The variables are the columns of `import_runs` (`state`, `source`, `token`,
`attempt`, and `stale` for an old `heartbeat_at`) and the memory of each
process (`pc`, the claimed `run` with `ownToken` and `ownAttempt`, the snapshot
`seen` of its claim statement, `stopping`, `aborted`). `log` records which
attempt committed a piece of work.

- `ClaimSnapshot` and `Claim` are two steps, because PostgreSQL evaluates
  `NOT EXISTS (... running)` on the snapshot of the statement. What stops a
  second run of the source is the partial unique index (`IndexRefuses`).
- `Locked` is the row lock of `requireOwnership`; claims skip a locked row,
  cancels, heartbeats and hand-backs wait for it.
- `HeartbeatLapses` may happen to a live process: `now()` is the start of a
  transaction, and a heartbeat waits for the row lock of a long one.
- `token` is the number of the claim that wrote it, which stands for a fresh
  UUID. `CancelRun` keeps it, as the code does.
- A dry run is a `BeginTransaction` that ends in `RollbackTransaction`.
- `CommandLine` processes are those of `scripts/officialImport.ts`: they claim
  a run by its id and never hand one back.

### ImportDatasets

One source with its publisher. `PublishFile` and `PublishLayout` change what is
served; `head` is what a HEAD request answers (ETag, date, size) and changes
with every change of the file. A run passes through `BeginDataset` (discovery,
checkpoints and approvals), `CheckRelease` (HEAD, `isListedUnchanged`,
`mustRead`), `ObtainRelease` (the download, which may find other bytes than the
HEAD was about), `RecordRelease` (files, snapshot and listing, in a transaction
of its own), `CheckpointUnchanged` or `ReadRelease` and `SettleRelease` (the
guard and its application, one transaction), `EndDataset`/`FailDataset`, and
`ForgetUnchangedImport` or the after-steps. `LoseClaim` ends an attempt at any
point. The primary key of `import_run_slices` is part of the model: a second
checkpoint of a slice fails the dataset.

The guard compares two units, and so does the model. `Readings` gives the bytes
of a file what may be read in them (that depends on the licensees mapped by then),
and for each slice how many rows are *staged* (a permit at a place for an
operator, or a line of a link) and how many records they are *stored* as (a
permit has one listing, a link one row). The variable `stored` has the records of
a slice, which `LiveCount` counts; `Remap`, between the runs, takes some of them
away by merging permits or taking them off the list. `ShrinkIsApproved` says what
the guard is worth under this: without an approval of the very bytes that are
applied, a slice is never emptied, and the *rows* of the release are at most
`hold_shrink_percent` fewer than the *records* stored. The records left may be
fewer than that, and in the run they are: 5 records come down to 3 by 4 rows of
which two name one permit.

Abstractions: a release has one file; its bytes stand for their hash and
snapshot; a permit is in one slice of a dataset; datasets and releases come in
any order; the rows of a run that ended are dropped, because no later run reads
them.

### ImportAfterSteps

The step table, the changes in the order of their sequence numbers, and several
workers in the steps of one run. Every step of `steps/index.ts` is there, in its
order. `NotifyPage` makes the notifications and saves the progress in one
transaction (`notifyInPages`); `MarkPush` commits before `SendPush` acts, and
`PublishCompletion` acts before `MarkPublished` commits. A retried deadlock has
not happened.

Abstractions: a site stands for an official site, for the one station linked to
it (`stations_official_sites` is one to one, which is also why the sequence
numbers of two summaries differ) and for a permit of it; who watches what does
not change during the run; statistics, kmz, orphans and prune pass through with
their transactions and without their effects; the cursor of unlisted permits is
left out, because archived permits are gone.

### ImportSchedule

Datasets with their interval and `next_check_at`, runs that wait or run, and
the transactions of the scheduler (`queueDueImports`: locks the rows of the
datasets) and of a request (`queueRequestedRun`: locks the row of the source).
Each scheduler takes the time before it waits for the locks. Intervals and
switches are changed by routes meanwhile; the command line only inserts.

### LicenseeMapping and OfficialRemap

LicenseeMapping has the row of a licensee, the administrators that change it
under its lock (`changeLicensee`), and the remap runs with their attempts.
OfficialRemap has the rows of one remap: sites with a code, with a reference or
both, permits, listings of several datasets, follows, notices and links; the
plan of `plan.ts`, its application, and a second attempt after the commit. It
starts from every choice of rows that the schema allows on the instance. Which
licensee had which operator is a constant (`Mappings`).

### OfficialSites

Releases as sets of lines, staged, guarded slice by slice and applied in one
transaction (`applySites`); `finish` archives unlisted permits and deletes
orphans page by page, or the run fails before it. The instance with the Polish
layout has a registry that yields the placement of sites to the permit files;
the French one has states and sectors. `SlicesDiffer` assumes that two files do
not list one permit in one slice, as the packs of the countries do.

### MicrowaveLinks

The matching of a release with the stored links (`decideLinks`) by key, then by
hop for renewals, with duplicates, and the dates of rows and of their technical
columns. Releases come in the order of their dates.

### StationLinks

Editors and one importer, statement by statement in READ COMMITTED with their
row locks: lock the stations of the groups, read sites, read stations, read the
stored links, write the difference. Two variables note what the properties
leave out. `missed` has the groups that a run has changed which failed before its
links step; a later run reads its own changes only. `met` has the stations that
came into a group while an import was at work, and those that lost a link to a
transaction that did not lock them. `SettledAsRebuilt` leaves out both,
`LinksAsRebuilt` only the first, and fails (below).

### SchedulerLeader

Elections, terms, the renewing interval, and one chain of timers per task. A
Redis command is executed when it is sent and its reply handled later; `Latency`
is the longest time for that, and less than the time to live, `TTL`, of the
lock. Processes crash, are stopped, and restart.

### MeasurementIntake and UploadFolds

MeasurementIntake has deliveries of one upload (file, then row), the quota, days
and the sweep of orphans. The time between a delivery's file and its row is
taken to be under the hour that the sweep grants. UploadFolds has the queue of
the engine: claims by time, folds, subtractions, restores, refolds, rebuilds,
and the removal of raw files by the purge and by the deletion of an account;
`digest` counts how often the readings of an upload are in the digest tables.

### BoundedSemaphore, StaleCache, RuntimeSettings

A step of the semaphore is what the event loop runs without a break, so a
waiter that was handed a permit may be aborted before it goes on. The cache has
one key, its lock with expiry, copies with versions, and callers that wait for
another's load. RuntimeSettings has the stored key, the messages, the
resynchronisation of every process, and updates under a lock whose transaction
may fail. `Seeded` says whether Redis was set up before; the run starts with an
empty one, whose defaults may overwrite an update that another process has just
saved: `SettingsAgree` says that all processes agree, not that this update is
kept on the first start of an installation.

### Submissions, StationLocations, AuditRevert

A request of Submissions reads, writes files, and then has one transaction under
the row lock of the submission; files are removed after the commit, and the
process may die at any point. A transaction of StationLocations that may delete
a location is two steps, the count of the stations left and the deletion. In
AuditRevert a change is READ COMMITTED (join the operation, read the record,
write and log), a revert REPEATABLE READ: it fails on a row changed under it.

### ObservationFlags, WatchNotifications, RoleGrants

A pass of ObservationFlags reads the evidence of a group of sites and then has a
transaction at READ COMMITTED, statement by statement: the select of `moveFlags`
begins (`Look`), waits for the rows that others have locked and moves what is
still held (`Move`); `lockOpenFlags` begins (`LookAgain`), waits and closes what
is stale (`Close`); the flags closed last are read (`Weigh`); the flag is inserted,
or written over the open one, and the transaction commits (`Commit`), or fails at
any of these (`Fail`). `rows` has the rows that a pass has locked, with what it
has written in them, which nobody sees before the commit. The unique index
`observation_flags_one_open` makes a pass and a reopening wait for those that are
about to open a flag there (`Uncommitted`). Passes overlap with each other, as
those of the engine and of the routes take no common lock, and with editors.
`opened` notes the flags that others opened after a pass had looked for the open
ones: no row lock covers these, and `CurrentPassSettles` sets them aside.

An event of WatchNotifications is several statements that each commit (insert,
read the unread one, merge), with readers and deliveries in between. `counted` is
the metadata of a notification, which a merge writes from what it has read;
`merged` has the events that were meant to be in it, `raced` those merged while
another call had read the metadata and not yet written them. A push is made from
the metadata as its delivery has read them (`batch`).

RoleGrants has the transactions on grants and the two hooks around the auth
library's write of a role, the second of which may fail.

## 3. Runs

| run | checks | bounds |
|---|---|---|
| `runs_handover` | `TypeOK`, `AtMostOneOwner`, `WorkInAttemptOrder`, `EndedStays`, `ImplementsLease` | 3 processes, 1 run, 3 attempts, 3 commits: a run is taken over twice while both earlier owners live |
| `runs_sources` | `OneRunningPerSource`, `SourceExclusive` | an importer and the command line, 2 runs of one source or two, 2 attempts |
| `runs_liveness` | `EveryRunEnds` | 2 processes, 2 runs, 1 attempt: claim, crash, takeover, abandonment |
| `datasets` | `TypeOK`, `CheckpointsTellWhatChanged`, `SettledOnce`, `ShrinkIsApproved`, `ForgottenRunWasIdle` | 2 slices in one file or in two, 3 contents whose rows lie on both sides of 20 per cent and on it and may be stored as fewer records, 2 attempts, 1 change of a file or of the layout or remap |
| `datasets_pair` | `RequestedIsDecided` | 2 datasets of one file, 2 attempts, either may fail; one of the contents empties a slice |
| `datasets_catchup` | `CatchesUp` | 1 slice, 3 contents, 1 attempt per run, 1 change or remap |
| `after_steps` | `TypeOK`, `ToldAtMostOnce`, `StepsInOrder`, `DoneLeftNothingOut` | 2 workers, 2 sites, pages of one, 2 attempts: a takeover between any two transactions |
| `progress` | `SchedulerGoesOn`, `RemovedGoes`, `SettingsAgree` | 1 host with 2 terms; 1 upload with a file that may expire, 1 fold worker and 1 run worker, 2 attempts, 1 restore, 1 refold, the deletion of the account, 1 crash; 2 processes, 1 update, 1 fault |
| `services` | `CacheIsSound`, `ImplementsPool`, `TasksStartUnderLock`, `RecordedFileKept`, `CountedOnce`, `CurrentPassSettles`, `EventsReachTheUser`, `GrantsFitRole` | 2 callers and 2 versions; 4 tasks at 2 permits and 2 places in the queue; 2 hosts; 2 deliveries over 3 days, 1 death; 2 + 2 workers, 1 restore, 1 refold, 1 crash; 2 sites, 2 passes and 2 changes by editors or of the evidence; 3 events of one user; 2 requests, 4 grants |
| `official` | `QueuedOnce`, `LicenseeStaysMapped`, `RemapMovesWhatItMust`, `SitesAsPublished`, `LinksAsPublished`, `SettledAsRebuilt` | 2 schedulers and 3 intervals, 2 requests; 2 administrators, 2 runs or 2 attempts; 2 sites and 2 permits in a remap; files of up to 2 lines; 2 releases of up to 2 links; 2 editors with 3 edits, or 1 with 2 edits next to 2 imports |
| `stations` | `PhotosKept`, `ReviewedAsShown`, `StationsKeepTheirPhotos`, `RevertsAreSound` | 2 requests with the clean-ups, 1 or 2 submissions; 2 stations at 2 or 3 locations; 2 reverts at once, or 1 among edits of 2 records or of one shared operation |
| `links_race` | `LinksAsRebuilt`, violated | 2 stations, 1 editor with 1 edit, 1 import |

`progress`, `services`, `official` and `stations` each check several parts that
have no state in common. The variable `part` picks one of them in the initial
state and only that one moves, so every behaviour of a part is a behaviour of
the run and the other parts are constant in it: the run checks each part as a
run of its own would. Where one module is there with several instances (two
editors, or one next to an import), they share its variables and `part` says
which constants apply. A property of such a run is the conjunction of what its
module promises.

Why the bounds are enough to meet the hazards: a takeover needs two processes,
and the loss of a second owner three; a page boundary needs two sites with
pages of one; a layout change between attempts needs two attempts and one
change; an overlap needs two transactions and a third step between their reads
and writes; a lock that expires under its holder needs a second caller; a merge
of remapped sites needs two sites with one code; a revert that meets a later
edit needs three operations. Beyond the runs are three processes in an election,
two editors together with an import, and three releases in a row of microwave
links.

Workers, processes and slots that are interchangeable are taken as symmetric in
the safety runs of the import, and so are the two passes over flags in
`services`; liveness runs use no symmetry. Deadlock is not
checked where the system may rightly stop: all rows ended, a budget of edits or
requests used up.

Every property has a mutant in `PROJECT.json`: a plausible slip in one mapped
definition (a dropped lock, a forgotten token, progress of the wrong page) under
which TLC finds the property violated.

What the runs show, beyond "no error":

- A scheduled check does miss a file if a run dies between recording its
  download and importing it: the listing then looks unchanged. What makes
  `CatchesUp` true is that a listing is trusted for `LISTING_MAX_AGE_MS` only;
  with an ageless listing (its mutant) the release is lost.
- `SettledOnce` holds across a change of layout because of the primary key of
  the checkpoints, at the price of a failed dataset.
- `ToldAtMostOnce` needs the summaries sorted by their last sequence number
  with no two alike, and the progress of the page rather than of the list.
- `TasksStartUnderLock` holds because commands of a client keep their order and
  a resigned term is told from the current one, not because the renewal that
  precedes a task is recent; a *running* task may outlive the lock.
- `SettingsAgree` rests on the resynchronisation alone, not on the messages.

### Disagreements seen while modelling

`links_race` is a run of its own: the test of `correctStationLinks` says that a
correction ends "where a full rebuild would", but a station that is created in
a group after the links step of an import has read the stations there loses its
link (`features/official/links.ts:149`).

The following were met with the same modules, and are why some properties have a
condition or a bound. They are listed as what the properties do *not* say.

- A correction locks the stations of its groups, but reads and deletes the
  stored links of their sites whichever station they are of, and names what it
  deletes by stations and sites separately (`readStoredLinks` and `deleteLinks`,
  `features/official/links.ts:56`, `:115`). So it can take a link from a station
  that it has not locked, while the transaction that has locked it goes by that
  link: `SettledAsRebuilt` leaves such a station out (`met`).
- A request and the scheduler lock different rows, so an import may be granted
  next to the one just scheduled (`features/official/importRuns.ts:387`; the
  route documents 409). `QueuedOnce` is about two schedulers or two requests.
- A remap to no operator that is attempted again after the licensee was mapped
  back takes the operator away again (`import/remap/apply.ts:269`).
- The guard counts staged rows, one per place, against listings, one per permit
  (`import/sites/staging.ts:431`, `import/release.ts:23`): a slice may lose more
  than its allowance of permits without being held. `ShrinkIsApproved` compares
  what the guard compares, and `SitesAsPublished` says nothing about the guard.
- A restore or a refold that holds a fold in the moment of the withdrawal, a
  deleter that has the file on its list when an upload is excluded, the deletion
  of an account, which takes the files before the readings are subtracted, and a
  rebuild that listed its uploads before it locked the cells, leave readings that
  count, or do not count, for good (`engine/crates/store/src/runs.rs:171`, `:109`,
  `:312`, `features/measurements/rawFiles/purge.ts:30`,
  `features/measurements/contributors/accountDeletion.ts:9`). The run has restores,
  refolds, expiring files, an account and a crash, and `RemovedGoes` excepts these
  moments one by one: a withdrawn upload must go, for good, from any state in
  which no restore or refold has its fold and its file is still to be had; an
  excluded one from any such state, or from one in which a rebuild is queued.
- A file left by a dead delivery may be swept while its upload is sent again
  (`purge.ts:86`), and quotas are counted before the row is there
  (`uploads/quota.ts:94`). `RecordedFileKept` holds while no delivery has died.
- Photos do not change the `updatedAt` that an approval checks
  (`features/submissions/photos.ts:116`): `ReviewedAsShown` is about the content.
- A station that is detached keeps its selections (`features/submissions/actions.ts:705`);
  a location is counted as empty and deleted while a station comes to it
  (`features/locations/deleteWithPhotos.ts:17`), and stays if two stations leave
  at once. With overlapping changes `StationsKeepTheirPhotos` promises one main
  photo and no stray attachment only.
- The old values of an audit entry are read without a lock
  (`routes/v1/(patch)/stations/[id].ts:76`).
- Of several dismissals the oldest follows the lead (`flags/sites/flagMoves.ts:31`),
  and only the flag closed last is looked at (`flags/sync.ts:110`), so dismissed
  evidence may be raised again.
- Two merges that have read the same metadata overwrite each other, so that an
  event of one of them is neither counted nor told; and an event merged while a
  push is under way is marked as sent with it
  (`features/notifications/coalesceOrCreateStationNotification.ts:105`,
  `service.ts:423`). `EventsReachTheUser` leaves out these two (`raced`, `late`).
- A flag that another pass opens, or an editor reopens, after a pass has looked
  for the open ones is not seen by it: no row lock covers a row that is inserted
  (`flags/sync.ts:59`, `flags/sites/flagMoves.ts:47`). A pass of old evidence may
  so leave a flag open at a site next to that of the lead, until the next pass.
- A cache key that is forgotten during a load is written again with the old
  value, for a minute (`lib/redisCache.ts:21`).

## 4. Fairness

`ImportRuns`: time passes (`HeartbeatLapses`), a supervisor restarts a process
that is down, a transaction ends, a loop that is up polls and a claim statement
ends. Polling, claiming and ending a run get strong fairness, because a crash, a
stop or a competitor may disable them again and again, but not every time;
crashes, stops, cancels and commits of work get none.

`ImportDatasets`: the scheduler queues imports for ever and listings age (weak);
every step of a run gets strong fairness, because a claim may be lost at any
point, and a run that reaches a step over and over takes it one time.

`SchedulerLeader`: time passes, a process that is down is restarted and one that
is stopping exits. Requests and their replies get strong fairness, as an expiry,
a crash or another host may come in between, but not every time; a renewal that
is possible again and again succeeds sometimes. Losing the lock, failing
requests and crashes get none.

`UploadFolds`: the loops of the fold and run workers, of the deleters of files
and of a pending restore are weakly fair; withdrawals, exclusions, refolds,
expiry and crashes are not.

`RuntimeSettings`: processes take their next step, receive what is in their
inbox, and resynchronise every minute (all weak).

## 5. Proofs

Eight modules hold theorems that TLAPS checks for every value of the constants,
under the assumptions that the modules name: 33 theorems, each of which states a
property that a run checks.

| module | theorem | property | assumes |
|---|---|---|---|
| `ImportRunsProofs` | `TypeCorrect`, `SourceHasOneRun`, `OwnerIsUnique`, `SourceIsExclusive`, `WorkIsFenced`, `EndedIsFinal`, `Refinement` | `TypeOK`, `OneRunningPerSource`, `AtMostOneOwner`, `SourceExclusive`, `WorkInAttemptOrder`, `EndedStays`, `ImplementsLease` | the bounds are natural numbers |
| `ImportDatasetsProofs` | `TypeCorrect`, `CheckpointsTrue`, `SlicesSettledOnce`, `ShrinkNeedsApproval`, `RequestsAreDecided`, `ForgottenRunsWereIdle` | `TypeOK`, `CheckpointsTellWhatChanged`, `SettledOnce`, `ShrinkIsApproved`, `RequestedIsDecided`, `ForgottenRunWasIdle` | a slice is one of a dataset |
| `ImportAfterStepsProofs` | `TypeCorrect`, `StepsAreInOrder`, `NobodyToldTwice`, `DoneRunsAreComplete` | `TypeOK`, `StepsInOrder`, `ToldAtMostOnce`, `DoneLeftNothingOut` | pages and attempts are positive |
| `OfficialProofs` | `ChecksAndRequestsQueuedOnce` | `QueuedOnce` | intervals are positive; schedulers are no requests |
| | `LicenseeKeepsMapping` | `LicenseeStaysMapped` | the null of the model is no administrator |
| | `LinksAreThePublished` | `LinksAsPublished` | the bounds are natural numbers |
| | `RemapMovesWhatBelongs` | `RemapMovesWhatItMust` | ids of sites are positive and there is a last one; the rows, listings and operators that a run starts from are of their types |
| `StationLinksProofs` | `LinksOfSettledStations` | `SettledAsRebuilt` | finitely many sites; the importer is no editor; the null of the model is none of the rest |
| `ServiceProofs` | `CacheSound` | `CacheIsSound` | there is a version |
| | `SemaphoreImplementsPool` | `ImplementsPool` | there is a permit |
| | `TasksUnderLock` | `TasksStartUnderLock` | `Latency < TTL`; the marks of a free and of a left lock are no processes |
| | `NoEventIsLost`, `RoleAndGrantsFit` | `EventsReachTheUser`, `GrantsFitRole` | the bounds are natural numbers |
| `MeasurementProofs` | `AcceptedFileKept` | `RecordedFileKept` | temporary files have names of their own; the bounds are natural numbers |
| | `UploadsCountOnce` | `CountedOnce` | whenever a rebuild is applied there is no other upload; the bounds are natural numbers, attempts positive |
| | `FlagsSettle` | `CurrentPassSettles` | sites are numbers; the bounds are natural numbers, that of people positive |
| `ContributionProofs` | `PhotosAreKept`, `ReviewsAreTrue` | `PhotosKept`, `ReviewedAsShown` | finitely many requests, none of them a clean-up; the photo limit is positive |
| | `RevertsHold` | `RevertsAreSound` | the initial value is a value; the mark of a changed operation is no record; there is room for an operation and an entry |

Where a module is used by `INSTANCE`, its assumption is a definition, the
theorem has it as a hypothesis, and the MC module checks it on the instance.
Where a property is a temporal formula (an invariant with action properties, or
a refinement), every step is proved of the same inductive invariant.

The condition of `UploadsCountOnce` is the one hypothesis about behaviours, and
not about constants: a rebuild empties cells and folds the uploads that it listed
before, so it counts right only if no other upload has readings in these cells
(see the disagreements above). The run has one upload, where the condition
always holds; withdrawals, restores, refolds, crashes and any number of workers
and uploads are all in the theorem.

None of the properties is inductive as it stands. What each invariant adds:

**ImportRuns.** That two processes do not own one run says nothing about the
tokens that they hold, and a claim could repeat one. `ClaimsCounted`: a process
inside a run holds a token that is the number of its attempt, and the row has
counted that attempt. `TokensDiffer`: two processes in one run hold different
tokens. `RunningToken`: the token of a running row is that of its last claim
(this is why a hand-back may clear it and a cancel may keep it).
`TransactionOwns`: whoever has a transaction open owns the run; this is the row
lock at work. `LogBounded`: no commit is numbered above the attempts of its row.
`OwnerIsUnique` follows from `TokensDiffer`; `SourceIsExclusive` from
`TransactionOwns`, `OneRunningPerSource` and `TokensDiffer`; `WorkIsFenced` from
`TransactionOwns`, `RunningToken` and `LogBounded`.

**ImportDatasets.** `InHand`: the dataset that the worker is in is still to be
imported, and the release is one of it. `Obtained`: what it compares and
settles was recorded. `NoRunNoRows`: between runs there are no checkpoints.
`UndecidedIsAhead`: a slice that was asked for and has no decision lies in a
release that the worker still has before it, in a dataset that is left to
import, before any after-step. `RequestsAreDecided` is this at the end of the run; the action
properties follow from the primary key of the checkpoints and the guard.

**ImportAfterSteps.** The invariant separates the worker of the latest claim,
which alone writes to the database, from those it replaced, whose pushes and
messages still go out. `NotesFollowProgress`: whoever has been told is whoever's
summary lies at or below `last_seq`, so that progress is exact and not only a
bound; `PlanIsTheRest`: what the owner has planned is what lies above it.
`PushIsMarked`: a push that was sent, or will still be sent by a worker that has
lost the run, was marked first, and only one of the two can be. That a
bounded set of sequence numbers has a greatest one (the progress of a page) is
proved from the least of its upper bounds, where others would use an induction.

**ImportSchedule.** `RowsAreCurrent` and `RowsAreItsOwn`: while a scheduler has
its rows they do not change, and no other scheduler has one of them.
`NextIsLater`: the next check lies after all that were queued, which is stronger
than that they differ, and rests on the arithmetic of `nextCheckAfter`
(`GridPoint`). `AdmittedIsFirst`: a request that was admitted has its source for
itself, and there is no *requested* run of its kind; there may be a scheduled one.

**OfficialRemap.** The property relates the rows now to those before the run, so
the invariant has to say what a second attempt finds. `RemapInv`: before the
first attempt the rows are the ones noted in `before` and keep the constraints
of the tables (`RemapRows`); after it the four parts of the property hold, and
there is nothing left to move (`NothingMoves`) or to take off. Most of the proof
is what the plan makes of rows that keep the constraints: every site and permit
afterwards comes from one before (`ComesFrom`), and a permit goes onto another
site, is split off, or stays put, exactly one of the three (`GoesOnto`,
`SplitsOff`, `StaysPut`). From this follow the unique indexes, that no listing is
lost, and that no site is emptied but kept. A site that the licensee still lists
under another operator afterwards has a name of its own and keeps a permit that
would stay, which is why the second attempt moves nothing.

**MicrowaveLinks.** `MicrowaveInv`: rows, kept records and numbers correspond one
to one (a row has a key of the release, a key has one row, ids are below the next
one), and a row whose columns are dated no earlier than itself has them from the
release that described them. That a key has a last position in a file, the one
that counts, follows from the well-foundedness of the natural numbers.

**StationLinks.** `LinksInv` says what the lock of a station is worth. `Held`:
nobody else has, or brings a station into, the group of a station that is
written, and what was read of the locked stations is still so. `Stored`: the same of
their links. `Known`: the same of the sites, unless an import that has changed
them has yet to come to the group. `Apart`: two transactions hold no station in
common. `Settled`: the committed links of a station are those of the rule for
what is committed, at every moment and not only at rest. The
rule is shown to decide station by station (`DecidedByPick`), so that what it
makes of the groups of a transaction is what it makes of all.

**LicenseeMapping.** `SessionHoldsRow` and `FoundNoRemap`: an administrator who
found no live remap stays right about it, because a run never becomes live again
and only the holder of the row queues another.

**StaleCache.** `LoadsUnderLock`: who loads without the lock has waited until
its deadline; `NewestWrites`: under a lock that has not expired the value that
was loaded is not older than anything that has been in the cache.

**BoundedSemaphore.** `QueueHoldsWaiting` (the queue has each waiting task once)
and `CountsHolders` (the counter is the number of tasks with a permit, also
between a hand-over and the step of the task that it went to). With a permit free
nobody waits (`WaitsForPermit`), which is why a step that frees one is a step of
the pool.

**SchedulerLeader.** `GrantedHolds`: the age of a renewal and the ticks that are
left of the lock together are at least `TTL`, unless the term was given up; with
`Latency < TTL` the lock is still there when the answer is handled.

**MeasurementIntake.** `FileHasReason`: a raw file has a row of its upload, or a
delivery that wrote it and is about to write its row; with `SweptIsOrphan` the
sweeper, which takes files that have settled, finds none that is needed. A
delivery that dies breaks this, which is the exception in the property.

**UploadFolds.** `WaitingIsUnfolded`: what waits to be folded has no fold row.
`RunnerHoldsRow`: a run worker at work holds the fold row of its upload, which is
still as the condition of its run found it. Together they keep a fold, a
restore and a subtraction from counting the same readings.

**ObservationFlags.** `FlagsInv` says what a pass knows between its statements.
`RowsAgree`: the rows that it has locked are still as they were committed but for
what it has written, and no two passes hold one row. `Gathered`: once it has
looked, it has found every open flag but those in `opened`, and after closing
what is stale, those that it holds open are at its lead. Times are bounded, so
there is a flag that was closed last, which a pass looks at. `OthersKeep` shows
that the commit of one pass disturbs none of this in another, whose rows are
others; `CommitSettles` is then the property.

**Submissions.** `Fitting` says of each request what it holds: the photos of an
upload are known to nobody else until they are stored; what is to be unlinked has
no attachment any more; a photo that is to be removed belongs to no other
submission, and is not published while its own is pending. `TablesAgree` ties
photos, attachments and published photos to the status of their submission.
`FilesNamed`: a file that has neither an attachment nor a request behind it was
left by a dead process. `EditsBounded` counts the edits under way, and is there
for the bound of the model.

**AuditRevert.** `JoinedIsOpen`: a change that has joined an operation finds it
open until it commits, because a revert waits for the row of the operation.
`RevertSees`: what a revert read is as it was, but for the rows that it then must
not touch. `LockedAlone`: a revert that holds the row of an operation is the only
one at it. `PutBackDiffered`: an entry that was put back had changed something. The
markers are recomputed from all the entries, so `MarkersTellCoverage` needs no
more than that.

**WatchNotifications.** `ClosesPayForRetries`: what a call may still retry and
what its user has closed since it began make up for each other, so that a call
that gives up has met two. `CountedAll` and `WritersKnow`: the metadata, in the
row and as a call has read them, have every event merged into it, the `raced`
ones excepted. `HandKnowsEvents` and `PushedIsTold`: so has what a delivery has in
hand, those merged since excepted too, and it marks what it has told.

**RoleGrants.** `StaleWasNotGiven`: what a request remembered of somebody who was
no editor was not given to the editor of now, because ids are handed out once
(`IdsHandedOut`); so bringing the grants in line takes nothing away that is valid.

Only model-checked:

- liveness (`EveryRunEnds`, `CatchesUp`, `SchedulerGoesOn`, `RemovedGoes`,
  `SettingsAgree`), which the prover has no means for;
- `StationsKeepTheirPhotos`: an induction over the stations that a transaction
  moves one after the other (a fold), which the prover has no means for;
- `SitesAsPublished`: it speaks of a whole release, applied slice by slice and
  page by page to sites that several datasets place. The proof is long rather
  than impossible, and has not been done.

## 6. Not modelled, and why

Most of the repository is data without control: the web client, the queries of
the reading routes, the schemas and wire contracts, the parsers of the registers'
files, and the floating-point geometry and statistics of the engine. The modules
cover the code in which an interleaving, a failure or an order of calls decides
about the result, which is a small share of its lines. Left out of modelled
components:

- import: the bytes of files, release dates, dry-run reports, the archive and
  its pruning (a file that is gone is downloaded again), addresses and regions,
  the correction of licensees' names, equipment types of links;
- submissions: validation, the cells and sectors that a submission carries, the
  main flag of its photos; of stations: cells, sectors, identifiers, backhaul;
- audit: what each entity's strategy writes back; creations and deletions;
- measurements: devices and challenges, sealing of files, nightly runs and read
  models; of flags: what counts as evidence for each kind;
- notifications: approval digests, who watches what; of grants: their regions;
- the draining and restarting of the cluster's workers, authentication (a
  library), the rate limiter (one atomic script in Redis), the bounded cache,
  `runLimited` and `singleFlight`, which have no interleaving of their own;
- the client's drafts (a pure reducer with tests of its own) and the bot.

## 7. Plan

The modelling is done as far as the code has control that a model checker can
reach, and every safety property of the passing runs is proved but two:

1. OfficialSites: `SitesAsPublished`, starting with the staging of one slice.
2. StationLocations: of `StationsKeepTheirPhotos`, that a location has one main
   photo at a time, which needs no induction.
