--------------------------- MODULE ImportSchedule ---------------------------
(***************************************************************************)
(* How import runs come to be queued:                                      *)
(*   apps/server/src/features/official/import/schedule.ts   (due checks)   *)
(*   apps/server/src/features/official/importRuns.ts        (requests)     *)
(*   apps/server/src/scripts/officialImport.ts              (command line) *)
(*   apps/server/src/routes/v2/(patch)/official/...         (switches)     *)
(*                                                                         *)
(* The scheduler locks the rows of the datasets it reads, a request locks  *)
(* the row of its source: neither lock keeps the other out.  Two processes *)
(* may believe to be the scheduler (SchedulerLeader), and each of them     *)
(* takes the time before it waits for the rows.                            *)
(***************************************************************************)
EXTENDS Integers, Sequences, FiniteSets

CONSTANTS
  Sources, Datasets,
  SourceOf,     \* SourceOf[d]: the source a dataset belongs to
  Intervals,    \* the values an administrator gives to checkEveryHours
  Schedulers,   \* processes that run scheduleDueImports
  Requesters,   \* requests that start a run
  Kinds,        \* what they may ask for, of "import", "replay" and "relink"
  CliKinds,     \* what the command line may queue
  MaxTime,      \* bound: how far the clock goes
  Slots         \* bound: live runs

ScheduleAssumption ==
  /\ SourceOf \in [Datasets -> Sources]
  /\ Intervals \subseteq Nat \ {0}
  /\ Kinds \cup CliKinds \subseteq {"import", "replay", "relink"}
  /\ Schedulers \cap Requesters = {}
  /\ MaxTime \in Nat

Never == -1     \* next_check_at IS NULL

VARIABLES
  clock,
  next,       \* next[d]: nextCheckAt
  every,      \* every[d]: checkEveryHours
  enabled,    \* the sources and datasets with isEnabled
  run,        \* run[i]: a queued or running run, or NoRun
  stage,      \* stage[a]: where a scheduler or a requester stands
  now,        \* now[a]: the time a scheduler took
  asked,      \* asked[a]: what a requester asked for
  rows,       \* rows[a]: the next checks of the rows a scheduler locked
  busy,       \* busy[a]: the sources it saw with a live import
  checked     \* checked[d]: the checks of d that were queued, oldest first

rowVars == <<next, every, enabled, run, checked>>
vars == <<clock, next, every, enabled, run, stage, now, asked, rows, busy, checked>>

Actors == Schedulers \cup Requesters
NoRun == [source |-> "none", kind |-> "none", trigger |-> "none", state |-> "ended"]
NoRequest == [source |-> "none", kind |-> "none"]
NoRows == [d \in {} |-> Never]

Init ==
  /\ clock = 0
  /\ next = [d \in Datasets |-> Never]
  /\ every \in [Datasets -> Intervals]
  /\ enabled = Sources \cup Datasets
  /\ run = [i \in Slots |-> NoRun]
  /\ stage = [a \in Actors |-> "idle"]
  /\ now = [a \in Schedulers |-> 0]
  /\ asked = [a \in Requesters |-> NoRequest]
  /\ rows = [a \in Schedulers |-> NoRows]
  /\ busy = [a \in Schedulers |-> {}]
  /\ checked = [d \in Datasets |-> <<>>]

-----------------------------------------------------------------------------
(* Runs, locks and switches *)

\* The sources that have a run of the kind, queued or running.
Live(kind) == {run[i].source : i \in {j \in Slots : run[j].state # "ended" /\ run[j].kind = kind}}

FreeSlots == {i \in Slots : run[i].state = "ended"}

NewRun(s, kind, trigger) ==
  [source |-> s, kind |-> kind, trigger |-> trigger, state |-> "queued"]

\* FOR NO KEY UPDATE OF official_datasets, until the scheduler commits.
DatasetLocked(d) == \E a \in Schedulers : stage[a] \in {"locked", "planned"} /\ d \in DOMAIN rows[a]

\* FOR NO KEY UPDATE of official_sources, until the request commits.
SourceLocked(s) == \E a \in Requesters : stage[a] \in {"locked", "admitted"} /\ asked[a].source = s

\* The importer claims a run ...
ClaimRun(i) ==
  /\ run[i].state = "queued"
  /\ run' = [run EXCEPT ![i].state = "running"]
  /\ UNCHANGED <<clock, next, every, enabled, stage, now, asked, rows, busy, checked>>

\* ... and it ends, or is cancelled or deleted.
EndRun(i) ==
  /\ run[i].state # "ended"
  /\ run' = [run EXCEPT ![i] = NoRun]
  /\ UNCHANGED <<clock, next, every, enabled, stage, now, asked, rows, busy, checked>>

\* The command line queues a run and looks at none.
EnqueueFromCommandLine(s, kind, i) ==
  /\ i \in FreeSlots
  /\ run' = [run EXCEPT ![i] = NewRun(s, kind, "cli")]
  /\ UNCHANGED <<clock, next, every, enabled, stage, now, asked, rows, busy, checked>>

\* PATCH of a dataset: the switch, or the interval and with it the grid.
UpdateDataset(d) ==
  /\ ~DatasetLocked(d)
  /\ \/ /\ enabled' \in {enabled \cup {d}, enabled \ {d}}
        /\ UNCHANGED every
     \/ /\ \E h \in Intervals : every' = [every EXCEPT ![d] = h]
        /\ UNCHANGED enabled
  /\ UNCHANGED <<clock, next, run, stage, now, asked, rows, busy, checked>>

\* PATCH of a source: the switch, which only stops the schedule.
UpdateSource(s) ==
  /\ ~SourceLocked(s)
  /\ enabled' \in {enabled \cup {s}, enabled \ {s}}
  /\ UNCHANGED <<clock, next, every, run, stage, now, asked, rows, busy, checked>>

Tick ==
  /\ clock < MaxTime
  /\ clock' = clock + 1
  /\ UNCHANGED <<stage, now, asked, rows, busy, rowVars>>

-----------------------------------------------------------------------------
(* The scheduler *)

\* scheduleDueImports: the time is taken before the rows are waited for.
BeginSchedule(a) ==
  /\ stage[a] = "idle"
  /\ stage' = [stage EXCEPT ![a] = "begun"]
  /\ now' = [now EXCEPT ![a] = clock]
  /\ UNCHANGED <<clock, asked, rows, busy, rowVars>>

\* isDue
IsDue(at, t) == at = Never \/ at <= t

\* The enabled datasets of enabled sources.
Scheduled == {d \in Datasets : d \in enabled /\ SourceOf[d] \in enabled}

\* Mutant: the rows are read without a lock.
WaitsForRowsNever(a) == FALSE

\* Some row the scheduler wants is locked by another one.
WaitsForRows(a) == \E d \in Scheduled : DatasetLocked(d)

DueIn(t) == {d \in Scheduled : IsDue(next[d], t)}

\* The rows are read under their locks: a row that was waited for is read
\* as the other scheduler left it.  Nothing due ends the transaction.
LockDatasets(a) ==
  /\ stage[a] = "begun"
  /\ ~WaitsForRows(a)
  /\ IF DueIn(now[a]) = {}
       THEN /\ stage' = [stage EXCEPT ![a] = "idle"]
            /\ UNCHANGED rows
       ELSE /\ stage' = [stage EXCEPT ![a] = "locked"]
            /\ rows' = [rows EXCEPT ![a] = [d \in Scheduled |-> next[d]]]
  /\ UNCHANGED <<clock, now, asked, busy, rowVars>>

\* readSourcesWithLiveImport
ReadBusySources(a) ==
  /\ stage[a] = "locked"
  /\ stage' = [stage EXCEPT ![a] = "planned"]
  /\ busy' = [busy EXCEPT ![a] = Live("import")]
  /\ UNCHANGED <<clock, now, asked, rows, rowVars>>

\* nextCheckAfter, which keeps to the grid of the checks.
NextCheckAfter(at, hours, t) ==
  IF at = Never THEN t + hours ELSE at + ((t - at) \div hours + 1) * hours

\* planScheduledImports: the datasets that go into a run.
Planned(a) ==
  {d \in DOMAIN rows[a] : IsDue(rows[a][d], now[a]) /\ SourceOf[d] \notin busy[a]}

\* The rest of queueDueImports and its commit: one run per source, and the
\* next check of each of its datasets.
QueueDueImports(a) ==
  /\ stage[a] = "planned"
  /\ LET planned == Planned(a)
         sources == {SourceOf[d] : d \in planned}
     IN \E slot \in [sources -> FreeSlots] :
          /\ \A s, q \in sources : slot[s] = slot[q] => s = q
          /\ run' = [i \in Slots |->
                       IF \E s \in sources : slot[s] = i
                         THEN NewRun(CHOOSE s \in sources : slot[s] = i, "import", "scheduled")
                         ELSE run[i]]
          /\ next' = [d \in Datasets |-> IF d \in planned
                        THEN NextCheckAfter(rows[a][d], every[d], now[a]) ELSE next[d]]
          /\ checked' = [d \in Datasets |-> IF d \in planned
                           THEN Append(checked[d], rows[a][d]) ELSE checked[d]]
  /\ stage' = [stage EXCEPT ![a] = "idle"]
  /\ rows' = [rows EXCEPT ![a] = NoRows]
  /\ busy' = [busy EXCEPT ![a] = {}]
  /\ UNCHANGED <<clock, every, enabled, now, asked>>

\* The transaction fails, or its process dies: nothing is queued or moved.
AbortSchedule(a) ==
  /\ stage[a] # "idle"
  /\ stage' = [stage EXCEPT ![a] = "idle"]
  /\ rows' = [rows EXCEPT ![a] = NoRows]
  /\ busy' = [busy EXCEPT ![a] = {}]
  /\ UNCHANGED <<clock, now, asked, rowVars>>

-----------------------------------------------------------------------------
(* Requests *)

WaitsForSource(s) == SourceLocked(s)

\* queueRequestedRun locks the source ...
LockSource(a, s, kind) ==
  /\ stage[a] = "idle"
  /\ ~WaitsForSource(s)
  /\ stage' = [stage EXCEPT ![a] = "locked"]
  /\ asked' = [asked EXCEPT ![a] = [source |-> s, kind |-> kind]]
  /\ UNCHANGED <<clock, now, rows, busy, rowVars>>

\* ... looks for a live run of the kind, and answers 409 if there is one.
LookForLiveRun(a) ==
  /\ stage[a] = "locked"
  /\ stage' = [stage EXCEPT ![a] = IF asked[a].source \in Live(asked[a].kind) THEN "idle" ELSE "admitted"]
  /\ UNCHANGED <<clock, now, asked, rows, busy, rowVars>>

\* datasetsToRead: without an enabled dataset the request has to name some.
HasDatasets(s, kind) ==
  kind = "relink" \/ \E d \in Datasets : SourceOf[d] = s

QueueRequestedRun(a) ==
  /\ stage[a] = "admitted"
  /\ HasDatasets(asked[a].source, asked[a].kind)
  /\ \E i \in FreeSlots :
       run' = [run EXCEPT ![i] = NewRun(asked[a].source, asked[a].kind, "manual")]
  /\ stage' = [stage EXCEPT ![a] = "idle"]
  /\ UNCHANGED <<clock, next, every, enabled, now, asked, rows, busy, checked>>

\* 400, or a failure: the transaction is rolled back.
RefuseRequest(a) ==
  /\ stage[a] \in {"locked", "admitted"}
  /\ stage' = [stage EXCEPT ![a] = "idle"]
  /\ UNCHANGED <<clock, now, asked, rows, busy, rowVars>>

Next ==
  \/ Tick
  \/ \E d \in Datasets : UpdateDataset(d)
  \/ \E s \in Sources : UpdateSource(s)
  \/ \E i \in Slots : ClaimRun(i) \/ EndRun(i)
  \/ \E s \in Sources, kind \in CliKinds, i \in Slots : EnqueueFromCommandLine(s, kind, i)
  \/ \E a \in Schedulers :
       \/ BeginSchedule(a)
       \/ LockDatasets(a)
       \/ ReadBusySources(a)
       \/ QueueDueImports(a)
       \/ AbortSchedule(a)
  \/ \E a \in Requesters :
       \/ \E s \in Sources, kind \in Kinds : LockSource(a, s, kind)
       \/ LookForLiveRun(a)
       \/ QueueRequestedRun(a)
       \/ RefuseRequest(a)

Spec == Init /\ [][Next]_vars

-----------------------------------------------------------------------------
(* Properties *)

TypeOK ==
  /\ clock \in 0 .. MaxTime
  /\ \A d \in Datasets : next[d] \in Int /\ next[d] >= Never
  /\ every \in [Datasets -> Intervals]
  /\ enabled \subseteq Sources \cup Datasets
  /\ \A i \in Slots : run[i] \in {NoRun} \cup
       [source : Sources, kind : {"import", "replay", "relink"},
        trigger : {"scheduled", "manual", "cli"}, state : {"queued", "running"}]
  /\ stage \in [Actors -> {"idle", "begun", "locked", "planned", "admitted"}]
  /\ now \in [Schedulers -> 0 .. MaxTime]
  /\ \A a \in Schedulers : DOMAIN rows[a] \subseteq Datasets /\ busy[a] \subseteq Sources

\* A check is queued once, by whichever scheduler comes first: one that has
\* waited for the rows finds the check moved on, although it took the time
\* before.
CheckQueuedOnce ==
  \A d \in Datasets : \A i, j \in 1 .. Len(checked[d]) :
    checked[d][i] = checked[d][j] => i = j

\* The points of the grid through at, beyond t.
GridAfter(at, hours, t) ==
  {g \in (t + 1) .. (t + hours) : (g - at) % hours = 0}

\* The next check is the first one of the grid after the time of the scheduler
\* that moved it, however many checks were missed: none lies in its past, and
\* none is skipped.
NextCheckIsOnGrid ==
  \A d \in Datasets :
    next'[d] # next[d] =>
      \E a \in Schedulers :
        LET at == IF next[d] = Never THEN now[a] ELSE next[d]
        IN stage[a] = "planned" /\ next'[d] \in GridAfter(at, every[d], now[a])

\* Two requests never both get a run of one kind for a source: the second one
\* looks for live runs under the lock of the first.
OneRequestedRun ==
  \A i, j \in Slots :
    (run[i] # NoRun /\ run[j] # NoRun /\ run[i].trigger = "manual" /\ run[j].trigger = "manual"
     /\ run[i].source = run[j].source /\ run[i].kind = run[j].kind) => i = j

\* What holds in every state, and what the scheduler does to a check.
QueuedOnce == [](TypeOK /\ CheckQueuedOnce /\ OneRequestedRun) /\ [][NextCheckIsOnGrid]_vars

=============================================================================
