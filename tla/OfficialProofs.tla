-------------------------- MODULE OfficialProofs --------------------------
(***************************************************************************)
(* Theorems about what stands around the import of official data, each     *)
(* with an instance of its module:                                         *)
(*   Schedule  a check and a request are queued once;                      *)
(*   Licensees a licensee has one remap at a time;                         *)
(*   Microwave a row of the microwave links is one link for ever;          *)
(*   Remap     a remap moves what it must, and is applied once.            *)
(* The first two rest on row locks.  Their inductive invariants say what a *)
(* lock is worth to its holder: that the rows it has read are still the    *)
(* rows that are there, and that nobody else has found the same.  The      *)
(* third rests on keys: the rows, the records that are kept and the        *)
(* numbers that are given correspond one to one.  The fourth is about the  *)
(* plan of a run: what it makes of any rows, and that the rows it leaves   *)
(* behind have nothing left to move.                                       *)
(***************************************************************************)
EXTENDS LicenseeMapping, Official, FiniteSetTheorems, WellFoundedInduction, TLAPS

-----------------------------------------------------------------------------
(* Checks and requests.                                                    *)

\* A run that waits or runs, and what a request may ask for.
LiveRuns ==
  [source : Sources, kind : {"import", "replay", "relink"},
   trigger : {"scheduled", "manual", "cli"}, state : {"queued", "running"}]

Asked == [source : Sources, kind : RequestKinds]

\* The next checks that a scheduler has read, by dataset.
RowSets == UNION {[D -> Int] : D \in SUBSET Datasets}

\* The rows and the transactions are of their types.
ScheduleTypes ==
  /\ time \in 0 .. MaxTime
  /\ next \in [Datasets -> Int]
  /\ \A d \in Datasets : next[d] >= -1
  /\ every \in [Datasets -> Intervals]
  /\ enabled \subseteq Sources \cup Datasets
  /\ run \in [Slots -> {Schedule!NoRun} \cup LiveRuns]
  /\ stage \in [Schedulers \cup Requesters -> {"idle", "begun", "locked", "planned", "admitted"}]
  /\ taken \in [Schedulers -> 0 .. MaxTime]
  /\ asked \in [Requesters -> {Schedule!NoRequest} \cup Asked]
  /\ \A a \in Requesters : stage[a] \in {"locked", "admitted"} => asked[a] \in Asked
  /\ rows \in [Schedulers -> RowSets]
  /\ busy \in [Schedulers -> SUBSET Sources]
  /\ checked \in [Datasets -> Seq(Int)]

\* A scheduler that has its rows.
HasRows(a) == stage[a] \in {"locked", "planned"}

\* What it read is what is there, and no other has a row of it.
RowsAreCurrent ==
  \A a \in Schedulers : HasRows(a) => \A d \in DOMAIN rows[a] : rows[a][d] = next[d]

RowsAreItsOwn ==
  \A a, b \in Schedulers : a # b /\ HasRows(a) /\ HasRows(b) => DOMAIN rows[a] \cap DOMAIN rows[b] = {}

\* The next check lies after all that were queued.
NextIsLater == \A d \in Datasets : \A i \in 1 .. Len(checked[d]) : checked[d][i] < next[d]

\* A request has its source for itself, and once it is admitted there is no
\* requested run of its kind.
SourceIsItsOwn ==
  \A a, b \in Requesters :
    a # b /\ stage[a] \in {"locked", "admitted"} /\ stage[b] \in {"locked", "admitted"}
      => asked[a].source # asked[b].source

Requested(r, s, kind) == r.trigger = "manual" /\ r.source = s /\ r.kind = kind

AdmittedIsFirst ==
  \A a \in Requesters : stage[a] = "admitted" =>
    \A i \in Slots : ~Requested(run[i], asked[a].source, asked[a].kind)

ScheduleInv ==
  /\ ScheduleTypes
  /\ RowsAreCurrent
  /\ RowsAreItsOwn
  /\ NextIsLater
  /\ Schedule!CheckQueuedOnce
  /\ SourceIsItsOwn
  /\ AdmittedIsFirst
  /\ Schedule!OneRequestedRun

\* The first point of the grid beyond t (nextCheckAfter).
LEMMA GridPoint ==
  ASSUME NEW at \in Int, NEW t \in Int, at <= t, NEW h \in Nat \ {0},
         NEW g, g = at + ((t - at) \div h + 1) * h
  PROVE  g \in t + 1 .. t + h /\ (g - at) % h = 0
<1>1. PICK n \in Nat : n = t - at
  OBVIOUS
<1>2. PICK q \in Nat : q = n \div h
  OBVIOUS
<1>3. h * q <= n /\ n < h * q + h
  <2>1. h * (n \div h) <= n
    BY SMTT(30)
  <2>2. n < h * (n \div h) + h
    BY SMTT(30)
  <2>3. QED
    BY <1>2, <2>1, <2>2
<1>4. (q + 1) * h = h * q + h /\ h * q \in Nat
  BY SMT
<1>5. g = at + (q + 1) * h
  BY <1>1, <1>2
<1>6. g \in t + 1 .. t + h
  BY <1>1, <1>3, <1>4, <1>5
<1>7. PICK p \in Nat : p = q + 1
  OBVIOUS
<1>8. (p * h) % h = 0
  BY SMT
<1>9. g - at = p * h
  BY <1>4, <1>5, <1>7
<1>10. QED
  BY <1>6, <1>8, <1>9

\* What a scheduler has read of a dataset.
LEMMA RowSet ==
  ASSUME NEW x \in RowSets
  PROVE  DOMAIN x \subseteq Datasets /\ \A d \in DOMAIN x : x[d] \in Int
  BY DEF RowSets

\* A change of the runs that makes no requested one keeps what is known of them.
LEMMA NoNewRequest ==
  ASSUME ScheduleInv, UNCHANGED asked,
         \A a \in Requesters : stage'[a] = stage[a],
         \A i \in Slots : run'[i].trigger = "manual" =>
           run[i].trigger = "manual" /\ run[i].source = run'[i].source /\ run[i].kind = run'[i].kind
  PROVE  SourceIsItsOwn' /\ AdmittedIsFirst' /\ Schedule!OneRequestedRun'
<1>1. SourceIsItsOwn'
  BY DEF ScheduleInv, SourceIsItsOwn
<1>2. AdmittedIsFirst'
  BY DEF ScheduleInv, AdmittedIsFirst, Requested
<1>3. \A i \in Slots : run[i].trigger = "manual" => run[i] # Schedule!NoRun
  BY DEF Schedule!NoRun
<1>4. Schedule!OneRequestedRun'
  BY <1>3 DEF ScheduleInv, Schedule!OneRequestedRun
<1>5. QED
  BY <1>1, <1>2, <1>4

\* Time, switches and the ends of runs.
LEMMA SurroundingStep ==
  ASSUME Schedule!ScheduleAssumption, ScheduleInv,
         \/ Schedule!Tick
         \/ \E d \in Datasets : Schedule!UpdateDataset(d)
         \/ \E s \in Sources : Schedule!UpdateSource(s)
         \/ \E i \in Slots : Schedule!ClaimRun(i) \/ Schedule!EndRun(i)
         \/ \E s \in Sources, kind \in CliKinds, i \in Slots : Schedule!EnqueueFromCommandLine(s, kind, i)
         \/ UNCHANGED Schedule!vars
  PROVE  ScheduleInv' /\ next' = next
<1>1. UNCHANGED <<next, stage, taken, asked, rows, busy, checked>>
  BY DEF Schedule!Tick, Schedule!UpdateDataset, Schedule!UpdateSource, Schedule!ClaimRun, Schedule!EndRun,
         Schedule!EnqueueFromCommandLine, Schedule!vars, Schedule!rowVars
<1>2. time' \in 0 .. MaxTime
  BY DEF Schedule!Tick, Schedule!UpdateDataset, Schedule!UpdateSource, Schedule!ClaimRun, Schedule!EndRun,
         Schedule!EnqueueFromCommandLine, Schedule!vars, ScheduleInv, ScheduleTypes, Schedule!ScheduleAssumption
<1>3. every' \in [Datasets -> Intervals] /\ enabled' \subseteq Sources \cup Datasets
  BY DEF Schedule!Tick, Schedule!UpdateDataset, Schedule!UpdateSource, Schedule!ClaimRun, Schedule!EndRun,
         Schedule!EnqueueFromCommandLine, Schedule!vars, Schedule!rowVars, ScheduleInv, ScheduleTypes
<1>4. /\ run' \in [Slots -> {Schedule!NoRun} \cup LiveRuns]
      /\ \A i \in Slots : run'[i].trigger = "manual" =>
           run[i].trigger = "manual" /\ run[i].source = run'[i].source /\ run[i].kind = run'[i].kind
  <2>0. run \in [Slots -> {Schedule!NoRun} \cup LiveRuns]
    BY DEF ScheduleInv, ScheduleTypes
  <2>1. CASE run' = run
    BY <2>0, <2>1
  <2>2. ASSUME NEW i \in Slots, NEW x \in {Schedule!NoRun} \cup LiveRuns, run' = [run EXCEPT ![i] = x],
               x.trigger = "manual" =>
                 run[i].trigger = "manual" /\ run[i].source = x.source /\ run[i].kind = x.kind
        PROVE  <1>4!1 /\ <1>4!2
    BY <2>0, <2>2
  <2>3. ASSUME NEW i \in Slots, Schedule!ClaimRun(i)
        PROVE  <1>4!1 /\ <1>4!2
    <3>1. PICK r \in LiveRuns : r = run[i]
      BY <2>0, <2>3 DEF Schedule!ClaimRun, Schedule!NoRun
    <3>2. PICK x : x = [r EXCEPT !.state = "running"]
      OBVIOUS
    <3>3. x \in LiveRuns
      BY <3>2 DEF LiveRuns
    <3>4. x.trigger = r.trigger /\ x.source = r.source /\ x.kind = r.kind
      BY <3>2 DEF LiveRuns
    <3>5. run' = [run EXCEPT ![i] = x]
      BY <2>3, <3>1, <3>2 DEF Schedule!ClaimRun
    <3>6. QED
      BY <2>2, <3>1, <3>3, <3>4, <3>5
  <2>4. ASSUME NEW i \in Slots, Schedule!EndRun(i)
        PROVE  <1>4!1 /\ <1>4!2
    <3>1. Schedule!NoRun.trigger = "none"
      BY DEF Schedule!NoRun
    <3>2. run' = [run EXCEPT ![i] = Schedule!NoRun]
      BY <2>4 DEF Schedule!EndRun
    <3>3. QED
      BY <2>2, <3>1, <3>2
  <2>5. ASSUME NEW s \in Sources, NEW kind \in CliKinds, NEW i \in Slots,
               Schedule!EnqueueFromCommandLine(s, kind, i)
        PROVE  <1>4!1 /\ <1>4!2
    <3>1. Schedule!NewRun(s, kind, "cli") \in LiveRuns
      BY DEF Schedule!NewRun, LiveRuns, Schedule!ScheduleAssumption
    <3>2. Schedule!NewRun(s, kind, "cli").trigger = "cli"
      BY DEF Schedule!NewRun
    <3>3. run' = [run EXCEPT ![i] = Schedule!NewRun(s, kind, "cli")]
      BY <2>5 DEF Schedule!EnqueueFromCommandLine
    <3>4. QED
      BY <2>2, <3>1, <3>2, <3>3
  <2>6. QED
    BY <2>1, <2>3, <2>4, <2>5 DEF Schedule!Tick, Schedule!UpdateDataset, Schedule!UpdateSource,
         Schedule!vars, Schedule!rowVars
<1>5. ScheduleTypes'
  BY <1>1, <1>2, <1>3, <1>4 DEF ScheduleInv, ScheduleTypes
<1>6. RowsAreCurrent' /\ RowsAreItsOwn' /\ NextIsLater' /\ Schedule!CheckQueuedOnce'
  BY <1>1 DEF ScheduleInv, RowsAreCurrent, RowsAreItsOwn, NextIsLater, Schedule!CheckQueuedOnce, HasRows
<1>7. SourceIsItsOwn' /\ AdmittedIsFirst' /\ Schedule!OneRequestedRun'
  BY <1>1, <1>4, NoNewRequest
<1>8. QED
  BY <1>1, <1>5, <1>6, <1>7 DEF ScheduleInv

\* A scheduler begins, gets its rows, looks for busy sources or gives up.
LEMMA SchedulerStep ==
  ASSUME Schedule!ScheduleAssumption, ScheduleInv, NEW a \in Schedulers,
         \/ Schedule!BeginSchedule(a) \/ Schedule!LockDatasets(a)
         \/ Schedule!ReadBusySources(a) \/ Schedule!AbortSchedule(a)
  PROVE  ScheduleInv' /\ next' = next
<1>0. /\ stage \in [Schedulers \cup Requesters -> {"idle", "begun", "locked", "planned", "admitted"}]
      /\ rows \in [Schedulers -> RowSets] /\ busy \in [Schedulers -> SUBSET Sources]
      /\ taken \in [Schedulers -> 0 .. MaxTime] /\ time \in 0 .. MaxTime
      /\ next \in [Datasets -> Int] /\ run \in [Slots -> {Schedule!NoRun} \cup LiveRuns]
  BY DEF ScheduleInv, ScheduleTypes
<1>1. UNCHANGED <<time, next, every, enabled, run, asked, checked>>
  BY DEF Schedule!BeginSchedule, Schedule!LockDatasets, Schedule!ReadBusySources, Schedule!AbortSchedule,
         Schedule!rowVars
<1>2. PICK at \in {"idle", "begun", "locked", "planned"} : stage' = [stage EXCEPT ![a] = at]
  BY DEF Schedule!BeginSchedule, Schedule!LockDatasets, Schedule!ReadBusySources, Schedule!AbortSchedule
<1>3. /\ stage' \in [Schedulers \cup Requesters -> {"idle", "begun", "locked", "planned", "admitted"}]
      /\ stage'[a] = at /\ \A b \in Schedulers \cup Requesters : b # a => stage'[b] = stage[b]
  BY <1>0, <1>2
<1>4. a \notin Requesters
  BY DEF Schedule!ScheduleAssumption
<1>5. taken' \in [Schedulers -> 0 .. MaxTime]
  BY <1>0 DEF Schedule!BeginSchedule, Schedule!LockDatasets, Schedule!ReadBusySources, Schedule!AbortSchedule
<1>6. busy' \in [Schedulers -> SUBSET Sources]
  <2>1. Schedule!Live("import") \subseteq Sources
    BY <1>0 DEF Schedule!Live, Schedule!NoRun, LiveRuns
  <2>2. QED
    BY <1>0, <2>1 DEF Schedule!BeginSchedule, Schedule!LockDatasets, Schedule!ReadBusySources,
                      Schedule!AbortSchedule
<1>7. /\ rows' \in [Schedulers -> RowSets] /\ \A b \in Schedulers : b # a => rows'[b] = rows[b]
      /\ HasRows(a)' =>
           \/ HasRows(a) /\ rows'[a] = rows[a]
           \/ /\ rows'[a] = [d \in Schedule!Scheduled |-> next[d]]
              /\ \A b \in Schedulers : HasRows(b) => DOMAIN rows[b] \cap Schedule!Scheduled = {}
  <2>1. CASE Schedule!BeginSchedule(a) \/ Schedule!ReadBusySources(a)
    BY <1>0, <1>3, <2>1 DEF Schedule!BeginSchedule, Schedule!ReadBusySources, HasRows
  <2>2. CASE Schedule!AbortSchedule(a)
    <3>1. Schedule!NoRows \in RowSets
      <4>1. Schedule!NoRows \in [{} -> Int]
        BY DEF Schedule!NoRows
      <4>2. QED
        BY <4>1 DEF RowSets
    <3>2. rows' = [rows EXCEPT ![a] = Schedule!NoRows] /\ stage'[a] = "idle"
      BY <1>0, <2>2 DEF Schedule!AbortSchedule
    <3>3. QED
      BY <1>0, <3>1, <3>2 DEF HasRows
  <2>3. CASE Schedule!LockDatasets(a) /\ Schedule!DueIn(taken[a]) = {}
    BY <1>0, <2>3 DEF Schedule!LockDatasets, HasRows
  <2>4. CASE Schedule!LockDatasets(a) /\ Schedule!DueIn(taken[a]) # {}
    <3>1. rows' = [rows EXCEPT ![a] = [d \in Schedule!Scheduled |-> next[d]]]
      BY <2>4 DEF Schedule!LockDatasets
    <3>2. [d \in Schedule!Scheduled |-> next[d]] \in RowSets
      <4>1. Schedule!Scheduled \in SUBSET Datasets
        BY DEF Schedule!Scheduled
      <4>2. [d \in Schedule!Scheduled |-> next[d]] \in [Schedule!Scheduled -> Int]
        BY <1>0, <4>1
      <4>3. QED
        BY <4>1, <4>2 DEF RowSets
    <3>3. \A b \in Schedulers : HasRows(b) => DOMAIN rows[b] \cap Schedule!Scheduled = {}
      BY <2>4 DEF Schedule!LockDatasets, Schedule!WaitsForRows, Schedule!DatasetLocked, HasRows
    <3>4. QED
      BY <1>0, <3>1, <3>2, <3>3
  <2>5. QED
    BY <2>1, <2>2, <2>3, <2>4
<1>8. \A a1 \in Requesters : stage'[a1] = stage[a1]
  BY <1>3, <1>4
<1>9. ScheduleTypes'
  BY <1>1, <1>3, <1>5, <1>6, <1>7, <1>8 DEF ScheduleInv, ScheduleTypes
<1>10. RowsAreCurrent'
  <2> SUFFICES ASSUME NEW b \in Schedulers, HasRows(b)', NEW d \in DOMAIN rows'[b]
               PROVE  rows'[b][d] = next'[d]
    BY DEF RowsAreCurrent
  <2>1. CASE b = a
    BY <1>1, <1>7, <2>1 DEF ScheduleInv, RowsAreCurrent
  <2>2. CASE b # a
    BY <1>1, <1>3, <1>7, <2>2 DEF ScheduleInv, RowsAreCurrent, HasRows
  <2>3. QED
    BY <2>1, <2>2
<1>11. RowsAreItsOwn'
  <2>1. \A b \in Schedulers : b # a /\ HasRows(b)' => HasRows(b) /\ rows'[b] = rows[b]
    BY <1>3, <1>7 DEF HasRows
  <2>2. ASSUME NEW b \in Schedulers, b # a, HasRows(b)', HasRows(a)'
        PROVE  DOMAIN rows'[a] \cap DOMAIN rows'[b] = {}
    BY <1>7, <2>1, <2>2 DEF ScheduleInv, RowsAreItsOwn
  <2>3. QED
    BY <2>1, <2>2 DEF ScheduleInv, RowsAreItsOwn
<1>12. NextIsLater' /\ Schedule!CheckQueuedOnce'
  BY <1>1 DEF ScheduleInv, NextIsLater, Schedule!CheckQueuedOnce
<1>13. SourceIsItsOwn' /\ AdmittedIsFirst' /\ Schedule!OneRequestedRun'
  BY <1>1, <1>8, NoNewRequest
<1>14. QED
  BY <1>1, <1>9, <1>10, <1>11, <1>12, <1>13 DEF ScheduleInv

\* A scheduler queues what is due: each check lies in the past of the next one.
LEMMA QueueStep ==
  ASSUME Schedule!ScheduleAssumption, ScheduleInv, NEW a \in Schedulers, Schedule!QueueDueImports(a)
  PROVE  ScheduleInv' /\ Schedule!NextCheckIsOnGrid
<1> DEFINE planned == Schedule!Planned(a)
           sources == {SourceOf[d] : d \in planned}
<1>0. /\ stage \in [Schedulers \cup Requesters -> {"idle", "begun", "locked", "planned", "admitted"}]
      /\ rows \in [Schedulers -> RowSets] /\ busy \in [Schedulers -> SUBSET Sources]
      /\ taken[a] \in 0 .. MaxTime /\ MaxTime \in Nat
      /\ next \in [Datasets -> Int] /\ run \in [Slots -> {Schedule!NoRun} \cup LiveRuns]
      /\ checked \in [Datasets -> Seq(Int)] /\ every \in [Datasets -> Intervals] /\ Intervals \subseteq Nat \ {0}
      /\ \A d \in Datasets : next[d] >= -1
  BY DEF ScheduleInv, ScheduleTypes, Schedule!ScheduleAssumption
<1>1. /\ stage[a] = "planned" /\ stage' = [stage EXCEPT ![a] = "idle"]
      /\ rows' = [rows EXCEPT ![a] = Schedule!NoRows] /\ busy' = [busy EXCEPT ![a] = {}]
      /\ UNCHANGED <<time, every, enabled, taken, asked>>
  BY DEF Schedule!QueueDueImports
<1>2. PICK slot \in [sources -> Schedule!FreeSlots] :
        /\ run' = [i \in Slots |-> IF \E s \in sources : slot[s] = i
                                  THEN Schedule!NewRun(CHOOSE s \in sources : slot[s] = i, "import", "scheduled")
                                  ELSE run[i]]
        /\ next' = [d \in Datasets |-> IF d \in planned
                      THEN Schedule!NextCheckAfter(rows[a][d], every[d], taken[a]) ELSE next[d]]
        /\ checked' = [d \in Datasets |-> IF d \in planned
                         THEN Append(checked[d], rows[a][d]) ELSE checked[d]]
  BY DEF Schedule!QueueDueImports
<1>3. planned \subseteq Datasets /\ planned \subseteq DOMAIN rows[a]
  BY <1>0, RowSet DEF Schedule!Planned
<1>4. \A d \in planned : rows[a][d] = next[d] /\ (next[d] = -1 \/ next[d] <= taken[a])
  BY <1>1, <1>3 DEF ScheduleInv, RowsAreCurrent, HasRows, Schedule!Planned, Schedule!IsDue, Schedule!Never
<1>5. ASSUME NEW d \in planned
      PROVE  /\ next'[d] \in Int /\ next'[d] > next[d]
             /\ next'[d] \in Schedule!GridAfter(IF next[d] = -1 THEN taken[a] ELSE next[d], every[d], taken[a])
  <2>1. d \in Datasets /\ next[d] \in Int /\ every[d] \in Nat \ {0} /\ taken[a] \in Nat /\ next[d] >= -1
    <3>1. d \in Datasets
      BY <1>3
    <3>2. taken[a] \in Nat
      BY <1>0
    <3>3. every[d] \in Intervals
      BY <1>0, <3>1
    <3>4. QED
      BY <1>0, <3>1, <3>2, <3>3
  <2>2. next'[d] = Schedule!NextCheckAfter(next[d], every[d], taken[a])
    BY <1>2, <1>4, <2>1
  <2>3. CASE next[d] = -1
    <3>1. next'[d] = taken[a] + every[d]
      BY <2>2, <2>3 DEF Schedule!NextCheckAfter, Schedule!Never
    <3>2. every[d] % every[d] = 0
      BY <2>1
    <3>3. QED
      BY <2>1, <2>3, <3>1, <3>2 DEF Schedule!GridAfter
  <2>4. CASE next[d] # -1
    <3>1. next'[d] = next[d] + ((taken[a] - next[d]) \div every[d] + 1) * every[d]
      BY <2>2, <2>4 DEF Schedule!NextCheckAfter, Schedule!Never
    <3>2. next[d] <= taken[a]
      BY <1>4, <2>4
    <3>3. next'[d] \in taken[a] + 1 .. taken[a] + every[d] /\ (next'[d] - next[d]) % every[d] = 0
      <4>1. PICK n \in Int, t \in Int, h \in Nat \ {0} : n = next[d] /\ t = taken[a] /\ h = every[d]
        BY <2>1
      <4>2. PICK g : g = next'[d]
        OBVIOUS
      <4>3. n <= t /\ g = n + ((t - n) \div h + 1) * h
        BY <3>1, <3>2, <4>1, <4>2
      <4>4. g \in t + 1 .. t + h /\ (g - n) % h = 0
        BY <4>3, GridPoint
      <4>5. QED
        BY <4>1, <4>2, <4>4
    <3>4. QED
      BY <2>1, <2>4, <3>2, <3>3 DEF Schedule!GridAfter
  <2>5. QED
    BY <2>3, <2>4
<1>6. \A d \in Datasets : d \notin planned => next'[d] = next[d] /\ checked'[d] = checked[d]
  BY <1>2
<1>7. \A d \in planned : checked'[d] = Append(checked[d], next[d])
  BY <1>2, <1>3, <1>4
<1>8. Schedule!NextCheckIsOnGrid
  BY <1>1, <1>5, <1>6 DEF Schedule!NextCheckIsOnGrid, Schedule!Never
<1>9. /\ run' \in [Slots -> {Schedule!NoRun} \cup LiveRuns]
      /\ \A i \in Slots : run'[i].trigger = "manual" => run'[i] = run[i]
  <2>1. sources \subseteq Sources
    BY <1>3 DEF Schedule!ScheduleAssumption
  <2>2. ASSUME NEW s \in Sources
        PROVE  /\ Schedule!NewRun(s, "import", "scheduled") \in LiveRuns
               /\ Schedule!NewRun(s, "import", "scheduled").trigger = "scheduled"
    BY DEF Schedule!NewRun, LiveRuns
  <2>3. ASSUME NEW i \in Slots
        PROVE  /\ run'[i] \in {Schedule!NoRun} \cup LiveRuns
               /\ run'[i].trigger = "manual" => run'[i] = run[i]
    <3>1. CASE \E s \in sources : slot[s] = i
      <4>1. PICK s \in sources : s = CHOOSE q \in sources : slot[q] = i
        BY <3>1
      <4>2. run'[i] = Schedule!NewRun(s, "import", "scheduled")
        BY <1>2, <3>1, <4>1
      <4>3. QED
        BY <2>1, <2>2, <4>2
    <3>2. CASE ~ \E s \in sources : slot[s] = i
      BY <1>0, <1>2, <3>2
    <3>3. QED
      BY <3>1, <3>2
  <2>4. run' = [i \in Slots |-> run'[i]]
    BY <1>2
  <2>5. QED
    BY <2>3, <2>4
<1>10. /\ next' \in [Datasets -> Int] /\ \A d \in Datasets : next'[d] >= next[d]
       /\ checked' \in [Datasets -> Seq(Int)]
  <2>1. \A d \in Datasets : next'[d] \in Int /\ next'[d] >= next[d]
    BY <1>0, <1>5, <1>6
  <2>2. \A d \in Datasets : checked'[d] \in Seq(Int)
    <3>1. \A c \in Seq(Int), n \in Int : Append(c, n) \in Seq(Int)
      OBVIOUS
    <3>2. \A d \in Datasets : checked[d] \in Seq(Int) /\ next[d] \in Int
      BY <1>0
    <3>3. QED
      BY <1>6, <1>7, <3>1, <3>2, Zenon
  <2>3. next' = [d \in Datasets |-> next'[d]] /\ checked' = [d \in Datasets |-> checked'[d]]
    BY <1>2
  <2>4. QED
    BY <2>1, <2>2, <2>3
<1> HIDE DEF planned, sources
<1>11. a \notin Requesters
  BY DEF Schedule!ScheduleAssumption
<1>12. /\ stage' \in [Schedulers \cup Requesters -> {"idle", "begun", "locked", "planned", "admitted"}]
       /\ stage'[a] = "idle" /\ \A b \in Schedulers \cup Requesters : b # a => stage'[b] = stage[b]
  BY <1>0, <1>1
<1>13. rows' \in [Schedulers -> RowSets] /\ \A b \in Schedulers : b # a => rows'[b] = rows[b]
  <2>1. Schedule!NoRows \in [{} -> Int]
    BY DEF Schedule!NoRows
  <2>2. Schedule!NoRows \in RowSets
    BY <2>1 DEF RowSets
  <2>3. QED
    BY <1>0, <1>1, <2>2
<1>14. busy' \in [Schedulers -> SUBSET Sources]
  BY <1>0, <1>1
<1>15. \A b \in Requesters : stage'[b] = stage[b]
  BY <1>11, <1>12
<1>16. ScheduleTypes'
  <2>1. \A d \in Datasets : next'[d] >= -1
    BY <1>0, <1>10
  <2>2. QED
    BY <1>1, <1>9, <1>10, <1>12, <1>13, <1>14, <1>15, <2>1 DEF ScheduleInv, ScheduleTypes
<1>17. \A b \in Schedulers : HasRows(b)' => b # a /\ HasRows(b) /\ rows'[b] = rows[b]
  BY <1>12, <1>13 DEF HasRows
<1>18. RowsAreItsOwn'
  BY <1>17 DEF ScheduleInv, RowsAreItsOwn
<1>19. RowsAreCurrent'
  <2> SUFFICES ASSUME NEW b \in Schedulers, HasRows(b)', NEW d \in DOMAIN rows'[b]
               PROVE  rows'[b][d] = next'[d]
    BY DEF RowsAreCurrent
  <2>1. b # a /\ HasRows(b) /\ rows'[b] = rows[b] /\ rows[b][d] = next[d] /\ HasRows(a)
    BY <1>1, <1>17 DEF ScheduleInv, RowsAreCurrent, HasRows
  <2>2. d \notin planned
    BY <1>3, <2>1 DEF ScheduleInv, RowsAreItsOwn
  <2>3. d \in Datasets
    BY <1>0, <2>1, RowSet
  <2>4. QED
    BY <1>6, <2>1, <2>2, <2>3
<1>20. ASSUME NEW d \in Datasets
       PROVE  /\ \A i \in 1 .. Len(checked'[d]) : checked'[d][i] < next'[d]
              /\ \A i, j \in 1 .. Len(checked'[d]) : checked'[d][i] = checked'[d][j] => i = j
  <2>1. /\ \A i \in 1 .. Len(checked[d]) : checked[d][i] < next[d]
        /\ \A i, j \in 1 .. Len(checked[d]) : checked[d][i] = checked[d][j] => i = j
    BY DEF ScheduleInv, NextIsLater, Schedule!CheckQueuedOnce
  <2>2. CASE d \notin planned
    BY <1>6, <2>1, <2>2
  <2>3. CASE d \in planned
    <3>1. PICK c \in Seq(Int), n \in Int : c = checked[d] /\ n = next[d]
      BY <1>0
    <3>2. /\ Len(c) \in Nat /\ Len(checked'[d]) = Len(c) + 1 /\ checked'[d][Len(c) + 1] = n
          /\ \A i \in 1 .. Len(c) : checked'[d][i] = c[i]
      BY <1>7, <2>3, <3>1
    <3>3. \A i \in 1 .. Len(checked'[d]) : i = Len(c) + 1 \/ i \in 1 .. Len(c)
      BY <3>2
    <3>4. \A i \in 1 .. Len(c) : c[i] \in Int /\ c[i] < n
      BY <2>1, <3>1
    <3>5. next'[d] \in Int /\ n < next'[d]
      BY <1>5, <2>3, <3>1
    <3>6. \A i \in 1 .. Len(checked'[d]) : checked'[d][i] < next'[d]
      <4>1. ASSUME NEW i \in 1 .. Len(c) PROVE checked'[d][i] < next'[d]
        <5>1. checked'[d][i] = c[i] /\ c[i] \in Int /\ c[i] < n
          BY <3>2, <3>4
        <5>2. QED
          BY <3>5, <5>1
      <4>2. checked'[d][Len(c) + 1] < next'[d]
        BY <3>2, <3>5
      <4>3. QED
        BY <3>3, <4>1, <4>2
    <3>7. \A i, j \in 1 .. Len(checked'[d]) : checked'[d][i] = checked'[d][j] => i = j
      <4> SUFFICES ASSUME NEW i \in 1 .. Len(checked'[d]), NEW j \in 1 .. Len(checked'[d]),
                          checked'[d][i] = checked'[d][j]
                   PROVE  i = j
        OBVIOUS
      <4>1. CASE i \in 1 .. Len(c) /\ j \in 1 .. Len(c)
        BY <2>1, <3>1, <3>2, <4>1
      <4>2. CASE i = Len(c) + 1 /\ j \in 1 .. Len(c)
        <5>1. c[j] = n /\ c[j] < n /\ c[j] \in Int
          BY <3>2, <3>4, <4>2
        <5>2. QED
          BY <5>1
      <4>3. CASE j = Len(c) + 1 /\ i \in 1 .. Len(c)
        <5>1. c[i] = n /\ c[i] < n /\ c[i] \in Int
          BY <3>2, <3>4, <4>3
        <5>2. QED
          BY <5>1
      <4>4. QED
        BY <3>3, <4>1, <4>2, <4>3
    <3>8. QED
      BY <3>6, <3>7
  <2>4. QED
    BY <2>2, <2>3
<1>21. NextIsLater' /\ Schedule!CheckQueuedOnce'
  BY <1>20 DEF NextIsLater, Schedule!CheckQueuedOnce
<1>22. SourceIsItsOwn' /\ AdmittedIsFirst' /\ Schedule!OneRequestedRun'
  BY <1>1, <1>9, <1>15, NoNewRequest
<1>23. QED
  BY <1>8, <1>16, <1>18, <1>19, <1>21, <1>22 DEF ScheduleInv

\* A request locks its source, looks for a live run, queues one or is refused.
LEMMA RequestStep ==
  ASSUME Schedule!ScheduleAssumption, ScheduleInv, NEW a \in Requesters,
         \/ \E s \in Sources, kind \in RequestKinds : Schedule!LockSource(a, s, kind)
         \/ Schedule!LookForLiveRun(a) \/ Schedule!QueueRequestedRun(a) \/ Schedule!RefuseRequest(a)
  PROVE  ScheduleInv' /\ next' = next
<1>0. /\ stage \in [Schedulers \cup Requesters -> {"idle", "begun", "locked", "planned", "admitted"}]
      /\ asked \in [Requesters -> {Schedule!NoRequest} \cup Asked]
      /\ \A b \in Requesters : stage[b] \in {"locked", "admitted"} => asked[b] \in Asked
      /\ run \in [Slots -> {Schedule!NoRun} \cup LiveRuns]
  BY DEF ScheduleInv, ScheduleTypes
<1>1. UNCHANGED <<time, next, every, enabled, taken, rows, busy, checked>>
  BY DEF Schedule!LockSource, Schedule!LookForLiveRun, Schedule!QueueRequestedRun, Schedule!RefuseRequest,
         Schedule!rowVars
<1>2. PICK at \in {"idle", "locked", "admitted"} : stage' = [stage EXCEPT ![a] = at]
  BY DEF Schedule!LockSource, Schedule!LookForLiveRun, Schedule!QueueRequestedRun, Schedule!RefuseRequest
<1>3. /\ stage' \in [Schedulers \cup Requesters -> {"idle", "begun", "locked", "planned", "admitted"}]
      /\ stage'[a] = at /\ \A b \in Schedulers \cup Requesters : b # a => stage'[b] = stage[b]
  BY <1>0, <1>2
<1>4. \A b \in Schedulers : stage'[b] = stage[b]
  BY <1>3 DEF Schedule!ScheduleAssumption
<1>5. RowsAreCurrent' /\ RowsAreItsOwn' /\ NextIsLater' /\ Schedule!CheckQueuedOnce'
  BY <1>1, <1>4 DEF ScheduleInv, RowsAreCurrent, RowsAreItsOwn, NextIsLater, Schedule!CheckQueuedOnce, HasRows
<1>6. ASSUME asked' \in [Requesters -> {Schedule!NoRequest} \cup Asked],
             \A b \in Requesters : stage'[b] \in {"locked", "admitted"} => asked'[b] \in Asked,
             run' \in [Slots -> {Schedule!NoRun} \cup LiveRuns],
             SourceIsItsOwn', AdmittedIsFirst', Schedule!OneRequestedRun'
      PROVE  ScheduleInv' /\ next' = next
  <2>1. ScheduleTypes'
    BY <1>1, <1>3, <1>6 DEF ScheduleInv, ScheduleTypes
  <2>2. QED
    BY <1>1, <1>5, <1>6, <2>1 DEF ScheduleInv
<1>7. ASSUME NEW s \in Sources, NEW kind \in RequestKinds, Schedule!LockSource(a, s, kind)
      PROVE  ScheduleInv' /\ next' = next
  <2>1. /\ asked' = [asked EXCEPT ![a] = [source |-> s, kind |-> kind]] /\ run' = run /\ stage'[a] = "locked"
    BY <1>0, <1>7 DEF Schedule!LockSource, Schedule!rowVars
  <2>2. [source |-> s, kind |-> kind] \in Asked /\ [source |-> s, kind |-> kind].source = s
    BY DEF Asked
  <2>3. /\ asked' \in [Requesters -> {Schedule!NoRequest} \cup Asked] /\ asked'[a] \in Asked /\ asked'[a].source = s
        /\ \A b \in Requesters : b # a => asked'[b] = asked[b]
    BY <1>0, <2>1, <2>2
  <2>4. \A b \in Requesters : stage[b] \in {"locked", "admitted"} => asked[b].source # s
    BY <1>7 DEF Schedule!LockSource, Schedule!WaitsForSource, Schedule!SourceLocked
  <2>5. SourceIsItsOwn'
    BY <1>3, <2>3, <2>4 DEF ScheduleInv, SourceIsItsOwn
  <2>6. AdmittedIsFirst'
    BY <1>3, <2>1, <2>3 DEF ScheduleInv, AdmittedIsFirst
  <2>7. Schedule!OneRequestedRun'
    BY <2>1 DEF ScheduleInv, Schedule!OneRequestedRun
  <2>8. QED
    BY <1>0, <1>3, <1>6, <2>1, <2>3, <2>5, <2>6, <2>7
<1>8. CASE Schedule!LookForLiveRun(a) \/ Schedule!RefuseRequest(a)
  <2>1. /\ UNCHANGED <<asked, run>> /\ stage[a] \in {"locked", "admitted"}
        /\ stage'[a] = "admitted" => asked[a].source \notin Schedule!Live(asked[a].kind)
    BY <1>0, <1>8 DEF Schedule!LookForLiveRun, Schedule!RefuseRequest, Schedule!rowVars
  <2>2. SourceIsItsOwn'
    BY <1>3, <2>1 DEF ScheduleInv, SourceIsItsOwn
  <2>3. AdmittedIsFirst'
    <3>1. \A i \in Slots : run[i].trigger = "manual" => run[i].state # "ended"
      BY <1>0 DEF Schedule!NoRun, LiveRuns
    <3>2. stage'[a] = "admitted" => \A i \in Slots : ~Requested(run[i], asked[a].source, asked[a].kind)
      BY <2>1, <3>1 DEF Requested, Schedule!Live
    <3>3. QED
      BY <1>3, <2>1, <3>2 DEF ScheduleInv, AdmittedIsFirst
  <2>4. Schedule!OneRequestedRun'
    BY <2>1 DEF ScheduleInv, Schedule!OneRequestedRun
  <2>5. QED
    BY <1>0, <1>3, <1>6, <2>1, <2>2, <2>3, <2>4
<1>9. CASE Schedule!QueueRequestedRun(a)
  <2>1. PICK i \in Slots : run' = [run EXCEPT ![i] = Schedule!NewRun(asked[a].source, asked[a].kind, "manual")]
    BY <1>9 DEF Schedule!QueueRequestedRun, Schedule!FreeSlots
  <2>2. asked' = asked /\ stage[a] = "admitted" /\ stage'[a] = "idle"
    BY <1>0, <1>9 DEF Schedule!QueueRequestedRun
  <2>3. PICK s \in Sources, kind \in RequestKinds : s = asked[a].source /\ kind = asked[a].kind
    BY <1>0, <2>2 DEF Asked
  <2>4. PICK x : x = Schedule!NewRun(s, kind, "manual")
    OBVIOUS
  <2>5. x \in LiveRuns
    BY <2>4 DEF Schedule!NewRun, LiveRuns, Schedule!ScheduleAssumption
  <2>6. x.source = s /\ x.kind = kind
    BY <2>4 DEF Schedule!NewRun
  <2>7. /\ run' \in [Slots -> {Schedule!NoRun} \cup LiveRuns] /\ run'[i] = x
        /\ \A j \in Slots : j # i => run'[j] = run[j]
    BY <1>0, <2>1, <2>3, <2>4, <2>5
  <2>8. SourceIsItsOwn'
    BY <1>3, <2>2 DEF ScheduleInv, SourceIsItsOwn
  <2>9. AdmittedIsFirst'
    <3> SUFFICES ASSUME NEW b \in Requesters, stage'[b] = "admitted", NEW j \in Slots
                 PROVE  ~Requested(run'[j], asked[b].source, asked[b].kind)
      BY <2>2 DEF AdmittedIsFirst
    <3>1. b # a /\ stage[b] = "admitted"
      BY <1>3, <2>2
    <3>2. asked[b].source # s
      BY <2>2, <2>3, <3>1 DEF ScheduleInv, SourceIsItsOwn
    <3>3. ~Requested(run[j], asked[b].source, asked[b].kind)
      BY <3>1 DEF ScheduleInv, AdmittedIsFirst
    <3>4. QED
      BY <2>6, <2>7, <3>2, <3>3 DEF Requested
  <2>10. Schedule!OneRequestedRun'
    <3>1. \A j \in Slots : ~Requested(run[j], s, kind)
      BY <2>2, <2>3 DEF ScheduleInv, AdmittedIsFirst
    <3>2. \A j \in Slots : j # i => ~Requested(run'[j], s, kind)
      BY <2>7, <3>1
    <3>3. QED
      BY <2>6, <2>7, <3>2 DEF ScheduleInv, Schedule!OneRequestedRun, Requested
  <2>11. QED
    BY <1>0, <1>3, <1>6, <2>2, <2>7, <2>8, <2>9, <2>10
<1>10. QED
  BY <1>7, <1>8, <1>9

\* At first nothing is queued.
LEMMA ScheduleInit == Schedule!ScheduleAssumption /\ Schedule!Init => ScheduleInv
<1> SUFFICES ASSUME Schedule!ScheduleAssumption, Schedule!Init PROVE ScheduleInv
  OBVIOUS
<1>1. rows \in [Schedulers -> RowSets]
  <2>1. Schedule!NoRows \in [{} -> Int]
    BY DEF Schedule!NoRows
  <2>2. Schedule!NoRows \in RowSets
    BY <2>1 DEF RowSets
  <2>3. QED
    BY <2>2 DEF Schedule!Init
<1>2. ScheduleTypes
  BY <1>1 DEF Schedule!Init, ScheduleTypes, Schedule!Actors, Schedule!Never, Schedule!ScheduleAssumption
<1>3. RowsAreCurrent /\ RowsAreItsOwn /\ SourceIsItsOwn /\ AdmittedIsFirst
  BY DEF Schedule!Init, Schedule!Actors, RowsAreCurrent, RowsAreItsOwn, SourceIsItsOwn, AdmittedIsFirst, HasRows
<1>4. NextIsLater /\ Schedule!CheckQueuedOnce
  BY DEF Schedule!Init, NextIsLater, Schedule!CheckQueuedOnce
<1>5. Schedule!OneRequestedRun
  BY DEF Schedule!Init, Schedule!OneRequestedRun
<1>6. QED
  BY <1>2, <1>3, <1>4, <1>5 DEF ScheduleInv

\* A check is queued once, by whichever scheduler comes first, and moves to the
\* first point of its grid after the time that this scheduler took; two requests
\* never both get a run (scheduleDueImports, nextCheckAfter, queueRequestedRun).
THEOREM ChecksAndRequestsQueuedOnce ==
  ASSUME Schedule!ScheduleAssumption
  PROVE  Schedule!Spec => QueuedOnce
<1>1. ScheduleInv /\ [Schedule!Next]_(Schedule!vars)
        => ScheduleInv' /\ [Schedule!NextCheckIsOnGrid]_(Schedule!vars)
  <2> SUFFICES ASSUME ScheduleInv, [Schedule!Next]_(Schedule!vars)
               PROVE  ScheduleInv' /\ (Schedule!NextCheckIsOnGrid \/ UNCHANGED Schedule!vars)
    OBVIOUS
  <2>1. next' = next => Schedule!NextCheckIsOnGrid
    BY DEF Schedule!NextCheckIsOnGrid
  <2>2. QED
    BY <2>1, SurroundingStep, SchedulerStep, QueueStep, RequestStep DEF Schedule!Next
<1>2. ScheduleInv => Schedule!TypeOK /\ Schedule!CheckQueuedOnce /\ Schedule!OneRequestedRun
  <2> SUFFICES ASSUME ScheduleInv PROVE Schedule!TypeOK
    BY DEF ScheduleInv
  <2>1. \A a \in Schedulers : DOMAIN rows[a] \subseteq Datasets
    BY RowSet DEF ScheduleInv, ScheduleTypes
  <2>2. QED
    BY <2>1 DEF ScheduleInv, ScheduleTypes, Schedule!TypeOK, Schedule!Never, Schedule!Actors, LiveRuns
<1>3. QED
  BY <1>1, <1>2, ScheduleInit, PTL DEF Schedule!Spec, QueuedOnce, Schedule!QueuedOnce

-----------------------------------------------------------------------------
(* The operator of a licensee.                                             *)

\* What is in a run, and in the transaction of an administrator.
RunRecords ==
  [kind : {"remap", "replay"}, from : Operators \cup {Null}, to : Operators \cup {Null}, dry : BOOLEAN,
   state : {"queued", "running", "done", "failed", "cancelled"}, attempt : 0 .. MaxAttempts,
   at : {"none", "claimed", "applied", "dead"}, steps : BOOLEAN]

Transactions == [pc : {"locked", "checked"}, change : Change]

\* The row, the runs and the transactions are of their types.
LicenseeTypes ==
  /\ operator \in Operators \cup {Null}
  /\ brand \in Brands \cup {Null}
  /\ lock \in Admins \cup {Null}
  /\ session \in [Admins -> {Idle} \cup Transactions]
  /\ runs \in Seq(RunRecords)

\* A transaction under way holds the row.
SessionHoldsRow == \A a \in Admins : session[a] # Idle => lock = a

LiveRemap(r) == r.kind = "remap" /\ Live(r)

\* A transaction that found no remap under way is right about it until it ends.
FoundNoRemap ==
  \A a \in Admins :
    session[a].pc = "checked" =>
      /\ session[a].change.operator # Absent
      /\ \A n \in DOMAIN runs : ~LiveRemap(runs[n])

LicenseeInv ==
  /\ LicenseeTypes
  /\ SessionHoldsRow
  /\ FoundNoRemap
  /\ OneLiveRemap
  /\ OperatorOrBrand

\* A transaction is no idle administrator.
LEMMA SessionOf ==
  ASSUME LicenseeTypes, NEW a \in Admins, session[a].pc \in {"locked", "checked"}
  PROVE  session[a] \in Transactions /\ session[a] # Idle
  <1>1. session[a] \in {Idle} \cup Transactions
    BY DEF LicenseeTypes
  <1>2. Idle.pc = "idle"
    BY DEF Idle
  <1>3. QED
    BY <1>1, <1>2

\* A step of a run changes its row, and never from ended to live.
LEMMA RunStep ==
  ASSUME LicenseeInv, NEW n \in DOMAIN runs, NEW x \in RunRecords, runs' = [runs EXCEPT ![n] = x],
         x.kind = runs[n].kind, Live(x) => Live(runs[n]),
         lock' = lock, session' = session, operator' \in Operators \cup {Null}, brand' \in Brands \cup {Null},
         operator' = Null \/ brand' = Null
  PROVE  LicenseeInv'
<1>1. /\ runs' \in Seq(RunRecords) /\ DOMAIN runs' = DOMAIN runs
      /\ runs'[n] = x /\ \A k \in DOMAIN runs : k # n => runs'[k] = runs[k]
  BY DEF LicenseeInv, LicenseeTypes
<1>2. \A k \in DOMAIN runs : LiveRemap(runs'[k]) => LiveRemap(runs[k])
  BY <1>1 DEF LiveRemap
<1>3. LicenseeTypes'
  BY <1>1 DEF LicenseeInv, LicenseeTypes
<1>4. SessionHoldsRow' /\ OperatorOrBrand'
  BY DEF LicenseeInv, SessionHoldsRow, OperatorOrBrand
<1>5. FoundNoRemap'
  BY <1>1, <1>2 DEF LicenseeInv, FoundNoRemap
<1>6. OneLiveRemap'
  BY <1>1, <1>2 DEF LicenseeInv, OneLiveRemap, LiveRemap
<1>7. QED
  BY <1>3, <1>4, <1>5, <1>6 DEF LicenseeInv

\* The steps of a run.
LEMMA RunSteps ==
  ASSUME MappingAssumption, LicenseeInv, NEW n \in DOMAIN runs,
         \/ ClaimRun(n) \/ Die(n) \/ ApplyRemap(n) \/ Replay(n)
         \/ StartAfterSteps(n) \/ FinishRun(n) \/ FailRun(n)
         \/ CancelRun(n)
  PROVE  LicenseeInv'
<1>1. PICK r \in RunRecords : r = runs[n]
  BY DEF LicenseeInv, LicenseeTypes
<1>2. /\ operator \in Operators \cup {Null} /\ brand \in Brands \cup {Null}
      /\ operator = Null \/ brand = Null
      /\ runs \in Seq(RunRecords) /\ MaxAttempts \in Nat
  BY DEF LicenseeInv, LicenseeTypes, OperatorOrBrand, MappingAssumption
<1>3. UNCHANGED <<lock, session>>
  BY DEF ClaimRun, Die, ApplyRemap, Replay, StartAfterSteps,
         FinishRun, FailRun, CancelRun
<1>4. CASE ApplyRemap(n)
  <2>1. PICK x : x = [r EXCEPT !.at = "applied"]
    OBVIOUS
  <2>2. runs' = [runs EXCEPT ![n] = x] /\ r.state = "running"
    BY <1>1, <1>4, <2>1 DEF ApplyRemap
  <2>3. x \in RunRecords
    BY <2>1 DEF RunRecords
  <2>4. x.kind = r.kind /\ x.state = r.state
    BY <2>1 DEF RunRecords
  <2>5. /\ operator' \in Operators \cup {Null} /\ brand' \in Brands \cup {Null}
        /\ operator' = Null \/ brand' = Null
    BY <1>1, <1>2, <1>4 DEF ApplyRemap, row, RunRecords, LicenseeInv, LicenseeTypes,
                            OperatorOrBrand
  <2>6. QED
    BY <1>1, <1>3, <2>2, <2>3, <2>4, <2>5, RunStep DEF Live
<1>5. ASSUME NEW x \in RunRecords, runs' = [runs EXCEPT ![n] = x], x.kind = r.kind,
             x.state \in {"queued", "running"} => r.state \in {"queued", "running"},
             UNCHANGED <<operator, brand>>
      PROVE  LicenseeInv'
  BY <1>1, <1>3, <1>5, RunStep DEF Live, LicenseeInv, LicenseeTypes, OperatorOrBrand
<1>6. CASE ClaimRun(n)
  <2>1. CASE r.attempt >= MaxAttempts
    <3>1. PICK x : x = [r EXCEPT !.state = "failed", !.at = "none"]
      OBVIOUS
    <3>2. runs' = [runs EXCEPT ![n] = x]
      BY <1>1, <1>6, <2>1, <3>1 DEF ClaimRun
    <3>3. x \in RunRecords
      BY <3>1 DEF RunRecords
    <3>4. x.kind = r.kind /\ x.state = "failed"
      BY <3>1 DEF RunRecords
    <3>5. QED
      BY <1>5, <1>6, <3>2, <3>3, <3>4 DEF ClaimRun
  <2>2. CASE ~(r.attempt >= MaxAttempts)
    <3>1. PICK x : x = [r EXCEPT !.state = "running", !.attempt = r.attempt + 1,
                                 !.at = IF r.steps THEN "applied" ELSE "claimed"]
      OBVIOUS
    <3>2. runs' = [runs EXCEPT ![n] = x]
      <4>1. runs' = [runs EXCEPT ![n] =
                       IF r.attempt >= MaxAttempts THEN [r EXCEPT !.state = "failed", !.at = "none"]
                       ELSE [r EXCEPT !.state = "running", !.attempt = r.attempt + 1,
                                      !.at = IF r.steps THEN "applied" ELSE "claimed"]]
        BY <1>1, <1>6, Zenon DEF ClaimRun
      <4>2. QED
        BY <2>2, <3>1, <4>1, Zenon
    <3>3. r.attempt + 1 \in 0 .. MaxAttempts
      BY <1>2, <2>2 DEF RunRecords
    <3>4. x \in RunRecords
      <4>1. PICK m \in 0 .. MaxAttempts, p \in {"claimed", "applied"} :
              m = r.attempt + 1 /\ p = IF r.steps THEN "applied" ELSE "claimed"
        BY <3>3
      <4>2. x = [r EXCEPT !.state = "running", !.attempt = m, !.at = p]
        BY <3>1, <4>1, Zenon
      <4>3. QED
        BY <4>2 DEF RunRecords
    <3>5. x.kind = r.kind
      BY <3>1 DEF RunRecords
    <3>6. r.state \in {"queued", "running"}
      BY <1>1, <1>6 DEF ClaimRun
    <3>7. QED
      BY <1>5, <1>6, <3>2, <3>4, <3>5, <3>6 DEF ClaimRun
  <2>3. QED
    BY <2>1, <2>2
<1>7. CASE Die(n)
  <2>1. PICK s \in {"running", "queued"} : runs' = [runs EXCEPT ![n].at = "dead", ![n].state = s]
    BY <1>7 DEF Die
  <2>2. PICK x : x = [r EXCEPT !.at = "dead", !.state = s]
    OBVIOUS
  <2>3. runs' = [runs EXCEPT ![n] = x]
    BY <1>1, <1>2, <2>1, <2>2
  <2>4. x \in RunRecords
    BY <2>2 DEF RunRecords
  <2>5. x.kind = r.kind
    BY <2>2 DEF RunRecords
  <2>6. QED
    BY <1>1, <1>5, <1>7, <2>3, <2>4, <2>5 DEF Die
<1>8. CASE Replay(n) \/ StartAfterSteps(n)
  <2>1. PICK x : x = IF Replay(n) THEN [r EXCEPT !.at = "applied"] ELSE [r EXCEPT !.steps = TRUE]
    OBVIOUS
  <2>2. runs' = [runs EXCEPT ![n] = x]
    BY <1>1, <1>2, <1>8, <2>1 DEF Replay, StartAfterSteps
  <2>3. x \in RunRecords
    BY <2>1 DEF RunRecords
  <2>4. x.kind = r.kind /\ x.state = r.state
    BY <2>1 DEF RunRecords
  <2>5. QED
    BY <1>5, <1>8, <2>2, <2>3, <2>4 DEF Replay, StartAfterSteps
<1>9. CASE FinishRun(n) \/ FailRun(n) \/ CancelRun(n)
  <2>1. PICK s \in {"done", "failed", "cancelled"} : runs' = [runs EXCEPT ![n].state = s, ![n].at = "none"]
    BY <1>9 DEF FinishRun, FailRun, CancelRun
  <2>2. PICK x : x = [r EXCEPT !.state = s, !.at = "none"]
    OBVIOUS
  <2>3. runs' = [runs EXCEPT ![n] = x]
    BY <1>1, <1>2, <2>1, <2>2
  <2>4. x \in RunRecords
    BY <2>2 DEF RunRecords
  <2>5. x.kind = r.kind /\ x.state = s
    BY <2>2 DEF RunRecords
  <2>6. QED
    BY <1>5, <1>9, <2>3, <2>4, <2>5 DEF FinishRun, FailRun, CancelRun
<1>10. QED
  BY <1>4, <1>6, <1>7, <1>8, <1>9

\* An administrator's transaction begins, on a row that nobody holds.
LEMMA LockStep ==
  ASSUME MappingAssumption, LicenseeInv, NEW a \in Admins, LockLicensee(a)
  PROVE  LicenseeInv'
<1>1. PICK c \in Change : session' = [session EXCEPT ![a] = [pc |-> "locked", change |-> c]]
  BY DEF LockLicensee
<1>2. lock = Null /\ lock' = a /\ UNCHANGED <<operator, brand, runs>>
  BY DEF LockLicensee, WaitsForRow
<1>3. [pc |-> "locked", change |-> c] \in Transactions
  BY DEF Transactions
<1>4. LicenseeTypes'
  BY <1>1, <1>2, <1>3 DEF LicenseeInv, LicenseeTypes
<1>5. \A b \in Admins : b # a => session'[b] = session[b]
  BY <1>1 DEF LicenseeInv, LicenseeTypes
<1>6. SessionHoldsRow'
  BY <1>2, <1>5 DEF LicenseeInv, SessionHoldsRow, LicenseeTypes, MappingAssumption
<1>7. FoundNoRemap'
  BY <1>1, <1>2, <1>5 DEF LicenseeInv, FoundNoRemap, LicenseeTypes
<1>8. OneLiveRemap' /\ OperatorOrBrand'
  BY <1>2 DEF LicenseeInv, OneLiveRemap, OperatorOrBrand
<1>9. QED
  BY <1>4, <1>6, <1>7, <1>8 DEF LicenseeInv

\* A transaction ends: the row is free, and nobody else had it.
LEMMA EndStep ==
  ASSUME LicenseeInv, NEW a \in Admins, session[a] # Idle, End(a),
         operator' \in Operators \cup {Null}, brand' \in Brands \cup {Null},
         operator' = Null \/ brand' = Null,
         runs' \in Seq(RunRecords), OneLiveRemap'
  PROVE  LicenseeInv'
<1>1. lock = a /\ lock' = Null /\ session' = [session EXCEPT ![a] = Idle]
  BY DEF LicenseeInv, SessionHoldsRow, End
<1>2. LicenseeTypes'
  BY <1>1 DEF LicenseeInv, LicenseeTypes
<1>3. \A b \in Admins : session'[b] = Idle
  BY <1>1 DEF LicenseeInv, SessionHoldsRow, LicenseeTypes
<1>4. SessionHoldsRow'
  BY <1>3 DEF SessionHoldsRow, Idle
<1>5. FoundNoRemap'
  BY <1>3 DEF FoundNoRemap, Idle
<1>6. QED
  BY <1>2, <1>4, <1>5 DEF LicenseeInv, OperatorOrBrand

\* The steps of an administrator's transaction.
LEMMA SessionSteps ==
  ASSUME MappingAssumption, LicenseeInv, NEW a \in Admins,
         \/ RefuseBrand(a) \/ ChangeNothing(a) \/ LookForRemap(a)
         \/ QueueRemap(a) \/ MapToOperator(a) \/ SaveBrand(a)
  PROVE  LicenseeInv'
<1>1. session[a].pc \in {"locked", "checked"}
  BY DEF RefuseBrand, ChangeNothing, LookForRemap, QueueRemap,
         MapToOperator, SaveBrand
<1>2. session[a] \in Transactions /\ session[a] # Idle
  BY <1>1, SessionOf DEF LicenseeInv
<1>3. PICK c \in Change : c = session[a].change
  BY <1>2 DEF Transactions
<1>4. /\ c.operator \in Operators \cup {Null, Absent} /\ c.dry \in BOOLEAN
      /\ c.brand \in Brands \cup {Null, Absent}
  BY DEF Change
<1>5. /\ operator \in Operators \cup {Null} /\ brand \in Brands \cup {Null} /\ runs \in Seq(RunRecords)
  BY DEF LicenseeInv, LicenseeTypes
<1>6. operator = Null \/ brand = Null
  BY DEF LicenseeInv, OperatorOrBrand
<1>7. ASSUME UNCHANGED <<operator, brand, runs>>, End(a) PROVE LicenseeInv'
  BY <1>2, <1>5, <1>6, <1>7, EndStep DEF LicenseeInv, OneLiveRemap
<1>8. CASE RefuseBrand(a) \/ ChangeNothing(a)
  BY <1>7, <1>8 DEF RefuseBrand, ChangeNothing
<1>9. CASE LookForRemap(a)
  <2>1. CASE \E n \in DOMAIN runs : runs[n].kind = "remap" /\ Live(runs[n])
    BY <1>7, <1>9, <2>1 DEF LookForRemap
  <2>2. CASE ~ \E n \in DOMAIN runs : runs[n].kind = "remap" /\ Live(runs[n])
    <3>1. /\ session' = [session EXCEPT ![a].pc = "checked"] /\ UNCHANGED <<operator, brand, lock, runs>>
          /\ c.operator # Absent
      BY <1>3, <1>9, <2>2 DEF LookForRemap
    <3>2. PICK x \in Transactions : x = [session[a] EXCEPT !.pc = "checked"] /\ x.change = c
      <4>1. PICK y \in Transactions : y = session[a]
        BY <1>2
      <4>2. PICK x : x = [y EXCEPT !.pc = "checked"]
        OBVIOUS
      <4>3. x \in Transactions
        BY <4>2 DEF Transactions
      <4>4. x.change = y.change
        BY <4>2 DEF Transactions
      <4>5. QED
        BY <1>3, <4>1, <4>2, <4>3, <4>4
    <3>3. /\ session' \in [Admins -> {Idle} \cup Transactions] /\ session'[a] = x
          /\ \A b \in Admins : b # a => session'[b] = session[b]
      BY <3>1, <3>2 DEF LicenseeInv, LicenseeTypes
    <3>4. LicenseeTypes'
      BY <3>1, <3>3 DEF LicenseeInv, LicenseeTypes
    <3>5. SessionHoldsRow'
      BY <1>2, <3>1, <3>3 DEF LicenseeInv, SessionHoldsRow
    <3>6. FoundNoRemap'
      BY <2>2, <3>1, <3>2, <3>3 DEF LicenseeInv, FoundNoRemap, LiveRemap
    <3>7. OneLiveRemap' /\ OperatorOrBrand'
      BY <3>1 DEF LicenseeInv, OneLiveRemap, OperatorOrBrand
    <3>8. QED
      BY <3>4, <3>5, <3>6, <3>7 DEF LicenseeInv
  <2>3. QED
    BY <2>1, <2>2
<1>10. CASE QueueRemap(a)
  <2>1. /\ runs' = Append(runs, Run("remap", c.operator, c.dry)) /\ End(a)
        /\ UNCHANGED <<operator, brand>>
    BY <1>3, <1>10 DEF QueueRemap, row
  <2>2. c.operator # Absent /\ \A n \in DOMAIN runs : ~LiveRemap(runs[n])
    BY <1>3, <1>10 DEF QueueRemap, LicenseeInv, FoundNoRemap
  <2>3. Run("remap", c.operator, c.dry) \in RunRecords
    BY <1>4, <1>5, <2>2 DEF Run, RunRecords, MappingAssumption
  <2>4. runs' \in Seq(RunRecords)
    BY <1>5, <2>1, <2>3
  <2>5. \A n \in DOMAIN runs' : n # Len(runs) + 1 => ~LiveRemap(runs'[n])
    BY <1>5, <2>1, <2>2, <2>3
  <2>6. OneLiveRemap'
    BY <2>5 DEF OneLiveRemap, LiveRemap
  <2>7. QED
    BY <1>2, <1>5, <1>6, <2>1, <2>4, <2>6, EndStep
<1>11. CASE MapToOperator(a)
  <2>1. /\ operator' = c.operator /\ c.operator # Absent /\ brand' = Null /\ End(a)
        /\ runs' = runs \/ runs' = Append(runs, Run("replay", Null, FALSE))
    BY <1>3, <1>11 DEF MapToOperator, Named
  <2>2. PICK q \in RunRecords : q = Run("replay", Null, FALSE) /\ q.kind = "replay"
    <3>1. Run("replay", Null, FALSE) \in RunRecords
      BY <1>5 DEF Run, RunRecords, MappingAssumption
    <3>2. Run("replay", Null, FALSE).kind = "replay"
      BY DEF Run
    <3>3. QED
      BY <3>1, <3>2
  <2>3. runs' \in Seq(RunRecords)
    <3>1. \A x \in RunRecords : Append(runs, x) \in Seq(RunRecords)
      BY <1>5
    <3>2. QED
      BY <1>5, <2>1, <2>2, <3>1
  <2>4. \A n \in DOMAIN runs' : runs'[n].kind = "remap" => n \in DOMAIN runs /\ runs'[n] = runs[n]
    <3>1. CASE runs' = runs
      BY <3>1
    <3>2. CASE runs' = Append(runs, q)
      <4>1. /\ Len(runs) \in Nat /\ DOMAIN runs = 1 .. Len(runs) /\ DOMAIN runs' = 1 .. Len(runs) + 1
            /\ runs'[Len(runs) + 1] = q /\ \A k \in 1 .. Len(runs) : runs'[k] = runs[k]
        BY <1>5, <3>2
      <4>2. \A k \in DOMAIN runs' : k = Len(runs) + 1 \/ k \in DOMAIN runs
        BY <4>1
      <4>3. QED
        BY <2>2, <4>1, <4>2
    <3>3. QED
      BY <2>1, <2>2, <3>1, <3>2
  <2>5. OneLiveRemap'
    BY <2>4 DEF LicenseeInv, OneLiveRemap
  <2>6. QED
    BY <1>2, <1>4, <2>1, <2>3, <2>5, EndStep
<1>12. CASE SaveBrand(a)
  <2>1. /\ brand' = c.brand /\ c.brand # Absent /\ operator = Null /\ End(a)
        /\ UNCHANGED <<operator, runs>>
    BY <1>3, <1>12 DEF SaveBrand
  <2>2. QED
    BY <1>2, <1>4, <1>5, <2>1, EndStep DEF LicenseeInv, OneLiveRemap
<1>13. QED
  BY <1>8, <1>9, <1>10, <1>11, <1>12

\* At most one remap of a licensee is queued or running, however many
\* administrators ask and however often a run is attempted, and a licensee has
\* an operator or a brand, never both (changeLicensee, queueRemap, remapLicensee).
THEOREM LicenseeKeepsMapping ==
  ASSUME MappingAssumption
  PROVE  Spec => []LicenseeStaysMapped
<1>1. Init => LicenseeInv
  <2> SUFFICES ASSUME Init PROVE LicenseeInv
    OBVIOUS
  <2>1. LicenseeTypes
    BY DEF Init, LicenseeTypes
  <2>2. SessionHoldsRow /\ FoundNoRemap
    BY DEF Init, SessionHoldsRow, FoundNoRemap, Idle
  <2>3. OneLiveRemap /\ OperatorOrBrand
    BY DEF Init, OneLiveRemap, OperatorOrBrand
  <2>4. QED
    BY <2>1, <2>2, <2>3 DEF LicenseeInv
<1>2. LicenseeInv /\ [Next]_(vars) => LicenseeInv'
  <2> SUFFICES ASSUME LicenseeInv, [Next]_(vars) PROVE LicenseeInv'
    OBVIOUS
  <2>1. CASE UNCHANGED vars
    BY <2>1 DEF vars, LicenseeInv, LicenseeTypes, SessionHoldsRow, FoundNoRemap,
                OneLiveRemap, OperatorOrBrand
  <2>2. QED
    BY <2>1, LockStep, SessionSteps, RunSteps DEF Next
<1>3. LicenseeInv => LicenseeStaysMapped
  <2> SUFFICES ASSUME LicenseeInv PROVE TypeOK
    BY DEF LicenseeInv, LicenseeStaysMapped
  <2>1. \A a \in Admins : session[a] = Idle
                          \/ (session[a].pc \in {"locked", "checked"} /\ session[a].change \in Change)
    BY DEF LicenseeInv, LicenseeTypes, Transactions
  <2>2. \A n \in DOMAIN runs : runs[n] \in RunRecords
    BY DEF LicenseeInv, LicenseeTypes
  <2>3. QED
    BY <2>1, <2>2 DEF LicenseeInv, LicenseeTypes, TypeOK, RunRecords, RunStates
<1>4. QED
  BY <1>1, <1>2, <1>3, PTL DEF Spec

-----------------------------------------------------------------------------
(* The microwave links of a release.                                       *)

Releases == UNION {[1 .. n -> Microwave!Records] : n \in 0 .. MaxRecords}

\* A row, of those numbered below n and written on a date up to d.
LinkRows(n, d) ==
  [id : 1 .. n - 1, permit : PermitNumbers, hop : Hops, width : Widths, specs : Specs \cup {None},
   specsDate : {None} \cup 1 .. d, updatedAt : 1 .. d]

\* A link has the values of a record; the technical ones count if the file has
\* them.
AsIn(l, r, technical) ==
  Microwave!keyOf(l) = Microwave!keyOf(r) /\ l.width = r.width /\ (technical => l.specs = r.specs)

\* The rows are those of the release, each link once, and the technical columns
\* that are dated no earlier than the others are those of the described one.
MicrowaveInv ==
  /\ date \in 0 .. MaxReleases /\ nextId \in Nat \ {0}
  /\ microwave \subseteq LinkRows(nextId, date)
  /\ \A l, k \in microwave : l.id = k.id \/ Microwave!keyOf(l) = Microwave!keyOf(k) => l = k
  /\ published.records \in Releases
  /\ \A i \in DOMAIN published.records :
       \E l \in microwave : Microwave!keyOf(l) = Microwave!keyOf(published.records[i])
  /\ \A l \in microwave :
       /\ \E i \in Microwave!Kept(published.records) : AsIn(l, published.records[i], published.technical)
       /\ l.specsDate # None /\ l.specsDate >= l.updatedAt =>
            \E i \in Microwave!Kept(described) : AsIn(l, described[i], TRUE)

\* A set of numbers that is not empty has a least element, and a greatest one if
\* it has a bound.
LEMMA LeastOf ==
  ASSUME NEW S \in SUBSET Nat, S # {}
  PROVE  \E i \in S : \A j \in S : i <= j
<1> DEFINE R == OpToRel(<, Nat)
<1>1. IsWellFoundedOn(R, Nat)
  BY NatLessThanWellFounded
<1>2. \E i \in S : \A j \in S : ~(<<j, i>> \in R)
  BY <1>1, WFMin
<1>3. \A j, i \in S : j < i => <<j, i>> \in R
  BY DEF OpToRel
<1> HIDE DEF R
<1>4. \A j, i \in S : i <= j \/ j < i
  OBVIOUS
<1>5. \E i \in S : \A j \in S : i <= j
  BY <1>2, <1>3, <1>4
<1>6. QED
  BY <1>5

LEMMA GreatestOf ==
  ASSUME NEW n \in Nat, NEW S \in SUBSET (1 .. n), S # {}
  PROVE  \E i \in S : \A j \in S : j <= i
<1> DEFINE T == {n - i : i \in S}
<1>1. T \in SUBSET Nat
  OBVIOUS
<1>2. PICK e \in S : TRUE
  OBVIOUS
<1>3. n - e \in T
  BY <1>2
<1>4. \A j \in S : n - j \in T
  OBVIOUS
<1>5. \A t \in T : \E j \in S : t = n - j
  OBVIOUS
<1> HIDE DEF T
<1>6. PICK t \in T : \A u \in T : t <= u
  BY <1>1, <1>3, LeastOf
<1>7. PICK i \in S : t = n - i
  BY <1>5
<1>8. \A j \in S : j <= i
  BY <1>4, <1>6, <1>7
<1>9. QED
  BY <1>8

\* Every element of a finite set of numbers has its rank.
LEMMA Ranks ==
  ASSUME NEW S \in SUBSET Nat, IsFiniteSet(S)
  PROVE  /\ Cardinality(S) \in Nat
         /\ \A i \in S : Cardinality({j \in S : j < i}) \in 0 .. Cardinality(S) - 1
         /\ \A i, k \in S : Cardinality({j \in S : j < i}) = Cardinality({j \in S : j < k}) => i = k
<1> DEFINE below(i) == {j \in S : j < i}
<1>1. Cardinality(S) \in Nat
  BY FS_CardinalityType
<1>2. ASSUME NEW i \in S, NEW T \in SUBSET S, below(i) \in SUBSET T, T # below(i)
      PROVE  /\ IsFiniteSet(T) /\ IsFiniteSet(below(i)) /\ Cardinality(T) \in Nat
             /\ Cardinality(below(i)) \in Nat /\ Cardinality(below(i)) < Cardinality(T)
  <2> HIDE DEF below
  <2>1. IsFiniteSet(T) /\ Cardinality(T) \in Nat
    BY FS_Subset, FS_CardinalityType
  <2>2. IsFiniteSet(below(i)) /\ Cardinality(below(i)) <= Cardinality(T)
    BY <1>2, <2>1, FS_Subset
  <2>3. Cardinality(T) = Cardinality(below(i)) => T = below(i)
    BY <1>2, <2>1, FS_Subset
  <2>4. Cardinality(below(i)) \in Nat
    BY <2>2, FS_CardinalityType
  <2>5. QED
    BY <1>2, <2>1, <2>2, <2>3, <2>4
<1>3. ASSUME NEW i \in S
      PROVE  Cardinality(below(i)) \in 0 .. Cardinality(S) - 1
  <2>1. below(i) \in SUBSET S /\ i \in S \ below(i)
    OBVIOUS
  <2>2. Cardinality(below(i)) \in Nat /\ Cardinality(below(i)) < Cardinality(S)
    <3> HIDE DEF below
    <3>1. QED
      BY <1>2, <2>1
  <2>3. QED
    BY <1>1, <2>2
<1>4. ASSUME NEW i \in S, NEW k \in S, i < k
      PROVE  Cardinality(below(i)) # Cardinality(below(k))
  <2>1. below(i) \in SUBSET below(k) /\ below(k) \in SUBSET S
    <3>1. \A j \in S : j < i => j < k
      BY <1>4
    <3>2. QED
      BY <3>1
  <2>2. i \in below(k) /\ i \notin below(i)
    BY <1>4
  <2>3. below(k) # below(i)
    BY <2>2
  <2> HIDE DEF below
  <2>4. Cardinality(below(i)) \in Nat /\ Cardinality(below(k)) \in Nat /\ Cardinality(below(i)) < Cardinality(below(k))
    BY <1>2, <2>1, <2>3
  <2>5. QED
    BY <2>4
<1>5. \A i, k \in S : i < k \/ k < i \/ i = k
  OBVIOUS
<1>6. QED
  BY <1>1, <1>3, <1>4, <1>5

LEMMA SameNumber == \A S : Microwave!Cardinality(S) = Cardinality(S)
BY DEF Microwave!Cardinality, Cardinality, Microwave!IsFiniteSet, IsFiniteSet

LEMMA ReleaseIs ==
  ASSUME NEW records \in Releases
  PROVE  \E n \in 0 .. MaxRecords : records \in [1 .. n -> Microwave!Records] /\ DOMAIN records = 1 .. n
BY DEF Releases

\* Of every key that a release has one record is kept.
LEMMA KeptOfKey ==
  ASSUME MaxRecords \in Nat, NEW records \in Releases, NEW i \in DOMAIN records
  PROVE  \E k \in Microwave!Kept(records) : Microwave!keyOf(records[k]) = Microwave!keyOf(records[i])
<1> DEFINE S == {j \in DOMAIN records : Microwave!keyOf(records[j]) = Microwave!keyOf(records[i])}
<1>1. PICK n \in 0 .. MaxRecords : DOMAIN records = 1 .. n
  BY ReleaseIs
<1>2. n \in Nat /\ S \in SUBSET (1 .. n) /\ S # {}
  BY <1>1
<1>3. PICK k \in S : \A j \in S : j <= k
  <2> HIDE DEF S
  <2>1. QED
    BY <1>2, GreatestOf
<1>4. ASSUME NEW j \in DOMAIN records, j > k
      PROVE  Microwave!keyOf(records[j]) # Microwave!keyOf(records[k])
  BY <1>1, <1>3, <1>4
<1>5. k \in Microwave!Kept(records)
  BY <1>3, <1>4 DEF Microwave!Kept
<1>6. QED
  BY <1>3, <1>5

LEMMA KeptOnce ==
  ASSUME MaxRecords \in Nat, NEW records \in Releases
  PROVE  /\ Microwave!Kept(records) \subseteq DOMAIN records
         /\ \A i, k \in Microwave!Kept(records) :
              Microwave!keyOf(records[i]) = Microwave!keyOf(records[k]) => i = k
<1>1. PICK n \in 0 .. MaxRecords : DOMAIN records = 1 .. n
  BY ReleaseIs
<1>2. \A i, k \in DOMAIN records : i > k \/ k > i \/ i = k
  BY <1>1
<1>3. QED
  BY <1>2 DEF Microwave!Kept

-----------------------------------------------------------------------------
(* The rows that a release leaves.                                         *)

\* The number of a new row.
NumberOf(records, i) == nextId + Microwave!Cardinality({j \in Microwave!Inserts(records) : j < i})

\* The row of a record: that of its link, that of the link that it renews, or
\* a new one.
RowOf(records, technical, d, i, x) ==
  \/ /\ i \in Microwave!Kept(records)
     /\ \E l \in microwave :
          /\ Microwave!keyOf(l) = Microwave!keyOf(records[i])
          /\ x = IF Microwave!differs(l, records[i], technical)
                 THEN Microwave!updateLink(l, records[i], technical, d) ELSE l
  \/ \E l \in microwave :
       /\ <<i, l>> \in Microwave!matchRenewals(records)
       /\ x = Microwave!updateLink(l, records[i], technical, d)
  \/ /\ i \in Microwave!Inserts(records)
     /\ x = Microwave!insertLink(NumberOf(records, i), records[i], technical, d)

\* The same of the number of a row.
Numbered(records, i, n) ==
  \/ /\ i \in Microwave!Kept(records)
     /\ \E l \in microwave : l.id = n /\ Microwave!keyOf(l) = Microwave!keyOf(records[i])
  \/ \E l \in microwave : l.id = n /\ <<i, l>> \in Microwave!matchRenewals(records)
  \/ i \in Microwave!Inserts(records) /\ n = NumberOf(records, i)

\* What a renewal is: the record and the link are alone with their hop.
LEMMA RenewalIs ==
  ASSUME NEW records, NEW i, NEW l, <<i, l>> \in Microwave!matchRenewals(records)
  PROVE  /\ i \in Microwave!Unmatched(records) /\ l \in Microwave!Unlisted(records)
         /\ records[i].hop = l.hop /\ records[i].width = l.width
         /\ \A k \in Microwave!Unmatched(records) : records[k].hop = l.hop => k = i
         /\ \A m \in Microwave!Unlisted(records) : m.hop = l.hop => m = l
BY DEF Microwave!matchRenewals

LEMMA InsertsAre ==
  ASSUME NEW records, NEW i
  PROVE  i \in Microwave!Inserts(records) <=>
           i \in Microwave!Unmatched(records) /\ \A l : <<i, l>> \notin Microwave!matchRenewals(records)
<1>1. \A p \in Microwave!matchRenewals(records) : p = <<p[1], p[2]>>
  BY DEF Microwave!matchRenewals
<1>2. QED
  BY <1>1 DEF Microwave!Inserts

\* New rows have numbers of their own.
LEMMA NewNumbers ==
  ASSUME MaxRecords \in Nat, MicrowaveInv, NEW records \in Releases
  PROVE  /\ Microwave!Cardinality(Microwave!Inserts(records)) \in Nat
         /\ \A i \in Microwave!Inserts(records) :
              NumberOf(records, i) \in nextId .. nextId + Microwave!Cardinality(Microwave!Inserts(records)) - 1
         /\ \A i, k \in Microwave!Inserts(records) : NumberOf(records, i) = NumberOf(records, k) => i = k
<1> DEFINE S == Microwave!Inserts(records)
           rank(i) == Cardinality({j \in S : j < i})
<1>1. S \in SUBSET DOMAIN records
  BY DEF Microwave!Inserts, Microwave!Unmatched, Microwave!Kept
<1>2. PICK n \in 0 .. MaxRecords : DOMAIN records = 1 .. n
  BY ReleaseIs
<1>3. n \in Int /\ S \in SUBSET Nat /\ S \in SUBSET (1 .. n)
  BY <1>1, <1>2
<1>4. IsFiniteSet(1 .. n)
  BY <1>3, FS_Interval
<1>5. \A i : NumberOf(records, i) = nextId + rank(i)
  BY SameNumber DEF NumberOf
<1>6. Microwave!Cardinality(S) = Cardinality(S)
  BY SameNumber
<1> HIDE DEF S
<1>7. IsFiniteSet(S)
  BY <1>3, <1>4, FS_Subset
<1>8. /\ Cardinality(S) \in Nat
      /\ \A i \in S : rank(i) \in 0 .. Cardinality(S) - 1
      /\ \A i, k \in S : rank(i) = rank(k) => i = k
  BY <1>3, <1>7, Ranks
<1>9. nextId \in Nat
  BY DEF MicrowaveInv
<1> HIDE DEF rank
<1>10. /\ Cardinality(S) \in Nat
       /\ \A i \in S : NumberOf(records, i) \in nextId .. nextId + Cardinality(S) - 1
       /\ \A i, k \in S : NumberOf(records, i) = NumberOf(records, k) => i = k
  <2>1. ASSUME NEW i \in S
        PROVE  NumberOf(records, i) \in nextId .. nextId + Cardinality(S) - 1
    BY <1>5, <1>8, <1>9
  <2>2. ASSUME NEW i \in S, NEW k \in S, NumberOf(records, i) = NumberOf(records, k)
        PROVE  i = k
    <3>1. rank(i) \in Int /\ rank(k) \in Int
      BY <1>8
    <3>2. NumberOf(records, i) = nextId + rank(i) /\ NumberOf(records, k) = nextId + rank(k)
      BY <1>5
    <3>3. PICK a \in Int, b \in Int : a = rank(i) /\ b = rank(k)
      BY <3>1
    <3>4. nextId + a = nextId + b
      BY <2>2, <3>2, <3>3, Zenon
    <3>5. a = b
      BY <1>9, <3>4
    <3>6. QED
      BY <1>8, <3>3, <3>5
  <2>3. QED
    BY <1>8, <2>1, <2>2
<1>11. QED
  BY <1>6, <1>10 DEF S

\* The row of a record is its only one, and no two records have one number.
LEMMA OneNumber ==
  ASSUME MaxRecords \in Nat, MicrowaveInv, NEW records \in Releases,
         NEW i, NEW k, NEW n, Numbered(records, i, n), Numbered(records, k, n)
  PROVE  i = k
<1>1. \A l \in microwave : l.id < nextId /\ l.id \in Int
  BY DEF MicrowaveInv, LinkRows
<1>2. \A j \in Microwave!Inserts(records) : NumberOf(records, j) >= nextId
  <2>1. /\ nextId \in Nat /\ Microwave!Cardinality(Microwave!Inserts(records)) \in Nat
        /\ \A j \in Microwave!Inserts(records) :
             NumberOf(records, j) \in nextId .. nextId + Microwave!Cardinality(Microwave!Inserts(records)) - 1
    BY NewNumbers DEF MicrowaveInv
  <2>2. QED
    BY <2>1
<1>3. nextId \in Int
  BY DEF MicrowaveInv
<1>4. \A l, m \in microwave : l.id = m.id => l = m
  BY DEF MicrowaveInv
<1>5. CASE /\ i \in Microwave!Inserts(records) /\ n = NumberOf(records, i)
           /\ k \in Microwave!Inserts(records) /\ n = NumberOf(records, k)
  BY <1>5, NewNumbers
<1>6. CASE \E l \in microwave : l.id = n
  <2>1. PICK l \in microwave : l.id = n
    BY <1>6
  <2>2. ~(i \in Microwave!Inserts(records) /\ n = NumberOf(records, i))
    BY <1>1, <1>2, <1>3, <2>1
  <2>3. ~(k \in Microwave!Inserts(records) /\ n = NumberOf(records, k))
    BY <1>1, <1>2, <1>3, <2>1
  <2>4. \A j : Numbered(records, j, n) /\ ~(j \in Microwave!Inserts(records) /\ n = NumberOf(records, j)) =>
               \/ j \in Microwave!Kept(records) /\ Microwave!keyOf(l) = Microwave!keyOf(records[j])
               \/ <<j, l>> \in Microwave!matchRenewals(records)
    BY <1>4, <2>1 DEF Numbered
  <2>5. \A j \in Microwave!Kept(records) : Microwave!keyOf(l) = Microwave!keyOf(records[j]) => l \notin Microwave!Unlisted(records)
    BY KeptOnce DEF Microwave!Unlisted
  <2>6. \A j : <<j, l>> \in Microwave!matchRenewals(records) => l \in Microwave!Unlisted(records)
    BY RenewalIs
  <2>7. CASE <<i, l>> \in Microwave!matchRenewals(records) /\ <<k, l>> \in Microwave!matchRenewals(records)
    <3>1. k \in Microwave!Unmatched(records) /\ records[k].hop = l.hop
      BY <2>7, RenewalIs
    <3>2. QED
      BY <2>7, <3>1, RenewalIs
  <2>8. CASE /\ i \in Microwave!Kept(records) /\ Microwave!keyOf(l) = Microwave!keyOf(records[i])
             /\ k \in Microwave!Kept(records) /\ Microwave!keyOf(l) = Microwave!keyOf(records[k])
    BY <2>8, KeptOnce
  <2>9. QED
    BY <2>2, <2>3, <2>4, <2>5, <2>6, <2>7, <2>8
<1>7. QED
  BY <1>5, <1>6 DEF Numbered

LEMMA KeptRecord ==
  ASSUME MaxRecords \in Nat, NEW records \in Releases, NEW i \in Microwave!Kept(records)
  PROVE  records[i] \in Microwave!Records
<1>1. PICK n \in 0 .. MaxRecords : records \in [1 .. n -> Microwave!Records] /\ DOMAIN records = 1 .. n
  BY ReleaseIs
<1>2. i \in 1 .. n
  BY <1>1, KeptOnce
<1>3. QED
  BY <1>1, <1>2

LEMMA NumberedIsKept ==
  ASSUME NEW records, NEW i, NEW n, Numbered(records, i, n)
  PROVE  i \in Microwave!Kept(records)
BY RenewalIs, InsertsAre DEF Numbered, Microwave!Unmatched

LEMMA LinkRowsGrow ==
  ASSUME NEW n \in Nat, NEW m \in Nat, NEW d \in Nat
  PROVE  LinkRows(n, d) \subseteq LinkRows(n + m, d + 1)
<1>1. ASSUME NEW x \in LinkRows(n, d)
      PROVE  x \in LinkRows(n + m, d + 1)
  <2>1. x.id \in 1 .. n + m - 1 /\ x.updatedAt \in 1 .. d + 1
    BY DEF LinkRows
  <2>2. x.specsDate \in {None} \cup 1 .. d + 1
    BY DEF LinkRows
  <2>3. QED
    BY <2>1, <2>2 DEF LinkRows
<1>2. QED
  BY <1>1

\* What the row of a record is.
LEMMA RowIs ==
  ASSUME MaxRecords \in Nat, MicrowaveInv, NEW records \in Releases, NEW technical \in BOOLEAN, NEW i, NEW x,
         RowOf(records, technical, date + 1, i, x)
  PROVE  /\ x \in LinkRows(nextId + Microwave!Cardinality(Microwave!Inserts(records)), date + 1)
         /\ AsIn(x, records[i], technical)
         /\ Numbered(records, i, x.id)
         /\ x \in microwave \/ x.specsDate = None \/ (x.specsDate \in 1 .. date /\ x.updatedAt = date + 1)
<1> DEFINE c == Microwave!Cardinality(Microwave!Inserts(records))
           r == records[i]
<1>1. nextId \in Nat \ {0} /\ date \in Nat /\ c \in Nat
  <2>1. c \in Nat
    BY NewNumbers
  <2>2. QED
    BY <2>1 DEF MicrowaveInv
<1>2. microwave \subseteq LinkRows(nextId, date)
  BY DEF MicrowaveInv
<1>3. i \in Microwave!Kept(records)
  BY RenewalIs, InsertsAre DEF RowOf, Microwave!Unmatched
<1>4. r \in Microwave!Records
  BY <1>3, KeptRecord
<1>5. \A j \in Microwave!Inserts(records) : NumberOf(records, j) \in 1 .. nextId + c - 1
  BY <1>1, NewNumbers
<1> HIDE DEF c
<1>6. LinkRows(nextId, date) \subseteq LinkRows(nextId + c, date + 1)
  <2>1. PICK n \in Nat, m \in Nat, e \in Nat : n = nextId /\ m = c /\ e = date
    BY <1>1
  <2>2. LinkRows(n, e) \subseteq LinkRows(n + m, e + 1)
    BY LinkRowsGrow
  <2>3. QED
    BY <2>1, <2>2
<1>7. ASSUME NEW l \in microwave, l.hop = r.hop
      PROVE  LET u == Microwave!updateLink(l, r, technical, date + 1)
             IN /\ u \in LinkRows(nextId + c, date + 1) /\ AsIn(u, r, technical) /\ u.id = l.id
                /\ u.specsDate = None \/ (u.specsDate \in 1 .. date /\ u.updatedAt = date + 1)
  <2>1. l \in LinkRows(nextId, date) /\ l \in LinkRows(nextId + c, date + 1) /\ date + 1 \in 1 .. date + 1
    BY <1>1, <1>2, <1>6
  <2>2. QED
    BY <1>4, <1>7, <2>1 DEF LinkRows, Microwave!updateLink, AsIn, Microwave!keyOf, Microwave!Records
<1>8. CASE \E l \in microwave :
             /\ Microwave!keyOf(l) = Microwave!keyOf(r)
             /\ x = IF Microwave!differs(l, r, technical) THEN Microwave!updateLink(l, r, technical, date + 1) ELSE l
  <2>1. PICK l \in microwave :
             /\ Microwave!keyOf(l) = Microwave!keyOf(r)
             /\ x = IF Microwave!differs(l, r, technical) THEN Microwave!updateLink(l, r, technical, date + 1) ELSE l
    BY <1>8
  <2>2. l.hop = r.hop
    BY <2>1 DEF Microwave!keyOf
  <2>3. CASE Microwave!differs(l, r, technical)
    <3>1. x = Microwave!updateLink(l, r, technical, date + 1) /\ l.id = x.id
      BY <1>7, <2>1, <2>2, <2>3
    <3>2. QED
      BY <1>3, <1>7, <2>1, <2>2, <3>1 DEF Numbered, c
  <2>4. CASE ~Microwave!differs(l, r, technical)
    <3>1. x = l /\ l.width = r.width /\ (technical => l.specs = r.specs)
      BY <2>1, <2>4 DEF Microwave!differs
    <3>2. l \in LinkRows(nextId + c, date + 1)
      BY <1>2, <1>6
    <3>3. QED
      BY <1>3, <2>1, <3>1, <3>2 DEF Numbered, AsIn, c
  <2>5. QED
    BY <2>3, <2>4
<1>9. CASE \E l \in microwave :
             <<i, l>> \in Microwave!matchRenewals(records) /\ x = Microwave!updateLink(l, r, technical, date + 1)
  <2>1. PICK l \in microwave :
             <<i, l>> \in Microwave!matchRenewals(records) /\ x = Microwave!updateLink(l, r, technical, date + 1)
    BY <1>9
  <2>2. l.hop = r.hop
    BY <2>1, RenewalIs
  <2>3. l.id = x.id
    BY <1>7, <2>1, <2>2
  <2>4. QED
    BY <1>7, <2>1, <2>2, <2>3 DEF Numbered, c
<1>10. CASE /\ i \in Microwave!Inserts(records)
            /\ x = Microwave!insertLink(NumberOf(records, i), r, technical, date + 1)
  <2>1. NumberOf(records, i) \in 1 .. nextId + c - 1 /\ date + 1 \in 1 .. date + 1
    BY <1>1, <1>5, <1>10
  <2>2. x \in LinkRows(nextId + c, date + 1)
    <3>1. PICK k \in Int, n \in Nat, e \in Nat : k = NumberOf(records, i) /\ n = nextId + c /\ e = date + 1
      BY <1>1, <2>1
    <3>2. k \in 1 .. n - 1 /\ e \in 1 .. e
      BY <1>1, <2>1, <3>1
    <3>3. Microwave!insertLink(k, r, technical, e) \in LinkRows(n, e)
      <4>1. PICK ids, dates, s : ids = 1 .. n - 1 /\ dates = 1 .. e /\ s = IF technical THEN r.specs ELSE None
        OBVIOUS
      <4>2. s \in Specs \cup {None}
        BY <1>4, <4>1 DEF Microwave!Records
      <4>3. k \in ids /\ e \in dates
        BY <3>2, <4>1
      <4>4. [id |-> k, permit |-> r.permit, hop |-> r.hop, width |-> r.width, specs |-> s,
             specsDate |-> None, updatedAt |-> e]
              \in [id : ids, permit : PermitNumbers, hop : Hops, width : Widths, specs : Specs \cup {None},
                   specsDate : {None} \cup dates, updatedAt : dates]
        BY <1>4, <4>2, <4>3 DEF Microwave!Records
      <4>5. QED
        BY <4>1, <4>4 DEF LinkRows, Microwave!insertLink
    <3>4. QED
      BY <1>10, <3>1, <3>3
  <2>3. AsIn(x, r, technical) /\ x.id = NumberOf(records, i) /\ x.specsDate = None
    BY <1>10 DEF AsIn, Microwave!insertLink, Microwave!keyOf
  <2>4. QED
    BY <1>10, <2>2, <2>3 DEF Numbered, c
<1>11. QED
  BY <1>8, <1>9, <1>10 DEF RowOf

\* A record has a row with its number.
LEMMA RowOfNumber ==
  ASSUME MaxRecords \in Nat, MicrowaveInv, NEW records \in Releases, NEW technical \in BOOLEAN, NEW i, NEW n,
         Numbered(records, i, n)
  PROVE  \E x : RowOf(records, technical, date + 1, i, x) /\ x.id = n
<1>1. ASSUME NEW l \in microwave
      PROVE  Microwave!updateLink(l, records[i], technical, date + 1).id = l.id
  <2>1. l \in LinkRows(nextId, date)
    BY DEF MicrowaveInv
  <2>2. QED
    BY <2>1 DEF LinkRows, Microwave!updateLink
<1>2. CASE /\ i \in Microwave!Kept(records)
           /\ \E l \in microwave : l.id = n /\ Microwave!keyOf(l) = Microwave!keyOf(records[i])
  <2>1. PICK l \in microwave : l.id = n /\ Microwave!keyOf(l) = Microwave!keyOf(records[i])
    BY <1>2
  <2>2. PICK x : x = IF Microwave!differs(l, records[i], technical)
                     THEN Microwave!updateLink(l, records[i], technical, date + 1) ELSE l
    OBVIOUS
  <2>3. x.id = n
    BY <1>1, <2>1, <2>2
  <2>4. QED
    BY <1>2, <2>1, <2>2, <2>3 DEF RowOf
<1>3. CASE \E l \in microwave : l.id = n /\ <<i, l>> \in Microwave!matchRenewals(records)
  BY <1>1, <1>3 DEF RowOf
<1>4. CASE i \in Microwave!Inserts(records) /\ n = NumberOf(records, i)
  <2>1. Microwave!insertLink(NumberOf(records, i), records[i], technical, date + 1).id = n
    BY <1>4 DEF Microwave!insertLink
  <2>2. QED
    BY <1>4, <2>1 DEF RowOf
<1>5. QED
  BY <1>2, <1>3, <1>4 DEF Numbered

\* A record that is kept has a number.
LEMMA EveryRecord ==
  ASSUME MicrowaveInv, NEW records, NEW i \in Microwave!Kept(records)
  PROVE  \E n : Numbered(records, i, n)
<1>1. CASE \E l \in microwave : Microwave!keyOf(l) = Microwave!keyOf(records[i])
  BY <1>1 DEF Numbered
<1>2. CASE \A l \in microwave : Microwave!keyOf(l) # Microwave!keyOf(records[i])
  <2>1. i \in Microwave!Unmatched(records)
    BY <1>2 DEF Microwave!Unmatched
  <2>2. CASE \E l : <<i, l>> \in Microwave!matchRenewals(records)
    <3>1. PICK l : <<i, l>> \in Microwave!matchRenewals(records)
      BY <2>2
    <3>2. l \in microwave
      BY <3>1, RenewalIs DEF Microwave!Unlisted
    <3>3. QED
      BY <3>1, <3>2 DEF Numbered
  <2>3. CASE \A l : <<i, l>> \notin Microwave!matchRenewals(records)
    BY <2>1, <2>3, InsertsAre DEF Numbered
  <2>4. QED
    BY <2>2, <2>3
<1>3. QED
  BY <1>1, <1>2

\* A record has one number.
LEMMA OneOfRecord ==
  ASSUME MaxRecords \in Nat, MicrowaveInv, NEW records \in Releases, NEW i, NEW n, NEW m,
         Numbered(records, i, n), Numbered(records, i, m)
  PROVE  n = m
<1>1. \A l, k \in microwave : Microwave!keyOf(l) = Microwave!keyOf(k) => l = k
  BY DEF MicrowaveInv
<1>2. \A l \in microwave : Microwave!keyOf(l) = Microwave!keyOf(records[i]) => i \notin Microwave!Unmatched(records)
  BY DEF Microwave!Unmatched
<1>3. \A l : <<i, l>> \in Microwave!matchRenewals(records) =>
        /\ i \in Microwave!Unmatched(records) /\ l \in Microwave!Unlisted(records) /\ l.hop = records[i].hop
        /\ \A k \in Microwave!Unlisted(records) : k.hop = l.hop => k = l
  BY RenewalIs
<1>4. i \in Microwave!Inserts(records) =>
        i \in Microwave!Unmatched(records) /\ \A l : <<i, l>> \notin Microwave!matchRenewals(records)
  BY InsertsAre
<1>5. CASE \E l \in microwave : Microwave!keyOf(l) = Microwave!keyOf(records[i])
  <2>1. PICK l \in microwave : Microwave!keyOf(l) = Microwave!keyOf(records[i])
    BY <1>5
  <2>2. i \notin Microwave!Unmatched(records)
    BY <1>2, <2>1
  <2>3. ASSUME NEW j, Numbered(records, i, j)
        PROVE  j = l.id
    <3>1. PICK k \in microwave : k.id = j /\ Microwave!keyOf(k) = Microwave!keyOf(records[i])
      BY <1>3, <1>4, <2>2, <2>3 DEF Numbered
    <3>2. QED
      BY <1>1, <2>1, <3>1
  <2>4. QED
    BY <2>3
<1>6. CASE ~\E l \in microwave : Microwave!keyOf(l) = Microwave!keyOf(records[i])
  <2>1. CASE \E l : <<i, l>> \in Microwave!matchRenewals(records)
    <3>1. PICK l : <<i, l>> \in Microwave!matchRenewals(records)
      BY <2>1
    <3>2. ASSUME NEW j, Numbered(records, i, j)
          PROVE  j = l.id
      <4>1. PICK k : k.id = j /\ <<i, k>> \in Microwave!matchRenewals(records)
        BY <1>4, <1>6, <3>1, <3>2 DEF Numbered
      <4>2. k = l
        BY <1>3, <3>1, <4>1
      <4>3. QED
        BY <4>1, <4>2
    <3>3. QED
      BY <3>2
  <2>2. CASE \A l : <<i, l>> \notin Microwave!matchRenewals(records)
    BY <1>6, <2>2 DEF Numbered
  <2>3. QED
    BY <2>1, <2>2
<1>7. QED
  BY <1>5, <1>6

\* Rows with one number are one row.
LEMMA OneRow ==
  ASSUME MaxRecords \in Nat, MicrowaveInv, NEW records \in Releases, NEW technical \in BOOLEAN,
         NEW i, NEW k, NEW x, NEW y, x.id = y.id,
         RowOf(records, technical, date + 1, i, x), RowOf(records, technical, date + 1, k, y)
  PROVE  i = k /\ x = y
<1>1. Numbered(records, i, x.id) /\ Numbered(records, k, y.id)
  BY RowIs
<1>2. i = k
  BY <1>1, OneNumber
<1>3. \A l, m \in microwave : Microwave!keyOf(l) = Microwave!keyOf(m) => l = m
  BY DEF MicrowaveInv
<1>4. i \in Microwave!Kept(records)
  BY <1>1, NumberedIsKept
<1>5. \A l \in microwave :
        Microwave!keyOf(l) = Microwave!keyOf(records[i]) =>
          /\ i \notin Microwave!Unmatched(records)
  BY DEF Microwave!Unmatched
<1>6. \A l, m : <<i, l>> \in Microwave!matchRenewals(records) /\ <<i, m>> \in Microwave!matchRenewals(records) => l = m
  <2>1. ASSUME NEW l, NEW m, <<i, l>> \in Microwave!matchRenewals(records), <<i, m>> \in Microwave!matchRenewals(records)
        PROVE  l = m
    <3>1. m \in Microwave!Unlisted(records) /\ m.hop = l.hop
      BY <2>1, RenewalIs
    <3>2. QED
      BY <2>1, <3>1, RenewalIs
  <2>2. QED
    BY <2>1
<1>7. \A l : <<i, l>> \in Microwave!matchRenewals(records) => i \in Microwave!Unmatched(records)
  BY RenewalIs
<1>8. i \in Microwave!Inserts(records) =>
        i \in Microwave!Unmatched(records) /\ \A l : <<i, l>> \notin Microwave!matchRenewals(records)
  BY InsertsAre
<1>9. x = y
  <2>1. CASE \E l \in microwave : Microwave!keyOf(l) = Microwave!keyOf(records[i])
    <3>1. PICK l \in microwave : Microwave!keyOf(l) = Microwave!keyOf(records[i])
      BY <2>1
    <3>2. ASSUME NEW z, RowOf(records, technical, date + 1, i, z)
          PROVE  z = IF Microwave!differs(l, records[i], technical)
                     THEN Microwave!updateLink(l, records[i], technical, date + 1) ELSE l
      BY <1>3, <1>5, <1>7, <1>8, <3>1, <3>2 DEF RowOf
    <3>3. QED
      BY <1>2, <3>2
  <2>2. CASE \E l : <<i, l>> \in Microwave!matchRenewals(records)
    <3>1. PICK l : <<i, l>> \in Microwave!matchRenewals(records)
      BY <2>2
    <3>2. ASSUME NEW z, RowOf(records, technical, date + 1, i, z)
          PROVE  z = Microwave!updateLink(l, records[i], technical, date + 1)
      BY <1>5, <1>6, <1>7, <1>8, <3>1, <3>2 DEF RowOf
    <3>3. QED
      BY <1>2, <3>2
  <2>3. CASE i \in Microwave!Inserts(records)
    <3>1. ASSUME NEW z, RowOf(records, technical, date + 1, i, z)
          PROVE  z = Microwave!insertLink(NumberOf(records, i), records[i], technical, date + 1)
      BY <1>5, <1>8, <2>3, <3>1 DEF RowOf
    <3>2. QED
      BY <1>2, <3>1
  <2>4. QED
    BY <2>1, <2>2, <2>3 DEF RowOf
<1>10. QED
  BY <1>2, <1>9

\* The rows that applyLinks puts together, and those of links that are not
\* archived.
RowsOf(records, technical, d) ==
  Microwave!Listed(records, technical, d)
    \cup {Microwave!updateLink(p[2], records[p[1]], technical, d) : p \in Microwave!matchRenewals(records)}
    \cup {Microwave!insertLink(NumberOf(records, i), records[i], technical, d) : i \in Microwave!Inserts(records)}

LeftOf(records, technical, d) ==
  {l \in RowsOf(records, technical, d) : l.id \notin {k.id : k \in Microwave!archivedIds(records)}}

Dated(l, technical, d) == IF technical THEN [l EXCEPT !.specsDate = d] ELSE l

LEMMA RowsAre ==
  ASSUME NEW records, NEW technical, NEW d, NEW x
  PROVE  x \in RowsOf(records, technical, d) <=> \E i : RowOf(records, technical, d, i, x)
<1>1. x \in Microwave!Listed(records, technical, d) <=>
        \E i \in Microwave!Kept(records), l \in microwave :
          /\ Microwave!keyOf(l) = Microwave!keyOf(records[i])
          /\ x = IF Microwave!differs(l, records[i], technical)
                 THEN Microwave!updateLink(l, records[i], technical, d) ELSE l
  <2>1. ASSUME NEW i \in Microwave!Kept(records), NEW l \in microwave,
               Microwave!keyOf(l) = Microwave!keyOf(records[i]),
               x = IF Microwave!differs(l, records[i], technical)
                   THEN Microwave!updateLink(l, records[i], technical, d) ELSE l
        PROVE  x \in Microwave!Listed(records, technical, d)
    <3> DEFINE p == <<l, i>>
    <3>1. p \in microwave \X Microwave!Kept(records) /\ p[1] = l /\ p[2] = i
      OBVIOUS
    <3> HIDE DEF p
    <3>2. QED
      BY <2>1, <3>1 DEF Microwave!Listed
  <2>2. ASSUME x \in Microwave!Listed(records, technical, d)
        PROVE  \E i \in Microwave!Kept(records), l \in microwave :
                 /\ Microwave!keyOf(l) = Microwave!keyOf(records[i])
                 /\ x = IF Microwave!differs(l, records[i], technical)
                        THEN Microwave!updateLink(l, records[i], technical, d) ELSE l
    <3>1. PICK p \in microwave \X Microwave!Kept(records) :
             /\ Microwave!keyOf(p[1]) = Microwave!keyOf(records[p[2]])
             /\ x = IF Microwave!differs(p[1], records[p[2]], technical)
                    THEN Microwave!updateLink(p[1], records[p[2]], technical, d) ELSE p[1]
      BY <2>2 DEF Microwave!Listed
    <3>2. p[1] \in microwave /\ p[2] \in Microwave!Kept(records)
      BY <3>1
    <3>3. QED
      BY <3>1, <3>2
  <2>3. QED
    BY <2>1, <2>2
<1>2. x \in {Microwave!updateLink(p[2], records[p[1]], technical, d) : p \in Microwave!matchRenewals(records)} <=>
        \E i, l : <<i, l>> \in Microwave!matchRenewals(records) /\ x = Microwave!updateLink(l, records[i], technical, d)
  <2>1. \A p \in Microwave!matchRenewals(records) : p = <<p[1], p[2]>>
    BY DEF Microwave!matchRenewals
  <2>2. ASSUME NEW p \in Microwave!matchRenewals(records), x = Microwave!updateLink(p[2], records[p[1]], technical, d)
        PROVE  \E i, l : <<i, l>> \in Microwave!matchRenewals(records)
                           /\ x = Microwave!updateLink(l, records[i], technical, d)
    BY <2>1, <2>2, Zenon
  <2>3. ASSUME NEW i, NEW l, <<i, l>> \in Microwave!matchRenewals(records),
               x = Microwave!updateLink(l, records[i], technical, d)
        PROVE  \E p \in Microwave!matchRenewals(records) : x = Microwave!updateLink(p[2], records[p[1]], technical, d)
    <3>1. <<i, l>>[1] = i /\ <<i, l>>[2] = l
      OBVIOUS
    <3>2. QED
      BY <2>3, <3>1, Zenon
  <2>4. QED
    BY <2>2, <2>3
<1>3. \A i, l : <<i, l>> \in Microwave!matchRenewals(records) => l \in microwave
  BY RenewalIs DEF Microwave!Unlisted
<1>4. QED
  BY <1>1, <1>2, <1>3 DEF RowsOf, RowOf

\* A link that goes is listed nowhere and renewed by nothing.
LEMMA GoneIs ==
  ASSUME NEW records, NEW l
  PROVE  l \in Microwave!archivedIds(records) <=>
           l \in Microwave!Unlisted(records) /\ \A i : <<i, l>> \notin Microwave!matchRenewals(records)
<1>1. \A p \in Microwave!matchRenewals(records) : p = <<p[1], p[2]>>
  BY DEF Microwave!matchRenewals
<1>2. \A i : <<i, l>>[2] = l
  OBVIOUS
<1>3. QED
  BY <1>1, <1>2 DEF Microwave!archivedIds

\* A link has its number in the release, or it goes.
LEMMA StaysOrGoes ==
  ASSUME MaxRecords \in Nat, MicrowaveInv, NEW records \in Releases, NEW l \in microwave
  PROVE  l \in Microwave!archivedIds(records) <=> \A i : ~Numbered(records, i, l.id)
<1>1. ASSUME l \in Microwave!archivedIds(records), NEW i, Numbered(records, i, l.id)
      PROVE  FALSE
  <2>1. \A m \in microwave : m.id = l.id => m = l
    BY DEF MicrowaveInv
  <2>2. i \in Microwave!Inserts(records) => NumberOf(records, i) # l.id
    <3>1. l.id \in 1 .. nextId - 1 /\ nextId \in Nat
      BY DEF MicrowaveInv, LinkRows
    <3>2. /\ Microwave!Cardinality(Microwave!Inserts(records)) \in Nat
          /\ i \in Microwave!Inserts(records) =>
               NumberOf(records, i) \in nextId .. nextId + Microwave!Cardinality(Microwave!Inserts(records)) - 1
      BY NewNumbers
    <3>3. QED
      BY <3>1, <3>2
  <2>3. \/ i \in Microwave!Kept(records) /\ Microwave!keyOf(l) = Microwave!keyOf(records[i])
        \/ <<i, l>> \in Microwave!matchRenewals(records)
    BY <1>1, <2>1, <2>2 DEF Numbered
  <2>4. l \in Microwave!Unlisted(records) /\ <<i, l>> \notin Microwave!matchRenewals(records)
    BY <1>1, GoneIs
  <2>5. QED
    BY <2>3, <2>4, KeptOnce DEF Microwave!Unlisted
<1>2. ASSUME l \notin Microwave!archivedIds(records)
      PROVE  \E i : Numbered(records, i, l.id)
  <2>1. CASE l \in Microwave!Unlisted(records)
    <3>1. PICK i : <<i, l>> \in Microwave!matchRenewals(records)
      BY <1>2, <2>1, GoneIs
    <3>2. QED
      BY <3>1 DEF Numbered
  <2>2. CASE l \notin Microwave!Unlisted(records)
    <3>1. PICK j \in DOMAIN records : Microwave!keyOf(records[j]) = Microwave!keyOf(l)
      BY <2>2 DEF Microwave!Unlisted
    <3>2. PICK i \in Microwave!Kept(records) : Microwave!keyOf(records[i]) = Microwave!keyOf(records[j])
      BY KeptOfKey
    <3>3. QED
      BY <3>1, <3>2 DEF Numbered
  <2>3. QED
    BY <2>1, <2>2
<1>3. QED
  BY <1>1, <1>2

\* What applyLinks leaves: the rows of the records, dated.
LEMMA ApplyIs ==
  ASSUME MaxRecords \in Nat, MicrowaveInv, NEW records \in Releases, NEW technical \in BOOLEAN,
         Microwave!applyLinks(records, technical, date + 1)
  PROVE  /\ \A k \in microwave' : \E i, x : RowOf(records, technical, date + 1, i, x) /\ k = Dated(x, technical, date + 1)
         /\ \A i, x : RowOf(records, technical, date + 1, i, x) => Dated(x, technical, date + 1) \in microwave'
         /\ nextId' = nextId + Microwave!Cardinality(Microwave!Inserts(records))
         /\ linkChanges' = [added |-> {NumberOf(records, i) : i \in Microwave!Inserts(records)},
                            renewed |-> {p[2].id : p \in Microwave!matchRenewals(records)},
                            archived |-> {l.id : l \in Microwave!archivedIds(records)}]
<1> DEFINE d == date + 1
           left == LeftOf(records, technical, d)
<1>1. /\ microwave' = IF technical THEN {[l EXCEPT !.specsDate = d] : l \in left} ELSE left
      /\ nextId' = nextId + Microwave!Cardinality(Microwave!Inserts(records))
      /\ linkChanges' = [added |-> {NumberOf(records, i) : i \in Microwave!Inserts(records)},
                         renewed |-> {p[2].id : p \in Microwave!matchRenewals(records)},
                         archived |-> {l.id : l \in Microwave!archivedIds(records)}]
  BY DEF Microwave!applyLinks, LeftOf, RowsOf, NumberOf
<1>2. ASSUME NEW i, NEW x, RowOf(records, technical, d, i, x)
      PROVE  x \in left
  <2>1. Numbered(records, i, x.id)
    BY <1>2, RowIs
  <2>2. ASSUME NEW l \in Microwave!archivedIds(records), x.id = l.id
        PROVE  FALSE
    <3>1. l \in microwave
      BY <2>2, GoneIs DEF Microwave!Unlisted
    <3>2. QED
      BY <2>1, <2>2, <3>1, StaysOrGoes
  <2>3. x \in RowsOf(records, technical, d)
    BY <1>2, RowsAre
  <2>4. QED
    BY <2>2, <2>3 DEF LeftOf
<1>3. \A x \in left : \E i : RowOf(records, technical, d, i, x)
  BY RowsAre DEF LeftOf
<1> HIDE DEF left, d
<1>4. \A k \in microwave' : \E x \in left : k = Dated(x, technical, d)
  BY <1>1 DEF Dated
<1>5. \A x \in left : Dated(x, technical, d) \in microwave'
  BY <1>1 DEF Dated
<1>6. /\ \A k \in microwave' : \E i, x : RowOf(records, technical, d, i, x) /\ k = Dated(x, technical, d)
      /\ \A i, x : RowOf(records, technical, d, i, x) => Dated(x, technical, d) \in microwave'
  BY <1>2, <1>3, <1>4, <1>5
<1>7. QED
  BY <1>1, <1>6 DEF d

\* A row of a release, dated.
LEMMA DatedIs ==
  ASSUME MaxRecords \in Nat, MicrowaveInv, NEW records \in Releases, NEW technical \in BOOLEAN, NEW i, NEW x,
         RowOf(records, technical, date + 1, i, x)
  PROVE  LET k == Dated(x, technical, date + 1)
         IN /\ k \in LinkRows(nextId + Microwave!Cardinality(Microwave!Inserts(records)), date + 1)
            /\ k.id = x.id /\ AsIn(k, records[i], technical) /\ k.hop = x.hop /\ k.permit = x.permit /\ k.width = x.width
            /\ k.specsDate # None /\ k.specsDate >= k.updatedAt => technical \/ k \in microwave
<1>1. PICK n : n = nextId + Microwave!Cardinality(Microwave!Inserts(records))
  OBVIOUS
<1>2. /\ x \in LinkRows(n, date + 1) /\ AsIn(x, records[i], technical)
      /\ x \in microwave \/ x.specsDate = None \/ (x.specsDate \in 1 .. date /\ x.updatedAt = date + 1)
  BY <1>1, RowIs
<1>3. date \in Nat
  BY DEF MicrowaveInv
<1>4. CASE technical
  <2>1. PICK d \in 1 .. date + 1 : d = date + 1
    BY <1>3
  <2>2. [x EXCEPT !.specsDate = d] \in LinkRows(n, date + 1)
    BY <1>2, <2>1 DEF LinkRows
  <2>3. PICK k : k = [x EXCEPT !.specsDate = d]
    OBVIOUS
  <2>4. k.id = x.id /\ k.hop = x.hop /\ k.permit = x.permit /\ k.width = x.width /\ k.specs = x.specs
    BY <1>2, <2>3 DEF LinkRows
  <2>5. AsIn(k, records[i], technical)
    BY <1>2, <2>4 DEF AsIn, Microwave!keyOf
  <2>6. QED
    BY <1>1, <1>4, <2>1, <2>2, <2>3, <2>4, <2>5 DEF Dated
<1>5. CASE ~technical
  <2>1. Dated(x, technical, date + 1) = x
    BY <1>5 DEF Dated
  <2>2. x.specsDate # None /\ x.specsDate >= x.updatedAt => x \in microwave
    BY <1>2, <1>3
  <2>3. QED
    BY <1>1, <1>2, <2>1, <2>2
<1>6. QED
  BY <1>4, <1>5

\* The invariant after a release that is applied.
LEMMA AppliedKeeps ==
  ASSUME MaxRecords \in Nat, MaxReleases \in Nat, MicrowaveInv, NEW records \in Releases, NEW hasSpecs \in BOOLEAN,
         date < MaxReleases, date' = date + 1,
         Microwave!applyLinks(records, hasSpecs \/ records = <<>>, date + 1),
         published' = [records |-> records, technical |-> hasSpecs],
         described' = IF hasSpecs THEN records ELSE described
  PROVE  MicrowaveInv'
<1>1. PICK technical \in BOOLEAN : technical = (hasSpecs \/ records = <<>>)
  BY Zenon
<1>2. Microwave!applyLinks(records, technical, date + 1)
  BY <1>1
<1> DEFINE n == nextId + Microwave!Cardinality(Microwave!Inserts(records))
<1>3. /\ \A k \in microwave' : \E i, x : RowOf(records, technical, date + 1, i, x) /\ k = Dated(x, technical, date + 1)
      /\ \A i, x : RowOf(records, technical, date + 1, i, x) => Dated(x, technical, date + 1) \in microwave'
      /\ nextId' = n
  BY <1>2, ApplyIs
<1>4. Microwave!Cardinality(Microwave!Inserts(records)) \in Nat
  BY NewNumbers
<1>5. nextId' \in Nat \ {0} /\ date' \in 0 .. MaxReleases
  BY <1>3, <1>4 DEF MicrowaveInv
<1>6. published'.records = records /\ published'.technical = hasSpecs
  OBVIOUS
<1>7. ASSUME NEW k \in microwave'
      PROVE  \E i \in Microwave!Kept(records) :
               /\ k \in LinkRows(nextId', date') /\ AsIn(k, records[i], technical)
               /\ k.specsDate # None /\ k.specsDate >= k.updatedAt => technical \/ k \in microwave
               /\ \E x : RowOf(records, technical, date + 1, i, x) /\ k = Dated(x, technical, date + 1) /\ k.id = x.id
  <2>1. PICK i, x : RowOf(records, technical, date + 1, i, x) /\ k = Dated(x, technical, date + 1)
    BY <1>3
  <2>2. i \in Microwave!Kept(records)
    BY <2>1, RowIs, NumberedIsKept
  <2>3. QED
    BY <1>3, <2>1, <2>2, DatedIs
<1>8. microwave' \subseteq LinkRows(nextId', date')
  BY <1>7
<1>9. ASSUME NEW k \in microwave', NEW l \in microwave', k.id = l.id \/ Microwave!keyOf(k) = Microwave!keyOf(l)
      PROVE  k = l
  <2>1. PICK i, x :
               /\ i \in Microwave!Kept(records)
               /\ AsIn(k, records[i], technical) /\ k.id = x.id
               /\ RowOf(records, technical, date + 1, i, x) /\ k = Dated(x, technical, date + 1)
    BY <1>7
  <2>2. PICK j, y :
               /\ j \in Microwave!Kept(records)
               /\ AsIn(l, records[j], technical) /\ l.id = y.id
               /\ RowOf(records, technical, date + 1, j, y) /\ l = Dated(y, technical, date + 1)
    BY <1>7
  <2>3. CASE k.id = l.id
    BY <2>1, <2>2, <2>3, OneRow
  <2>4. CASE Microwave!keyOf(k) = Microwave!keyOf(l)
    <3>1. i = j
      BY <2>1, <2>2, <2>4, KeptOnce DEF AsIn
    <3>2. x = y
      <4>1. Numbered(records, i, x.id) /\ Numbered(records, i, y.id)
        BY <2>1, <2>2, <3>1, RowIs
      <4>2. x.id = y.id
        BY <4>1, OneOfRecord
      <4>3. QED
        BY <2>1, <2>2, <4>2, OneRow
    <3>3. QED
      BY <2>1, <2>2, <3>2
  <2>5. QED
    BY <1>9, <2>3, <2>4
<1>10. ASSUME NEW i \in DOMAIN records
       PROVE  \E l \in microwave' : Microwave!keyOf(l) = Microwave!keyOf(records[i])
  <2>1. PICK k \in Microwave!Kept(records) : Microwave!keyOf(records[k]) = Microwave!keyOf(records[i])
    BY KeptOfKey
  <2>2. PICK m : Numbered(records, k, m)
    BY EveryRecord
  <2>3. PICK x : RowOf(records, technical, date + 1, k, x)
    BY <2>2, RowOfNumber
  <2>4. Dated(x, technical, date + 1) \in microwave' /\ AsIn(Dated(x, technical, date + 1), records[k], technical)
    BY <1>3, <2>3, DatedIs
  <2>5. QED
    BY <2>1, <2>4 DEF AsIn
<1>11. ASSUME NEW l \in microwave'
       PROVE  /\ \E i \in Microwave!Kept(records) : AsIn(l, records[i], hasSpecs)
              /\ l.specsDate # None /\ l.specsDate >= l.updatedAt =>
                   \E i \in Microwave!Kept(described') : AsIn(l, described'[i], TRUE)
  <2>1. PICK i \in Microwave!Kept(records) :
           /\ AsIn(l, records[i], technical)
           /\ l.specsDate # None /\ l.specsDate >= l.updatedAt => technical \/ l \in microwave
    BY <1>7
  <2>2. AsIn(l, records[i], hasSpecs)
    BY <1>1, <2>1 DEF AsIn
  <2>3. ASSUME l.specsDate # None, l.specsDate >= l.updatedAt
        PROVE  \E j \in Microwave!Kept(described') : AsIn(l, described'[j], TRUE)
    <3>1. CASE hasSpecs
      <4>1. described' = records /\ AsIn(l, records[i], TRUE)
        BY <2>2, <3>1 DEF AsIn
      <4>2. QED
        BY <4>1
    <3>2. CASE ~hasSpecs
      <4>1. records # <<>>
        BY <2>1 DEF Microwave!Kept
      <4>2. l \in microwave /\ described' = described
        BY <1>1, <2>1, <2>3, <3>2, <4>1
      <4>3. QED
        BY <2>3, <4>2 DEF MicrowaveInv
    <3>3. QED
      BY <3>1, <3>2
  <2>4. QED
    BY <2>1, <2>2, <2>3
<1>12. QED
  BY <1>5, <1>6, <1>8, <1>9, <1>10, <1>11 DEF MicrowaveInv

-----------------------------------------------------------------------------
(* What is published, and how a release changes it.                        *)

\* At first there is no release.
LEMMA MicrowaveStarts ==
  ASSUME MaxRecords \in Nat, MaxReleases \in Nat, Microwave!Init
  PROVE  MicrowaveInv
<1>1. <<>> \in Releases
  <2>1. <<>> \in [1 .. 0 -> Microwave!Records] /\ 0 \in 0 .. MaxRecords
    OBVIOUS
  <2>2. QED
    BY <2>1 DEF Releases
<1>2. published.records = <<>> /\ DOMAIN published.records = {}
  BY DEF Microwave!Init
<1>3. QED
  BY <1>1, <1>2 DEF Microwave!Init, MicrowaveInv

LEMMA NextIsARelease ==
  ASSUME Microwave!Next
  PROVE  \E records \in Releases, hasSpecs \in BOOLEAN, isApproved \in BOOLEAN :
           Microwave!ImportRelease(records, hasSpecs, isApproved)
<1>1. PICK n \in 0 .. MaxRecords : \E records \in [1 .. n -> Microwave!Records], hasSpecs, isApproved \in BOOLEAN :
         Microwave!ImportRelease(records, hasSpecs, isApproved)
  BY DEF Microwave!Next
<1>2. [1 .. n -> Microwave!Records] \subseteq Releases
  BY DEF Releases
<1>3. QED
  BY <1>1, <1>2

\* The invariant is kept.
LEMMA MicrowaveInductive ==
  ASSUME MaxRecords \in Nat, MaxReleases \in Nat, MicrowaveInv, [Microwave!Next]_(Microwave!vars)
  PROVE  MicrowaveInv'
<1>1. CASE UNCHANGED Microwave!vars
  BY <1>1 DEF Microwave!vars, MicrowaveInv
<1>2. CASE Microwave!Next
  <2>1. PICK records \in Releases, hasSpecs \in BOOLEAN, isApproved \in BOOLEAN :
          Microwave!ImportRelease(records, hasSpecs, isApproved)
    BY <1>2, NextIsARelease
  <2>3. date < MaxReleases /\ date' = date + 1
    BY <2>1 DEF Microwave!ImportRelease
  <2>4. CASE Microwave!decideSlice(Microwave!Len(records), Microwave!Cardinality(microwave), isApproved)
    BY <2>1, <2>3, <2>4, AppliedKeeps DEF Microwave!ImportRelease
  <2>5. CASE ~Microwave!decideSlice(Microwave!Len(records), Microwave!Cardinality(microwave), isApproved)
    <3>1. UNCHANGED <<microwave, nextId, published, described>>
      BY <2>1, <2>5 DEF Microwave!ImportRelease
    <3>2. date \in Nat /\ nextId \in Nat /\ date' \in 0 .. MaxReleases
      BY <2>3 DEF MicrowaveInv
    <3>3. LinkRows(nextId, date) \subseteq LinkRows(nextId', date')
      <4>1. PICK k \in Nat, d \in Nat : k = nextId /\ d = date
        BY <3>2
      <4>2. LinkRows(k, d) \subseteq LinkRows(k + 0, d + 1) /\ k + 0 = k
        BY LinkRowsGrow
      <4>3. QED
        BY <2>3, <3>1, <4>1, <4>2
    <3>4. QED
      BY <3>1, <3>2, <3>3 DEF MicrowaveInv
  <2>6. QED
    BY <2>4, <2>5
<1>3. QED
  BY <1>1, <1>2

\* The links are counted by their keys, and the keys are those of the release.
LEMMA CountedByKeys ==
  ASSUME MaxRecords \in Nat, MicrowaveInv
  PROVE  LET keys == {Microwave!keyOf(l) : l \in microwave}
         IN /\ keys = {Microwave!keyOf(published.records[i]) : i \in DOMAIN published.records}
            /\ Microwave!Cardinality(microwave) = Microwave!Cardinality(keys)
<1> DEFINE records == published.records
           keys == {Microwave!keyOf(l) : l \in microwave}
           named == [i \in DOMAIN records |-> Microwave!keyOf(records[i])]
           known == [l \in microwave |-> Microwave!keyOf(l)]
<1>1. keys = {Microwave!keyOf(records[i]) : i \in DOMAIN records}
  <2>1. \A l \in microwave : \E i \in DOMAIN records : Microwave!keyOf(l) = Microwave!keyOf(records[i])
    BY KeptOnce DEF MicrowaveInv, AsIn
  <2>2. \A i \in DOMAIN records : \E l \in microwave : Microwave!keyOf(l) = Microwave!keyOf(records[i])
    BY DEF MicrowaveInv
  <2>3. QED
    BY <2>1, <2>2
<1>2. \A k \in keys : \E l \in microwave : k = Microwave!keyOf(l)
  OBVIOUS
<1>3. \A l \in microwave : Microwave!keyOf(l) \in keys
  OBVIOUS
<1>4. \A l, k \in microwave : Microwave!keyOf(l) = Microwave!keyOf(k) => l = k
  BY DEF MicrowaveInv
<1>5. \A k \in keys : \E i \in DOMAIN records : k = Microwave!keyOf(records[i])
  BY <1>1
<1>6. \A i \in DOMAIN records : Microwave!keyOf(records[i]) \in keys
  BY <1>1
<1>7. IsFiniteSet(DOMAIN records)
  <2>1. PICK n \in 0 .. MaxRecords : DOMAIN records = 1 .. n
    BY ReleaseIs DEF MicrowaveInv
  <2>2. IsFiniteSet(1 .. n)
    BY FS_Interval
  <2>3. QED
    BY <2>1, <2>2
<1> HIDE DEF keys
<1>8. named \in Surjection(DOMAIN records, keys)
  <2>1. named \in [DOMAIN records -> keys] /\ \A i \in DOMAIN records : named[i] = Microwave!keyOf(records[i])
    BY <1>6
  <2>2. QED
    BY <1>5, <2>1 DEF Surjection
<1>9. known \in Injection(microwave, keys) /\ known \in Surjection(microwave, keys)
  <2>1. known \in [microwave -> keys] /\ \A l \in microwave : known[l] = Microwave!keyOf(l)
    BY <1>3
  <2>2. QED
    BY <1>2, <1>4, <2>1 DEF Surjection, Injection, IsInjective
<1> HIDE DEF named, known
<1>10. IsFiniteSet(keys)
  BY <1>7, <1>8, FS_Surjection
<1>11. Cardinality(microwave) = Cardinality(keys)
  BY <1>9, <1>10, FS_Injection
<1>12. Microwave!Cardinality(microwave) = Microwave!Cardinality(keys)
  BY <1>11, SameNumber
<1>13. QED
  BY <1>1, <1>12 DEF keys

LEMMA InvPublishes ==
  ASSUME MaxRecords \in Nat, MaxReleases \in Nat, MicrowaveInv
  PROVE  Microwave!TypeOK /\ Microwave!LinksArePublished /\ Microwave!CompleteAsDescribed
<1>1. Microwave!TypeOK
  <2>1. date \in 0 .. MaxReleases /\ nextId \in Nat
    BY DEF MicrowaveInv
  <2>2. 1 .. date \subseteq 1 .. MaxReleases
    BY <2>1
  <2>3. ASSUME NEW l \in microwave
        PROVE  /\ l.id \in 1 .. nextId - 1
               /\ [permit |-> l.permit, hop |-> l.hop, width |-> l.width] \in [permit : PermitNumbers, hop : Hops, width : Widths]
               /\ l.specs \in Specs \cup {None} /\ l.specsDate \in {None} \cup 1 .. MaxReleases
               /\ l.updatedAt \in 1 .. MaxReleases
    BY <2>2 DEF MicrowaveInv, LinkRows
  <2>4. Microwave!Len(published.records) <= MaxRecords
    <3>1. PICK n \in 0 .. MaxRecords : published.records \in [1 .. n -> Microwave!Records]
      BY ReleaseIs DEF MicrowaveInv
    <3>2. Microwave!Len(published.records) = n
      BY <3>1
    <3>3. QED
      BY <3>2
  <2>5. \A l, k \in microwave : l.id = k.id => l = k
    BY DEF MicrowaveInv
  <2>6. QED
    BY <2>1, <2>3, <2>4, <2>5 DEF Microwave!TypeOK
<1>2. Microwave!LinksArePublished
  BY CountedByKeys DEF MicrowaveInv, Microwave!LinksArePublished, AsIn
<1>3. Microwave!CompleteAsDescribed
  BY DEF MicrowaveInv, Microwave!CompleteAsDescribed, Microwave!hasEveryTechnicalColumn, AsIn
<1>4. QED
  BY <1>1, <1>2, <1>3

\* The rows that a release leaves have the numbers of its records, and the
\* values.
LEMMA NumbersLeft ==
  ASSUME MaxRecords \in Nat, MicrowaveInv, NEW records \in Releases, NEW technical \in BOOLEAN,
         Microwave!applyLinks(records, technical, date + 1)
  PROVE  /\ \A k \in microwave' : \E i : Numbered(records, i, k.id) /\ AsIn(k, records[i], technical)
         /\ \A i, n : Numbered(records, i, n) => \E k \in microwave' : k.id = n
<1>1. /\ \A k \in microwave' : \E i, x : RowOf(records, technical, date + 1, i, x) /\ k = Dated(x, technical, date + 1)
      /\ \A i, x : RowOf(records, technical, date + 1, i, x) => Dated(x, technical, date + 1) \in microwave'
  BY ApplyIs
<1>2. ASSUME NEW k \in microwave'
      PROVE  \E i : Numbered(records, i, k.id) /\ AsIn(k, records[i], technical)
  <2>1. PICK i, x : RowOf(records, technical, date + 1, i, x) /\ k = Dated(x, technical, date + 1)
    BY <1>1
  <2>2. Numbered(records, i, x.id) /\ k.id = x.id /\ AsIn(k, records[i], technical)
    BY <2>1, RowIs, DatedIs
  <2>3. QED
    BY <2>2
<1>3. ASSUME NEW i, NEW n, Numbered(records, i, n)
      PROVE  \E k \in microwave' : k.id = n
  <2>1. PICK x : RowOf(records, technical, date + 1, i, x) /\ x.id = n
    BY <1>3, RowOfNumber
  <2>2. Dated(x, technical, date + 1) \in microwave' /\ Dated(x, technical, date + 1).id = n
    BY <1>1, <2>1, DatedIs
  <2>3. QED
    BY <2>2
<1>4. QED
  BY <1>2, <1>3

\* A new row has no number of a link.
LEMMA NewIsNew ==
  ASSUME MaxRecords \in Nat, MicrowaveInv, NEW records \in Releases
  PROVE  \A i \in Microwave!Inserts(records), l \in microwave : l.id # NumberOf(records, i)
<1>1. \A l \in microwave : l.id \in 1 .. nextId - 1
  BY DEF MicrowaveInv, LinkRows
<1>2. nextId \in Nat
  BY DEF MicrowaveInv
<1>3. Microwave!Cardinality(Microwave!Inserts(records)) \in Nat
  BY NewNumbers
<1>4. \A i \in Microwave!Inserts(records) :
        NumberOf(records, i) \in nextId .. nextId + Microwave!Cardinality(Microwave!Inserts(records)) - 1
  BY NewNumbers
<1>5. QED
  BY <1>1, <1>2, <1>3, <1>4

\* What a release does to the rows that stay, and what is to be told of it.
SameRows ==
  \A l \in microwave, k \in microwave' :
    l.id = k.id =>
      /\ l.hop = k.hop
      /\ l.permit # k.permit =>
           /\ l.width = k.width
           /\ \A m \in microwave : m.hop = l.hop => \E n \in microwave' : n.id = m.id
           /\ \A m \in microwave' : m.hop = l.hop => \E n \in microwave : n.id = m.id

ToldRows ==
  LET before == {l.id : l \in microwave}
      after == {l.id : l \in microwave'}
  IN linkChanges' = [added |-> after \ before, archived |-> before \ after,
                     renewed |-> {l.id : l \in {l \in microwave : \E k \in microwave' : l.id = k.id /\ l.permit # k.permit}}]

\* A row that stays is listed or renewed.
LEMMA StaysAs ==
  ASSUME MaxRecords \in Nat, MicrowaveInv, NEW records \in Releases, NEW i, NEW l \in microwave, Numbered(records, i, l.id)
  PROVE  \/ Microwave!keyOf(l) = Microwave!keyOf(records[i])
         \/ <<i, l>> \in Microwave!matchRenewals(records)
<1>1. \A m \in microwave : m.id = l.id => m = l
  BY DEF MicrowaveInv
<1>2. i \in Microwave!Inserts(records) => NumberOf(records, i) # l.id
  BY NewIsNew
<1>3. QED
  BY <1>1, <1>2 DEF Numbered

\* What an applied release does to a row, and what it says it did.
LEMMA AppliedTells ==
  ASSUME MaxRecords \in Nat, MicrowaveInv, NEW records \in Releases, NEW technical \in BOOLEAN,
         Microwave!applyLinks(records, technical, date + 1)
  PROVE  SameRows /\ ToldRows
<1>1. /\ \A k \in microwave' : \E i : Numbered(records, i, k.id) /\ AsIn(k, records[i], technical)
      /\ \A i, n : Numbered(records, i, n) => \E k \in microwave' : k.id = n
  BY NumbersLeft
<1>2. linkChanges' = [added |-> {NumberOf(records, i) : i \in Microwave!Inserts(records)},
                      renewed |-> {p[2].id : p \in Microwave!matchRenewals(records)},
                      archived |-> {l.id : l \in Microwave!archivedIds(records)}]
  BY ApplyIs
<1>3. \A m \in microwave : (\A n \in microwave' : n.id # m.id) <=> m \in Microwave!archivedIds(records)
  BY <1>1, StaysOrGoes
<1>4. ASSUME NEW m \in microwave', \A n \in microwave : n.id # m.id
      PROVE  \E j \in Microwave!Inserts(records) : m.id = NumberOf(records, j) /\ AsIn(m, records[j], technical)
  BY <1>1, <1>4 DEF Numbered
<1>5. ASSUME NEW l \in microwave, NEW k \in microwave', l.id = k.id
      PROVE  /\ l.hop = k.hop
             /\ l.permit # k.permit =>
                  \E i : <<i, l>> \in Microwave!matchRenewals(records) /\ AsIn(k, records[i], technical)
  <2>1. PICK i : Numbered(records, i, l.id) /\ AsIn(k, records[i], technical)
    BY <1>1, <1>5
  <2>2. CASE Microwave!keyOf(l) = Microwave!keyOf(records[i])
    BY <2>1, <2>2 DEF AsIn, Microwave!keyOf
  <2>3. CASE <<i, l>> \in Microwave!matchRenewals(records)
    <3>1. records[i].hop = l.hop
      BY <2>3, RenewalIs
    <3>2. QED
      BY <2>1, <2>3, <3>1 DEF AsIn, Microwave!keyOf
  <2>4. QED
    BY <2>1, <2>2, <2>3, StaysAs
<1>6. ASSUME NEW l \in microwave, NEW k \in microwave', l.id = k.id, l.permit # k.permit
      PROVE  /\ l.width = k.width
             /\ \A m \in microwave : m.hop = l.hop => \E n \in microwave' : n.id = m.id
             /\ \A m \in microwave' : m.hop = l.hop => \E n \in microwave : n.id = m.id
  <2>1. PICK i : <<i, l>> \in Microwave!matchRenewals(records) /\ AsIn(k, records[i], technical)
    BY <1>5, <1>6
  <2>2. /\ records[i].width = l.width
        /\ \A j \in Microwave!Unmatched(records) : records[j].hop = l.hop => j = i
        /\ \A m \in Microwave!Unlisted(records) : m.hop = l.hop => m = l
    BY <2>1, RenewalIs
  <2>3. \A m \in microwave : m.hop = l.hop => \E n \in microwave' : n.id = m.id
    <3>1. ASSUME NEW m \in microwave, m.hop = l.hop, \A n \in microwave' : n.id # m.id
          PROVE  FALSE
      <4>1. m \in Microwave!Unlisted(records)
        BY <1>3, <3>1, GoneIs
      <4>2. m = l
        BY <2>2, <3>1, <4>1
      <4>3. QED
        BY <1>6, <3>1, <4>2
    <3>2. QED
      BY <3>1
  <2>4. \A m \in microwave' : m.hop = l.hop => \E n \in microwave : n.id = m.id
    <3>1. ASSUME NEW m \in microwave', m.hop = l.hop, \A n \in microwave : n.id # m.id
          PROVE  FALSE
      <4>1. PICK j \in Microwave!Inserts(records) : AsIn(m, records[j], technical)
        BY <1>4, <3>1
      <4>2. j \in Microwave!Unmatched(records) /\ <<j, l>> \notin Microwave!matchRenewals(records)
        BY InsertsAre
      <4>3. records[j].hop = l.hop
        BY <3>1, <4>1 DEF AsIn, Microwave!keyOf
      <4>4. QED
        BY <2>1, <2>2, <4>2, <4>3
    <3>2. QED
      BY <3>1
  <2>5. QED
    BY <2>1, <2>2, <2>3, <2>4 DEF AsIn
<1>7. SameRows
  BY <1>5, <1>6 DEF SameRows
<1>8. ASSUME NEW i, NEW l, <<i, l>> \in Microwave!matchRenewals(records)
      PROVE  l \in microwave /\ \E k \in microwave' : l.id = k.id /\ l.permit # k.permit
  <2>1. l \in microwave /\ i \in Microwave!Unmatched(records) /\ records[i].hop = l.hop
    BY <1>8, RenewalIs DEF Microwave!Unlisted
  <2>2. Numbered(records, i, l.id)
    BY <1>8, <2>1 DEF Numbered
  <2>3. PICK k \in microwave' : k.id = l.id
    BY <1>1, <2>2
  <2>4. PICK j : Numbered(records, j, l.id) /\ AsIn(k, records[j], technical)
    BY <1>1, <2>3
  <2>5. j = i
    BY <2>2, <2>4, OneNumber
  <2>6. Microwave!keyOf(l) # Microwave!keyOf(records[i])
    BY <2>1 DEF Microwave!Unmatched
  <2>7. QED
    BY <2>1, <2>3, <2>4, <2>5, <2>6 DEF AsIn, Microwave!keyOf
<1>9. \A i \in Microwave!Inserts(records) :
        (\A l \in microwave : l.id # NumberOf(records, i)) /\ \E k \in microwave' : k.id = NumberOf(records, i)
  BY <1>1, NewIsNew DEF Numbered
<1> DEFINE before == {l.id : l \in microwave}
           after == {l.id : l \in microwave'}
<1>10. {NumberOf(records, i) : i \in Microwave!Inserts(records)} = after \ before
  <2>1. \A i \in Microwave!Inserts(records) : NumberOf(records, i) \in after \ before
    BY <1>9
  <2>2. \A m \in microwave' : m.id \notin before => m.id \in {NumberOf(records, i) : i \in Microwave!Inserts(records)}
    BY <1>4
  <2>3. QED
    BY <2>1, <2>2
<1>11. {l.id : l \in Microwave!archivedIds(records)} = before \ after
  <2>1. \A l \in Microwave!archivedIds(records) : l \in microwave
    BY GoneIs DEF Microwave!Unlisted
  <2>2. QED
    BY <1>3, <2>1
<1>12. {p[2].id : p \in Microwave!matchRenewals(records)}
         = {l.id : l \in {l \in microwave : \E k \in microwave' : l.id = k.id /\ l.permit # k.permit}}
  <2> DEFINE renewed == {l \in microwave : \E k \in microwave' : l.id = k.id /\ l.permit # k.permit}
  <2>1. \A p \in Microwave!matchRenewals(records) : p[2] \in renewed
    <3>1. \A p \in Microwave!matchRenewals(records) : p = <<p[1], p[2]>>
      BY DEF Microwave!matchRenewals
    <3>2. QED
      BY <1>8, <3>1
  <2>2. \A l \in renewed : \E p \in Microwave!matchRenewals(records) : p[2] = l
    <3>1. ASSUME NEW l \in renewed
          PROVE  \E p \in Microwave!matchRenewals(records) : p[2] = l
      <4>1. PICK i : <<i, l>> \in Microwave!matchRenewals(records)
        BY <1>5
      <4>2. <<i, l>>[2] = l
        OBVIOUS
      <4>3. QED
        BY <4>1, <4>2
    <3>2. QED
      BY <3>1
  <2> HIDE DEF renewed
  <2>3. {p[2].id : p \in Microwave!matchRenewals(records)} = {l.id : l \in renewed}
    BY <2>1, <2>2
  <2>4. QED
    BY <2>3 DEF renewed
<1>13. ToldRows
  BY <1>2, <1>10, <1>11, <1>12 DEF ToldRows
<1>14. QED
  BY <1>7, <1>13

\* The invariant and each release give the two promises about rows.
LEMMA StepTells ==
  ASSUME MaxRecords \in Nat, MaxReleases \in Nat, MicrowaveInv, [Microwave!Next]_(Microwave!vars)
  PROVE  SameRows /\ (microwave' # microwave => ToldRows)
<1>1. CASE microwave' = microwave
  BY <1>1 DEF MicrowaveInv, SameRows
<1>2. CASE microwave' # microwave
  <2>1. Microwave!Next
    BY <1>2 DEF Microwave!vars
  <2>2. PICK records \in Releases, hasSpecs \in BOOLEAN, isApproved \in BOOLEAN :
          Microwave!ImportRelease(records, hasSpecs, isApproved)
    BY <2>1, NextIsARelease
  <2>3. Microwave!applyLinks(records, hasSpecs \/ records = <<>>, date + 1)
    BY <1>2, <2>2 DEF Microwave!ImportRelease
  <2>4. PICK technical \in BOOLEAN : technical = (hasSpecs \/ records = <<>>)
    BY Zenon
  <2>5. Microwave!applyLinks(records, technical, date + 1)
    BY <2>3, <2>4
  <2>6. QED
    BY <2>5, AppliedTells
<1>3. QED
  BY <1>1, <1>2

\* Whatever releases come, held back or not, the links are those of the last
\* one that was applied, each once; a row is one link for ever; and the changes
\* say what came, went and was renewed (decideLinks, applyLinks).
THEOREM LinksAreThePublished ==
  ASSUME Microwave!MicrowaveAssumption
  PROVE  Microwave!Spec => LinksAsPublished
<1>1. MaxRecords \in Nat /\ MaxReleases \in Nat
  BY DEF Microwave!MicrowaveAssumption
<1>2. Microwave!Init => MicrowaveInv
  BY <1>1, MicrowaveStarts
<1>3. MicrowaveInv /\ [Microwave!Next]_(Microwave!vars) => MicrowaveInv'
  BY <1>1, MicrowaveInductive
<1>4. MicrowaveInv => Microwave!TypeOK /\ Microwave!LinksArePublished /\ Microwave!CompleteAsDescribed
  BY <1>1, InvPublishes
<1> DEFINE same == \A l \in microwave, k \in microwave' :
                     l.id = k.id =>
                       /\ l.hop = k.hop
                       /\ l.permit # k.permit =>
                            /\ l.width = k.width
                            /\ {m \in microwave : m.hop = l.hop /\ m.id \notin {n.id : n \in microwave'}} = {}
                            /\ {m \in microwave' : m.hop = l.hop /\ m.id \notin {n.id : n \in microwave}} = {}
           told == (microwave' # microwave) =>
                     LET before == {l.id : l \in microwave}
                         after == {l.id : l \in microwave'}
                     IN linkChanges' = [added |-> after \ before, archived |-> before \ after,
                                        renewed |-> {l.id : l \in {l \in microwave : \E k \in microwave' :
                                                                     l.id = k.id /\ l.permit # k.permit}}]
<1>5. MicrowaveInv /\ [Microwave!Next]_(Microwave!vars) => same /\ told
  <2> SUFFICES ASSUME MicrowaveInv, [Microwave!Next]_(Microwave!vars)
               PROVE  same /\ told
    OBVIOUS
  <2>1. SameRows /\ (microwave' # microwave => ToldRows)
    BY <1>1, StepTells
  <2>2. same
    <3> SUFFICES ASSUME NEW l \in microwave, NEW k \in microwave', l.id = k.id
                 PROVE  /\ l.hop = k.hop
                        /\ l.permit # k.permit =>
                             /\ l.width = k.width
                             /\ {m \in microwave : m.hop = l.hop /\ m.id \notin {n.id : n \in microwave'}} = {}
                             /\ {m \in microwave' : m.hop = l.hop /\ m.id \notin {n.id : n \in microwave}} = {}
      OBVIOUS
    <3>1. /\ l.hop = k.hop
          /\ l.permit # k.permit =>
               /\ l.width = k.width
               /\ \A m \in microwave : m.hop = l.hop => \E n \in microwave' : n.id = m.id
               /\ \A m \in microwave' : m.hop = l.hop => \E n \in microwave : n.id = m.id
      BY <2>1 DEF SameRows
    <3>2. (\A m \in microwave : m.hop = l.hop => \E n \in microwave' : n.id = m.id)
            => {m \in microwave : m.hop = l.hop /\ m.id \notin {n.id : n \in microwave'}} = {}
      OBVIOUS
    <3>3. (\A m \in microwave' : m.hop = l.hop => \E n \in microwave : n.id = m.id)
            => {m \in microwave' : m.hop = l.hop /\ m.id \notin {n.id : n \in microwave}} = {}
      OBVIOUS
    <3>4. QED
      BY <3>1, <3>2, <3>3, Zenon
  <2>3. told
    BY <2>1 DEF ToldRows
  <2>4. QED
    BY <2>2, <2>3
<1>6. Microwave!Spec => Microwave!RowIsTheLink
  BY <1>2, <1>3, <1>5, PTL DEF Microwave!Spec, Microwave!RowIsTheLink
<1>7. Microwave!Spec => Microwave!ChangesTellTheRelease
  BY <1>2, <1>3, <1>5, PTL DEF Microwave!Spec, Microwave!ChangesTellTheRelease
<1>8. Microwave!Spec => [](Microwave!TypeOK /\ Microwave!LinksArePublished /\ Microwave!CompleteAsDescribed)
  BY <1>2, <1>3, <1>4, PTL DEF Microwave!Spec
<1>9. QED
  BY <1>6, <1>7, <1>8, PTL DEF LinksAsPublished
-----------------------------------------------------------------------------
(* The remap of a licensee.                                                *)

\* The rows that a remap may find: the tables keep their constraints.
RemapRows ==
  /\ remapSites \in [DOMAIN remapSites -> Remap!SiteRow] /\ DOMAIN remapSites \subseteq SiteIds
  /\ Remap!SiteHasName(remapSites) /\ Remap!OneSitePerCodeAndOperator(remapSites)
  /\ remapPermits \in [PermitIds -> [site : DOMAIN remapSites, values : Values]]
  /\ Remap!OnePermitPerValues(remapPermits)
  /\ remapListings \subseteq [permit : PermitIds, dataset : RemapDatasets, licensee : ListedBy]
  /\ Remap!OneListingPerDataset(remapListings)
  /\ follows \subseteq DOMAIN remapSites /\ linked \subseteq DOMAIN remapSites
  /\ notices \subseteq [site : DOMAIN remapSites, read : BOOLEAN]
  /\ operatorOf \in [Others \cup {Licensee} -> RemapOperators \cup {None}]
  /\ to \in RemapOperators \cup {None}

\* A plan that is carried out, the first one of its run.
RemapPlan ==
  /\ Remap!RemapAssumption
  /\ RemapRows
  /\ to # None
  /\ ~Remap!Ambiguous

\* The site that a row after the remap comes from.
ComesFrom(n, s) ==
  \/ n = s /\ s \in DOMAIN remapSites \ Remap!Emptied
  \/ s \in Remap!Split /\ n = Remap!SplitId(s)

\* The columns of a site, and its name.
LEMMA SiteIs ==
  ASSUME Remap!RemapAssumption, RemapRows, NEW s \in DOMAIN remapSites
  PROVE  /\ remapSites[s] \in Remap!SiteRow
         /\ remapSites[s].code \in Codes \cup {None} /\ remapSites[s].ref \in BOOLEAN
         /\ remapSites[s].operator \in RemapOperators
         /\ s \in SiteIds /\ s \in Nat \ {0}
         /\ remapSites[s].code # None \/ remapSites[s].ref
         /\ Remap!HasOwnName(s) <=> remapSites[s].ref
<1>1. remapSites[s] \in Remap!SiteRow
  BY DEF RemapRows
<1>2. s \in SiteIds /\ s \in Nat \ {0}
  BY DEF RemapRows, Remap!RemapAssumption
<1>3. remapSites[s].code # None \/ remapSites[s].ref
  BY DEF RemapRows, Remap!SiteHasName
<1>4. QED
  BY <1>1, <1>2, <1>3 DEF Remap!SiteRow, Remap!HasOwnName

LEMMA PermitIs ==
  ASSUME RemapRows, NEW p \in PermitIds
  PROVE  /\ DOMAIN remapPermits = PermitIds
         /\ remapPermits[p] = [site |-> remapPermits[p].site, values |-> remapPermits[p].values]
         /\ remapPermits[p].site \in DOMAIN remapSites /\ remapPermits[p].values \in Values
         /\ \A q \in PermitIds : remapPermits[q].site = remapPermits[p].site
                                   /\ remapPermits[q].values = remapPermits[p].values => q = p
<1>1. /\ DOMAIN remapPermits = PermitIds
      /\ \A q \in PermitIds : remapPermits[q] \in [site : DOMAIN remapSites, values : Values]
  BY DEF RemapRows
<1>2. \A q \in PermitIds : q # p => remapPermits[q] # remapPermits[p]
  BY <1>1 DEF RemapRows, Remap!OnePermitPerValues
<1>3. QED
  BY <1>1, <1>2

\* The site with the code of s that the new operator has is one.
LEMMA TargetIs ==
  ASSUME Remap!RemapAssumption, RemapRows, NEW s, Remap!TargetsOf(s) # {}
  PROVE  /\ Remap!TargetOf(s) \in Remap!TargetsOf(s)
         /\ Remap!TargetOf(s) \in DOMAIN remapSites
         /\ remapSites[Remap!TargetOf(s)].operator = to /\ ~remapSites[Remap!TargetOf(s)].ref
         /\ remapSites[Remap!TargetOf(s)].code = remapSites[s].code /\ remapSites[s].code # None
<1>1. Remap!TargetOf(s) \in Remap!TargetsOf(s)
  BY DEF Remap!TargetOf
<1>2. QED
  BY <1>1 DEF Remap!TargetsOf

\* What leaves, and what becomes of it.
LEMMA LeavingIs ==
  ASSUME Remap!RemapAssumption, RemapRows
  PROVE  /\ Remap!Leaving \subseteq DOMAIN remapSites
         /\ \A s \in Remap!Leaving : remapSites[s].operator # to
         /\ Remap!Rekeyed \cup Remap!Split \cup Remap!Joining \subseteq Remap!Leaving
         /\ Remap!Emptied \subseteq Remap!Joining
         /\ Remap!Rekeyed \cap Remap!Split = {} /\ Remap!Rekeyed \cap Remap!Joining = {}
         /\ Remap!Split \cap Remap!Joining = {}
         /\ \A s \in Remap!Joining : Remap!TargetsOf(s) # {} /\ ~remapSites[s].ref /\ Remap!TargetOf(s) \notin Remap!Leaving
         /\ \A s \in Remap!Split : Remap!TargetsOf(s) = {} /\ ~remapSites[s].ref /\ ~Remap!EveryPermitMoves(s)
         /\ \A s \in Remap!Rekeyed : Remap!EveryPermitMoves(s) /\ (remapSites[s].ref \/ Remap!TargetsOf(s) = {})
<1>1. Remap!ListedSites \subseteq DOMAIN remapSites
  <2>1. \A l \in remapListings : l.permit \in PermitIds
    BY DEF RemapRows
  <2>2. QED
    BY <2>1, PermitIs DEF Remap!ListedSites
<1>2. /\ Remap!Leaving \subseteq DOMAIN remapSites
      /\ \A s \in Remap!Leaving : remapSites[s].operator # to
  BY <1>1 DEF Remap!Leaving
<1>3. /\ Remap!Rekeyed \cup Remap!Split \cup Remap!Joining \subseteq Remap!Leaving
      /\ Remap!Emptied \subseteq Remap!Joining
      /\ Remap!Rekeyed \cap Remap!Split = {} /\ Remap!Rekeyed \cap Remap!Joining = {}
      /\ Remap!Split \cap Remap!Joining = {}
  BY DEF Remap!Rekeyed, Remap!Split, Remap!Joining, Remap!Emptied
<1>4. \A s \in Remap!Leaving : Remap!HasOwnName(s) <=> remapSites[s].ref
  BY <1>2, SiteIs
<1>5. \A s \in Remap!Joining : Remap!TargetsOf(s) # {} /\ ~remapSites[s].ref
  BY <1>3, <1>4 DEF Remap!Joining
<1>6. \A s \in Remap!Joining : Remap!TargetOf(s) \notin Remap!Leaving
  BY <1>2, <1>5, TargetIs
<1>7. \A s \in Remap!Split : Remap!TargetsOf(s) = {} /\ ~remapSites[s].ref /\ ~Remap!EveryPermitMoves(s)
  BY <1>3, <1>4 DEF Remap!Split
<1>8. \A s \in Remap!Rekeyed : Remap!EveryPermitMoves(s) /\ (remapSites[s].ref \/ Remap!TargetsOf(s) = {})
  BY <1>3, <1>4 DEF Remap!Rekeyed
<1>9. QED
  BY <1>2, <1>3, <1>5, <1>6, <1>7, <1>8

\* Of two sites that leave and have no name of their own the codes differ.
LEMMA OneCodeLeaves ==
  ASSUME RemapPlan,
         NEW r \in Remap!Leaving, NEW s \in Remap!Leaving, ~remapSites[r].ref, ~remapSites[s].ref,
         remapSites[r].code = remapSites[s].code
  PROVE  r = s
<1>1. r \in DOMAIN remapSites /\ s \in DOMAIN remapSites
  BY LeavingIs DEF RemapPlan
<1>2. ~Remap!HasOwnName(r) /\ ~Remap!HasOwnName(s)
  BY <1>1, SiteIs DEF RemapPlan
<1>3. QED
  BY <1>2 DEF RemapPlan, Remap!Ambiguous

\* A site that is split off has an id that no site had.
LEMMA SplitIdIs ==
  ASSUME Remap!RemapAssumption
  PROVE  /\ \A s \in SiteIds : Remap!SplitId(s) \notin SiteIds
         /\ \A r, s \in SiteIds : Remap!SplitId(r) = Remap!SplitId(s) => r = s
<1>1. PICK last \in SiteIds : \A s \in SiteIds : s <= last
  BY DEF Remap!RemapAssumption
<1>2. SiteIds \subseteq Nat \ {0}
  BY DEF Remap!RemapAssumption
<1>3. \A s \in SiteIds : last >= s
  BY <1>1, <1>2
<1>4. Remap!Max(SiteIds) \in SiteIds /\ \A s \in SiteIds : Remap!Max(SiteIds) >= s
  BY <1>3 DEF Remap!Max
<1>5. PICK n \in SiteIds : n = Remap!Max(SiteIds)
  BY <1>4
<1>6. n \in Nat /\ \A s \in SiteIds : s \in Nat /\ s > 0 /\ n >= s
  BY <1>2, <1>4, <1>5
<1>7. \A s \in SiteIds : s + n \notin SiteIds
  BY <1>6
<1>8. \A r, s \in SiteIds : r + n = s + n => r = s
  BY <1>6
<1>9. QED
  BY <1>5, <1>7, <1>8 DEF Remap!SplitId

\* The permits that move onto a site that is there.
LEMMA MovingIs ==
  ASSUME Remap!RemapAssumption, RemapRows
  PROVE  /\ Remap!MovingOnto \subseteq PermitIds
         /\ \A s : Remap!Moving(s) \subseteq Remap!PermitsOf(s) /\ Remap!PermitsOf(s) \subseteq PermitIds
         /\ \A s : \A p \in Remap!PermitsOf(s) : remapPermits[p].site = s
         /\ \A p \in PermitIds : p \in Remap!PermitsOf(remapPermits[p].site)
         /\ \A p \in PermitIds : p \in Remap!MovingOnto <=> /\ remapPermits[p].site \in Remap!Joining
                                                             /\ p \in Remap!Moving(remapPermits[p].site)
<1>1. \A s : Remap!Moving(s) \subseteq Remap!PermitsOf(s)
  BY DEF Remap!Moving
<1>2. DOMAIN remapPermits = PermitIds
  BY DEF RemapRows
<1>3. /\ \A s : Remap!PermitsOf(s) \subseteq PermitIds /\ \A p \in Remap!PermitsOf(s) : remapPermits[p].site = s
      /\ \A p \in PermitIds : p \in Remap!PermitsOf(remapPermits[p].site)
  BY <1>2 DEF Remap!PermitsOf
<1>4. \A p \in Remap!MovingOnto : \E s \in Remap!Joining : p \in Remap!Moving(s)
  BY DEF Remap!MovingOnto
<1>5. \A p, s : s \in Remap!Joining /\ p \in Remap!Moving(s) => p \in Remap!MovingOnto
  BY DEF Remap!MovingOnto
<1>6. \A p \in Remap!MovingOnto : /\ p \in PermitIds /\ remapPermits[p].site \in Remap!Joining
                                  /\ p \in Remap!Moving(remapPermits[p].site)
  BY <1>1, <1>3, <1>4
<1>7. QED
  BY <1>1, <1>3, <1>5, <1>6

\* A permit that is merged with an equal one, which stays where it is.
LEMMA MergedIs ==
  ASSUME Remap!RemapAssumption, RemapRows, NEW p \in Remap!Merged
  PROVE  /\ p \in PermitIds /\ p \in Remap!MovingOnto /\ Remap!MergedInto(p) \in PermitIds
         /\ Remap!MergedInto(p) \notin Remap!MovingOnto /\ Remap!MergedInto(p) \notin Remap!Merged
         /\ remapPermits[Remap!MergedInto(p)].site = Remap!TargetOf(remapPermits[p].site)
         /\ remapPermits[Remap!MergedInto(p)].values = remapPermits[p].values
<1>1. p \in Remap!MovingOnto /\ Remap!EqualPermits(p) # {}
  BY DEF Remap!Merged
<1>2. Remap!MergedInto(p) \in Remap!EqualPermits(p)
  BY <1>1 DEF Remap!MergedInto
<1>3. p \in PermitIds /\ remapPermits[p].site \in Remap!Joining
  BY <1>1, MovingIs
<1>4. /\ Remap!MergedInto(p) \in Remap!PermitsOf(Remap!TargetOf(remapPermits[p].site))
      /\ remapPermits[Remap!MergedInto(p)].values = remapPermits[p].values
  BY <1>2 DEF Remap!EqualPermits
<1>5. /\ Remap!MergedInto(p) \in PermitIds
      /\ remapPermits[Remap!MergedInto(p)].site = Remap!TargetOf(remapPermits[p].site)
  BY <1>4, MovingIs
<1>6. Remap!TargetOf(remapPermits[p].site) \notin Remap!Joining
  BY <1>3, LeavingIs
<1>7. Remap!MergedInto(p) \notin Remap!MovingOnto
  BY <1>5, <1>6, MovingIs
<1>8. Remap!MergedInto(p) \notin Remap!Merged
  BY <1>7 DEF Remap!Merged
<1>9. QED
  BY <1>1, <1>3, <1>4, <1>5, <1>7, <1>8

\* An equal permit on the target merges a permit that moves there.
LEMMA EqualMerges ==
  ASSUME Remap!RemapAssumption, RemapRows, NEW p \in Remap!MovingOnto, NEW q \in PermitIds,
         remapPermits[q].site = Remap!TargetOf(remapPermits[p].site),
         remapPermits[q].values = remapPermits[p].values
  PROVE  p \in Remap!Merged
<1>1. q \in Remap!PermitsOf(Remap!TargetOf(remapPermits[p].site))
  BY MovingIs
<1>2. q \in Remap!EqualPermits(p)
  BY <1>1 DEF Remap!EqualPermits
<1>3. QED
  BY <1>2 DEF Remap!Merged

\* Where a permit goes: onto the target, onto the site split off, or nowhere.
GoesOnto(p) == p \in Remap!MovingOnto
SplitsOff(p) == remapPermits[p].site \in Remap!Split /\ p \in Remap!Moving(remapPermits[p].site)
StaysPut(p) == ~GoesOnto(p) /\ ~SplitsOff(p)

LEMMA NewSiteIs ==
  ASSUME Remap!RemapAssumption, RemapRows, NEW p \in PermitIds
  PROVE  /\ GoesOnto(p) => /\ remapPermits[p].site \in Remap!Joining
                           /\ Remap!NewSiteOf(p) = Remap!TargetOf(remapPermits[p].site)
         /\ SplitsOff(p) => ~GoesOnto(p) /\ Remap!NewSiteOf(p) = Remap!SplitId(remapPermits[p].site)
         /\ StaysPut(p) => /\ Remap!NewSiteOf(p) = remapPermits[p].site /\ p \notin Remap!Merged
                           /\ remapPermits[p].site \notin Remap!Emptied
         /\ p \in Remap!Merged => GoesOnto(p)
         /\ GoesOnto(p) \/ SplitsOff(p) \/ StaysPut(p)
<1>1. GoesOnto(p) => remapPermits[p].site \in Remap!Joining
  BY MovingIs DEF GoesOnto
<1>2. SplitsOff(p) => ~GoesOnto(p)
  BY <1>1, LeavingIs DEF SplitsOff
<1>3. /\ GoesOnto(p) => Remap!NewSiteOf(p) = Remap!TargetOf(remapPermits[p].site)
      /\ SplitsOff(p) => Remap!NewSiteOf(p) = Remap!SplitId(remapPermits[p].site)
      /\ StaysPut(p) => Remap!NewSiteOf(p) = remapPermits[p].site
  BY <1>2 DEF Remap!NewSiteOf, GoesOnto, SplitsOff, StaysPut
<1>4. p \in Remap!Merged => GoesOnto(p)
  BY MergedIs DEF GoesOnto
<1>5. StaysPut(p) => remapPermits[p].site \notin Remap!Emptied
  <2> SUFFICES ASSUME remapPermits[p].site \in Remap!Emptied
               PROVE  GoesOnto(p)
    BY DEF StaysPut
  <2>1. remapPermits[p].site \in Remap!Joining /\ Remap!EveryPermitMoves(remapPermits[p].site)
    BY DEF Remap!Emptied
  <2>2. p \in Remap!Moving(remapPermits[p].site)
    BY <2>1, MovingIs DEF Remap!EveryPermitMoves
  <2>3. QED
    BY <2>1, <2>2, MovingIs DEF GoesOnto
<1>6. QED
  BY <1>1, <1>2, <1>3, <1>4, <1>5 DEF StaysPut

\* The sites after the remap, each with the code and the reference of the one
\* that it comes from.
LEMMA SitesAfterAre ==
  ASSUME Remap!RemapAssumption, RemapRows
  PROVE  /\ \A n : n \in DOMAIN Remap!SitesAfter <=> \E s \in DOMAIN remapSites : ComesFrom(n, s)
         /\ \A n, s : ComesFrom(n, s) =>
              /\ s \in DOMAIN remapSites /\ n \in DOMAIN Remap!SitesAfter
              /\ Remap!SitesAfter[n] =
                   IF s \in Remap!Rekeyed \/ s # n THEN [remapSites[s] EXCEPT !.operator = to] ELSE remapSites[s]
              /\ s # n <=> n \notin SiteIds
              /\ n = s \/ s \in Remap!Split
         /\ \A n, r, s : ComesFrom(n, r) /\ ComesFrom(n, s) => r = s
<1> DEFINE D == (DOMAIN remapSites \ Remap!Emptied) \cup {Remap!SplitId(r) : r \in Remap!Split}
<1>1. DOMAIN Remap!SitesAfter = D
  BY DEF Remap!SitesAfter
<1>2. \A n \in D : Remap!SitesAfter[n] =
        IF n \in DOMAIN remapSites
        THEN IF n \in Remap!Rekeyed THEN [remapSites[n] EXCEPT !.operator = to] ELSE remapSites[n]
        ELSE [remapSites[CHOOSE r \in Remap!Split : Remap!SplitId(r) = n] EXCEPT !.operator = to]
  BY DEF Remap!SitesAfter
<1>3. DOMAIN remapSites \subseteq SiteIds /\ Remap!Split \subseteq DOMAIN remapSites
  BY LeavingIs DEF RemapRows
<1>4. /\ \A s \in Remap!Split : Remap!SplitId(s) \notin SiteIds
      /\ \A r, s \in Remap!Split : Remap!SplitId(r) = Remap!SplitId(s) => r = s
  BY <1>3, SplitIdIs
<1>5. \A n : n \in D <=> \E s \in DOMAIN remapSites : ComesFrom(n, s)
  BY <1>3 DEF ComesFrom
<1> HIDE DEF D
<1>6. \A n, r, s : ComesFrom(n, r) /\ ComesFrom(n, s) => r = s
  BY <1>3, <1>4 DEF ComesFrom
<1>7. ASSUME NEW n, NEW s, ComesFrom(n, s)
      PROVE  /\ s \in DOMAIN remapSites /\ n \in D
             /\ Remap!SitesAfter[n] =
                  IF s \in Remap!Rekeyed \/ s # n THEN [remapSites[s] EXCEPT !.operator = to] ELSE remapSites[s]
             /\ s # n <=> n \notin SiteIds
             /\ n = s \/ s \in Remap!Split
  <2>1. s \in DOMAIN remapSites /\ n \in D
    BY <1>3, <1>5, <1>7 DEF ComesFrom
  <2>2. CASE n = s
    BY <1>2, <1>3, <2>1, <2>2
  <2>3. CASE n # s
    <3>1. s \in Remap!Split /\ n = Remap!SplitId(s) /\ n \notin SiteIds
      BY <1>4, <1>7, <2>3 DEF ComesFrom
    <3>2. (CHOOSE r \in Remap!Split : Remap!SplitId(r) = n) = s
      BY <1>4, <3>1
    <3>3. QED
      BY <1>2, <1>3, <2>1, <2>3, <3>1, <3>2
  <2>4. QED
    BY <2>2, <2>3
<1>8. QED
  BY <1>1, <1>5, <1>6, <1>7

LEMMA SiteAfterIs ==
  ASSUME RemapPlan, NEW n, NEW s, ComesFrom(n, s)
  PROVE  /\ n \in DOMAIN Remap!SitesAfter /\ Remap!SitesAfter[n] \in Remap!SiteRow
         /\ Remap!SitesAfter[n].code = remapSites[s].code /\ Remap!SitesAfter[n].ref = remapSites[s].ref
         /\ Remap!SitesAfter[n].operator = IF s \in Remap!Rekeyed \/ s # n THEN to ELSE remapSites[s].operator
         /\ s \notin Remap!Rekeyed /\ s = n => Remap!SitesAfter[n] = remapSites[s]
         /\ s \in Remap!Rekeyed \/ s # n => s \in Remap!Leaving
<1>1. s \in DOMAIN remapSites /\ (n = s \/ s \in Remap!Split) /\ n \in DOMAIN Remap!SitesAfter
  BY SitesAfterAre DEF RemapPlan
<1>2. Remap!SitesAfter[n] =
        IF s \in Remap!Rekeyed \/ s # n THEN [remapSites[s] EXCEPT !.operator = to] ELSE remapSites[s]
  BY SitesAfterAre DEF RemapPlan
<1>3. remapSites[s] \in Remap!SiteRow
  BY <1>1, SiteIs DEF RemapPlan
<1>4. to \in RemapOperators
  BY DEF RemapPlan, RemapRows
<1>5. s \in Remap!Rekeyed \/ s # n => s \in Remap!Leaving
  BY <1>1, LeavingIs DEF RemapPlan
<1>6. QED
  BY <1>1, <1>2, <1>3, <1>4, <1>5 DEF Remap!SiteRow

\* No unique index of the sites is violated.
LEMMA SitesFit ==
  ASSUME RemapPlan
  PROVE  /\ DOMAIN Remap!SitesAfter \subseteq Remap!AllSites
         /\ \A n \in DOMAIN Remap!SitesAfter : Remap!SitesAfter[n] \in Remap!SiteRow
         /\ Remap!SiteHasName(Remap!SitesAfter) /\ Remap!OneSitePerCodeAndOperator(Remap!SitesAfter)
<1>1. \A n \in DOMAIN Remap!SitesAfter : \E s \in DOMAIN remapSites : ComesFrom(n, s)
  BY SitesAfterAre DEF RemapPlan
<1>2. DOMAIN Remap!SitesAfter \subseteq Remap!AllSites
  <2>1. DOMAIN remapSites \subseteq SiteIds
    BY DEF RemapPlan, RemapRows
  <2>2. QED
    BY <1>1, <2>1 DEF ComesFrom, Remap!AllSites
<1>3. \A n \in DOMAIN Remap!SitesAfter : Remap!SitesAfter[n] \in Remap!SiteRow
  BY <1>1, SiteAfterIs
<1>4. Remap!SiteHasName(Remap!SitesAfter)
  <2>1. \A s \in DOMAIN remapSites : remapSites[s].code # None \/ remapSites[s].ref
    BY SiteIs DEF RemapPlan
  <2>2. QED
    BY <1>1, <2>1, SiteAfterIs DEF Remap!SiteHasName
<1>5. Remap!OneSitePerCodeAndOperator(Remap!SitesAfter)
  <2> SUFFICES ASSUME NEW n \in DOMAIN Remap!SitesAfter, NEW m \in DOMAIN Remap!SitesAfter,
                      ~Remap!SitesAfter[n].ref, ~Remap!SitesAfter[m].ref,
                      Remap!SitesAfter[n].code = Remap!SitesAfter[m].code,
                      Remap!SitesAfter[n].operator = Remap!SitesAfter[m].operator
               PROVE  n = m
    BY DEF Remap!OneSitePerCodeAndOperator
  <2>1. PICK r \in DOMAIN remapSites : ComesFrom(n, r)
    BY <1>1
  <2>2. PICK s \in DOMAIN remapSites : ComesFrom(m, s)
    BY <1>1
  <2>3. /\ ~remapSites[r].ref /\ ~remapSites[s].ref /\ remapSites[r].code = remapSites[s].code
        /\ remapSites[r].code # None
    BY <2>1, <2>2, SiteAfterIs, SiteIs DEF RemapPlan
  <2> DEFINE moved(k, o) == o \in Remap!Rekeyed \/ o # k
  <2>4. \A k, o : ComesFrom(k, o) /\ moved(k, o) =>
          o \in Remap!Leaving /\ Remap!SitesAfter[k].operator = to /\ (remapSites[o].ref \/ Remap!TargetsOf(o) = {})
    <3> SUFFICES ASSUME NEW k, NEW o, ComesFrom(k, o), moved(k, o)
                 PROVE  o \in Remap!Leaving /\ Remap!SitesAfter[k].operator = to /\ (remapSites[o].ref \/ Remap!TargetsOf(o) = {})
      OBVIOUS
    <3>1. o \in Remap!Leaving /\ Remap!SitesAfter[k].operator = to
      BY SiteAfterIs
    <3>2. o \in Remap!Rekeyed \/ o \in Remap!Split
      BY SitesAfterAre DEF RemapPlan
    <3>3. QED
      BY <3>1, <3>2, LeavingIs DEF RemapPlan
  <2>5. \A k, o : ComesFrom(k, o) /\ ~moved(k, o) => o = k /\ Remap!SitesAfter[k].operator = remapSites[o].operator
    BY SiteAfterIs
  <2> HIDE DEF moved
  <2>6. CASE ~moved(n, r) /\ ~moved(m, s)
    <3>1. r = n /\ s = m /\ remapSites[r].operator = remapSites[s].operator
      BY <2>1, <2>2, <2>5, <2>6
    <3>2. QED
      BY <2>3, <3>1 DEF RemapPlan, RemapRows, Remap!OneSitePerCodeAndOperator
  <2>7. CASE moved(n, r) /\ ~moved(m, s)
    <3>1. remapSites[s].operator = to /\ Remap!TargetsOf(r) = {}
      BY <2>1, <2>2, <2>3, <2>4, <2>5, <2>7
    <3>2. s \in Remap!TargetsOf(r)
      BY <2>3, <3>1 DEF Remap!TargetsOf
    <3>3. QED
      BY <3>1, <3>2
  <2>8. CASE ~moved(n, r) /\ moved(m, s)
    <3>1. remapSites[r].operator = to /\ Remap!TargetsOf(s) = {}
      BY <2>1, <2>2, <2>3, <2>4, <2>5, <2>8
    <3>2. r \in Remap!TargetsOf(s)
      BY <2>3, <3>1 DEF Remap!TargetsOf
    <3>3. QED
      BY <3>1, <3>2
  <2>9. CASE moved(n, r) /\ moved(m, s)
    <3>1. r \in Remap!Leaving /\ s \in Remap!Leaving
      BY <2>1, <2>2, <2>4, <2>9
    <3>2. r = s
      BY <2>3, <3>1, OneCodeLeaves
    <3>3. Remap!Rekeyed \cap Remap!Split = {}
      BY LeavingIs DEF RemapPlan
    <3>4. QED
      BY <2>1, <2>2, <2>9, <3>2, <3>3 DEF ComesFrom, moved
  <2>10. QED
    BY <2>6, <2>7, <2>8, <2>9
<1>6. QED
  BY <1>2, <1>3, <1>4, <1>5

\* Every permit that stays is on a site that is there, and its equals are gone.
LEMMA PermitsFit ==
  ASSUME RemapPlan
  PROVE  /\ DOMAIN Remap!PermitsAfter = PermitIds \ Remap!Merged
         /\ \A p \in PermitIds \ Remap!Merged :
              /\ Remap!PermitsAfter[p] = [site |-> Remap!NewSiteOf(p), values |-> remapPermits[p].values]
              /\ \E s \in DOMAIN remapSites : ComesFrom(Remap!NewSiteOf(p), s)
         /\ Remap!OnePermitPerValues(Remap!PermitsAfter)
<1>1. DOMAIN remapPermits = PermitIds
  BY DEF RemapPlan, RemapRows
<1>2. \A p \in PermitIds : /\ remapPermits[p] \in [site : DOMAIN remapSites, values : Values]
                           /\ remapPermits[p].site \in DOMAIN remapSites
  BY DEF RemapPlan, RemapRows
<1>3. /\ DOMAIN Remap!PermitsAfter = PermitIds \ Remap!Merged
      /\ \A p \in PermitIds \ Remap!Merged : Remap!PermitsAfter[p] = [remapPermits[p] EXCEPT !.site = Remap!NewSiteOf(p)]
  BY <1>1 DEF Remap!PermitsAfter
<1>4. \A p \in PermitIds \ Remap!Merged :
        Remap!PermitsAfter[p] = [site |-> Remap!NewSiteOf(p), values |-> remapPermits[p].values]
  BY <1>2, <1>3
<1>5. ASSUME NEW p \in PermitIds
      PROVE  \E s \in DOMAIN remapSites : ComesFrom(Remap!NewSiteOf(p), s)
  <2>1. CASE GoesOnto(p)
    <3>1. remapPermits[p].site \in Remap!Joining /\ Remap!NewSiteOf(p) = Remap!TargetOf(remapPermits[p].site)
      BY <2>1, NewSiteIs DEF RemapPlan
    <3>2. Remap!NewSiteOf(p) \in DOMAIN remapSites /\ Remap!NewSiteOf(p) \notin Remap!Leaving
      BY <3>1, LeavingIs, TargetIs DEF RemapPlan
    <3>3. Remap!NewSiteOf(p) \notin Remap!Emptied
      BY <3>2, LeavingIs DEF RemapPlan
    <3>4. QED
      BY <3>2, <3>3 DEF ComesFrom
  <2>2. CASE SplitsOff(p)
    <3>1. remapPermits[p].site \in Remap!Split /\ Remap!NewSiteOf(p) = Remap!SplitId(remapPermits[p].site)
      BY <2>2, NewSiteIs DEF RemapPlan, SplitsOff
    <3>2. QED
      BY <1>2, <3>1 DEF ComesFrom
  <2>3. CASE StaysPut(p)
    <3>1. Remap!NewSiteOf(p) = remapPermits[p].site /\ remapPermits[p].site \notin Remap!Emptied
      BY <2>3, NewSiteIs DEF RemapPlan
    <3>2. QED
      BY <1>2, <3>1 DEF ComesFrom
  <2>4. QED
    BY <2>1, <2>2, <2>3, NewSiteIs DEF RemapPlan
<1>6. Remap!OnePermitPerValues(Remap!PermitsAfter)
  <2> SUFFICES ASSUME NEW p \in PermitIds \ Remap!Merged, NEW q \in PermitIds \ Remap!Merged,
                      Remap!NewSiteOf(p) = Remap!NewSiteOf(q), remapPermits[p].values = remapPermits[q].values
               PROVE  p = q
    BY <1>3, <1>4 DEF Remap!OnePermitPerValues
  <2>1. remapPermits[p].site = remapPermits[q].site => p = q
    BY PermitIs DEF RemapPlan
  <2>2. ASSUME NEW g \in PermitIds \ Remap!Merged, NEW h \in PermitIds \ Remap!Merged,
               GoesOnto(g), Remap!NewSiteOf(g) = Remap!NewSiteOf(h), remapPermits[g].values = remapPermits[h].values
        PROVE  remapPermits[g].site = remapPermits[h].site
    <3>1. remapPermits[g].site \in Remap!Joining /\ Remap!NewSiteOf(g) = Remap!TargetOf(remapPermits[g].site)
      BY <2>2, NewSiteIs DEF RemapPlan
    <3>2. /\ Remap!NewSiteOf(g) \in DOMAIN remapSites /\ Remap!NewSiteOf(g) \in SiteIds
          /\ remapSites[Remap!NewSiteOf(g)].code = remapSites[remapPermits[g].site].code
      BY <3>1, LeavingIs, TargetIs, SiteIs DEF RemapPlan
    <3>3. CASE StaysPut(h)
      <4>1. remapPermits[h].site = Remap!TargetOf(remapPermits[g].site)
        BY <2>2, <3>1, <3>3, NewSiteIs DEF RemapPlan
      <4>2. g \in Remap!Merged
        BY <2>2, <4>1, EqualMerges DEF GoesOnto, RemapPlan
      <4>3. QED
        BY <4>2
    <3>4. CASE SplitsOff(h)
      <4>1. Remap!NewSiteOf(h) = Remap!SplitId(remapPermits[h].site) /\ remapPermits[h].site \in SiteIds
        BY <1>2, <3>4, NewSiteIs, SiteIs DEF RemapPlan
      <4>2. Remap!NewSiteOf(h) \notin SiteIds
        BY <4>1, SplitIdIs DEF RemapPlan
      <4>3. QED
        BY <2>2, <3>2, <4>2
    <3>5. CASE GoesOnto(h)
      <4>1. remapPermits[h].site \in Remap!Joining /\ Remap!NewSiteOf(h) = Remap!TargetOf(remapPermits[h].site)
        BY <3>5, NewSiteIs DEF RemapPlan
      <4>2. remapSites[Remap!NewSiteOf(h)].code = remapSites[remapPermits[h].site].code
        BY <4>1, LeavingIs, TargetIs DEF RemapPlan
      <4>3. /\ remapPermits[g].site \in Remap!Leaving /\ remapPermits[h].site \in Remap!Leaving
            /\ ~remapSites[remapPermits[g].site].ref /\ ~remapSites[remapPermits[h].site].ref
        BY <3>1, <4>1, LeavingIs DEF RemapPlan
      <4>4. QED
        BY <2>2, <3>2, <4>2, <4>3, OneCodeLeaves
    <3>6. QED
      BY <3>3, <3>4, <3>5, NewSiteIs DEF RemapPlan
  <2>3. CASE GoesOnto(p) \/ GoesOnto(q)
    BY <2>1, <2>2, <2>3
  <2>4. CASE SplitsOff(p) /\ SplitsOff(q)
    <3>1. /\ remapPermits[p].site \in SiteIds /\ remapPermits[q].site \in SiteIds
          /\ Remap!SplitId(remapPermits[p].site) = Remap!SplitId(remapPermits[q].site)
      BY <1>2, <2>4, NewSiteIs, SiteIs DEF RemapPlan
    <3>2. QED
      BY <2>1, <3>1, SplitIdIs DEF RemapPlan
  <2>5. ASSUME NEW g \in PermitIds, NEW h \in PermitIds, SplitsOff(g), StaysPut(h)
        PROVE  Remap!NewSiteOf(g) # Remap!NewSiteOf(h)
    <3>1. remapPermits[g].site \in SiteIds /\ Remap!NewSiteOf(g) = Remap!SplitId(remapPermits[g].site)
      BY <1>2, <2>5, NewSiteIs, SiteIs DEF RemapPlan
    <3>2. remapPermits[h].site \in SiteIds /\ Remap!NewSiteOf(h) = remapPermits[h].site
      BY <1>2, <2>5, NewSiteIs, SiteIs DEF RemapPlan
    <3>3. QED
      BY <3>1, <3>2, SplitIdIs DEF RemapPlan
  <2>6. CASE StaysPut(p) /\ StaysPut(q)
    BY <2>1, <2>6, NewSiteIs DEF RemapPlan
  <2>7. QED
    BY <2>3, <2>4, <2>5, <2>6 DEF StaysPut
<1>7. QED
  BY <1>3, <1>4, <1>5, <1>6

\* A listing of a merged permit goes to its equal one, or its dataset lists
\* that one already; no other listing changes.
LEMMA ListingsFit ==
  ASSUME RemapPlan
  PROVE  /\ Remap!ListingsAfter \subseteq [permit : PermitIds \ Remap!Merged, dataset : RemapDatasets, licensee : ListedBy]
         /\ Remap!OneListingPerDataset(Remap!ListingsAfter)
         /\ \A l \in remapListings : l.permit \notin Remap!Merged => l \in Remap!ListingsAfter
         /\ \A l \in remapListings : l.permit \in Remap!Merged =>
              \E k \in Remap!ListingsAfter : k.dataset = l.dataset /\ k.permit = Remap!MergedInto(l.permit)
         /\ \A l \in Remap!ListingsAfter : l \in remapListings \/ \E p \in Remap!Merged : l.permit = Remap!MergedInto(p)
<1> DEFINE Row == [permit : PermitIds, dataset : RemapDatasets, licensee : ListedBy]
           Rows == [permit : PermitIds \ Remap!Merged, dataset : RemapDatasets, licensee : ListedBy]
           free(k) == \A h \in Remap!ListingsOf(Remap!MergedInto(k.permit)) : h.dataset # k.dataset
           carried(l) == [l EXCEPT !.permit = Remap!MergedInto(l.permit)]
           Kept == {l \in remapListings : l.permit \notin Remap!Merged}
           Gone == {k \in remapListings : k.permit \in Remap!Merged /\ free(k)}
<1>1. Remap!ListingsAfter = Kept \cup {carried(l) : l \in Gone}
  BY DEF Remap!ListingsAfter
<1>2. remapListings \subseteq Row
  BY DEF RemapPlan, RemapRows
<1>3. \A l \in remapListings : l.permit \in Remap!Merged =>
        /\ Remap!MergedInto(l.permit) \in PermitIds \ Remap!Merged
        /\ carried(l) \in Rows
        /\ carried(l).permit = Remap!MergedInto(l.permit) /\ carried(l).dataset = l.dataset /\ carried(l).licensee = l.licensee
  <2> SUFFICES ASSUME NEW l \in remapListings, l.permit \in Remap!Merged
               PROVE  /\ Remap!MergedInto(l.permit) \in PermitIds \ Remap!Merged
                      /\ carried(l) \in Rows
                      /\ carried(l).permit = Remap!MergedInto(l.permit) /\ carried(l).dataset = l.dataset /\ carried(l).licensee = l.licensee
    OBVIOUS
  <2>1. Remap!MergedInto(l.permit) \in PermitIds \ Remap!Merged
    BY MergedIs DEF RemapPlan
  <2>2. l \in Row
    BY <1>2
  <2>3. QED
    BY <2>1, <2>2
<1>4. Kept \subseteq Rows
  BY <1>2
<1>5. Remap!ListingsAfter \subseteq Rows
  BY <1>1, <1>3, <1>4
<1>6. \A l \in Remap!ListingsAfter : l \in remapListings \/ \E p \in Remap!Merged : l.permit = Remap!MergedInto(p)
  BY <1>1, <1>3
<1>7. \A l \in remapListings : l.permit \notin Remap!Merged => l \in Remap!ListingsAfter
  BY <1>1
<1>8. ASSUME NEW l \in remapListings, l.permit \in Remap!Merged
      PROVE  \E k \in Remap!ListingsAfter : k.dataset = l.dataset /\ k.permit = Remap!MergedInto(l.permit)
  <2>1. CASE free(l)
    <3>1. carried(l) \in Remap!ListingsAfter
      BY <1>1, <1>8, <2>1
    <3>2. QED
      BY <1>3, <1>8, <3>1
  <2>2. CASE ~free(l)
    <3>1. PICK h \in Remap!ListingsOf(Remap!MergedInto(l.permit)) : h.dataset = l.dataset
      BY <2>2
    <3>2. h \in remapListings /\ h.permit = Remap!MergedInto(l.permit)
      BY <3>1 DEF Remap!ListingsOf
    <3>3. h \in Remap!ListingsAfter
      BY <1>3, <1>7, <1>8, <3>2
    <3>4. QED
      BY <3>1, <3>2, <3>3
  <2>3. QED
    BY <2>1, <2>2
<1>9. \A l, k \in remapListings : l.permit = k.permit /\ l.dataset = k.dataset => l = k
  BY DEF RemapPlan, RemapRows, Remap!OneListingPerDataset
<1>10. ASSUME NEW p \in Remap!Merged, NEW q \in Remap!Merged, Remap!MergedInto(p) = Remap!MergedInto(q)
       PROVE  p = q
  <2>1. /\ p \in PermitIds /\ q \in PermitIds /\ p \in Remap!MovingOnto /\ q \in Remap!MovingOnto
        /\ remapPermits[p].values = remapPermits[q].values
        /\ Remap!TargetOf(remapPermits[p].site) = Remap!TargetOf(remapPermits[q].site)
    BY <1>10, MergedIs DEF RemapPlan
  <2>2. remapPermits[p].site \in Remap!Joining /\ remapPermits[q].site \in Remap!Joining
    BY <2>1, MovingIs DEF RemapPlan
  <2>3. remapSites[remapPermits[p].site].code = remapSites[remapPermits[q].site].code
    BY <2>1, <2>2, LeavingIs, TargetIs DEF RemapPlan
  <2>4. remapPermits[p].site = remapPermits[q].site
    BY <2>2, <2>3, LeavingIs, OneCodeLeaves DEF RemapPlan
  <2>5. QED
    BY <2>1, <2>4, PermitIs DEF RemapPlan
<1>11. Remap!OneListingPerDataset(Remap!ListingsAfter)
  <2> SUFFICES ASSUME NEW l \in Remap!ListingsAfter, NEW k \in Remap!ListingsAfter,
                      l.permit = k.permit, l.dataset = k.dataset
               PROVE  l = k
    BY DEF Remap!OneListingPerDataset
  <2>1. ASSUME NEW g \in Gone, NEW h \in Kept
        PROVE  ~(carried(g).permit = h.permit /\ carried(g).dataset = h.dataset)
    <3>1. h.permit = Remap!MergedInto(g.permit) => h \in Remap!ListingsOf(Remap!MergedInto(g.permit))
      BY DEF Remap!ListingsOf
    <3>2. free(g) /\ carried(g).permit = Remap!MergedInto(g.permit) /\ carried(g).dataset = g.dataset
      BY <1>3
    <3>3. QED
      BY <3>1, <3>2
  <2>2. ASSUME NEW g \in Gone, NEW h \in Gone, carried(g).permit = carried(h).permit, carried(g).dataset = carried(h).dataset
        PROVE  carried(g) = carried(h)
    <3>1. Remap!MergedInto(g.permit) = Remap!MergedInto(h.permit) /\ g.dataset = h.dataset
      BY <1>3, <2>2
    <3>2. g.permit = h.permit
      BY <1>10, <3>1
    <3>3. QED
      BY <1>9, <3>1, <3>2
  <2>3. \A g, h \in Kept : g.permit = h.permit /\ g.dataset = h.dataset => g = h
    BY <1>9
  <2>4. (l \in Kept \/ \E g \in Gone : l = carried(g)) /\ (k \in Kept \/ \E h \in Gone : k = carried(h))
    BY <1>1
  <2> HIDE DEF carried, Kept, Gone
  <2>5. QED
    BY <2>1, <2>2, <2>3, <2>4
<1>12. QED
  BY <1>5, <1>6, <1>7, <1>8, <1>11

\* Who follows a site that is emptied follows the one it was merged into, and
\* every notice names a site that is there.
LEMMA FollowersFit ==
  ASSUME RemapPlan
  PROVE  /\ Remap!Repointed \cup (linked \ Remap!Emptied) \cup {n.site : n \in Remap!NoticesAfter} \subseteq DOMAIN Remap!SitesAfter
         /\ \A s \in follows : IF s \in Remap!Emptied THEN Remap!TargetOf(s) \in Remap!Repointed ELSE s \in Remap!Repointed
<1>1. \A s \in DOMAIN remapSites \ Remap!Emptied : s \in DOMAIN Remap!SitesAfter
  BY SitesAfterAre DEF RemapPlan, ComesFrom
<1>2. \A s \in Remap!Emptied : Remap!TargetOf(s) \in DOMAIN remapSites \ Remap!Emptied
  BY LeavingIs, TargetIs DEF RemapPlan
<1>3. /\ follows \subseteq DOMAIN remapSites /\ linked \subseteq DOMAIN remapSites
      /\ notices \subseteq [site : DOMAIN remapSites, read : BOOLEAN]
  BY DEF RemapPlan, RemapRows
<1>4. Remap!Repointed \subseteq DOMAIN Remap!SitesAfter
  BY <1>1, <1>2, <1>3 DEF Remap!Repointed
<1>5. \A n \in Remap!NoticesAfter :
        \/ n \in notices /\ n.site \notin Remap!Emptied
        \/ \E k \in notices : k.site \in Remap!Emptied /\ n = [k EXCEPT !.site = Remap!TargetOf(k.site)]
  BY DEF Remap!NoticesAfter
<1>6. \A k \in notices : \A t : [k EXCEPT !.site = t].site = t
  BY <1>3
<1>7. {n.site : n \in Remap!NoticesAfter} \subseteq DOMAIN Remap!SitesAfter
  <2> SUFFICES ASSUME NEW n \in Remap!NoticesAfter PROVE n.site \in DOMAIN Remap!SitesAfter
    OBVIOUS
  <2>1. CASE n \in notices /\ n.site \notin Remap!Emptied
    BY <1>1, <1>3, <2>1
  <2>2. CASE \E k \in notices : k.site \in Remap!Emptied /\ n = [k EXCEPT !.site = Remap!TargetOf(k.site)]
    BY <1>1, <1>2, <1>6, <2>2
  <2>3. QED
    BY <1>5, <2>1, <2>2
<1>8. \A s \in follows : IF s \in Remap!Emptied THEN Remap!TargetOf(s) \in Remap!Repointed ELSE s \in Remap!Repointed
  BY DEF Remap!Repointed
<1>9. QED
  BY <1>1, <1>3, <1>4, <1>7, <1>8

\* A remap that is carried out.
RemapMoves ==
  /\ RemapPlan
  /\ Remap!MoveToOperator
  /\ operatorOf' = [operatorOf EXCEPT ![Licensee] = to]
  /\ to' = to /\ remapBefore' = remapBefore
  /\ remapBefore = [sites |-> remapSites, permits |-> remapPermits, listings |-> remapListings, follows |-> follows]

LEMMA MovesTo ==
  ASSUME RemapMoves
  PROVE  /\ remapSites' = Remap!SitesAfter /\ remapPermits' = Remap!PermitsAfter /\ remapListings' = Remap!ListingsAfter
         /\ follows' = Remap!Repointed /\ linked' = linked \ Remap!Emptied /\ notices' = Remap!NoticesAfter
         /\ remapBefore'.sites = remapSites /\ remapBefore'.permits = remapPermits
         /\ remapBefore'.listings = remapListings /\ remapBefore'.follows = follows
BY DEF RemapMoves, Remap!MoveToOperator

\* Whom a listing names, before and after.
LEMMA NamedAs ==
  ASSUME RemapMoves, NEW l \in remapListings
  PROVE  /\ l.licensee # None /\ l.licensee # Licensee => operatorOf'[l.licensee] = operatorOf[l.licensee]
         /\ operatorOf'[Licensee] = to /\ Licensee # None
<1>1. l.licensee \in Others \cup {Licensee, None} /\ Licensee # None
  BY DEF RemapMoves, RemapPlan, RemapRows, Remap!RemapAssumption
<1>2. operatorOf \in [Others \cup {Licensee} -> RemapOperators \cup {None}]
  BY DEF RemapMoves, RemapPlan, RemapRows
<1>3. operatorOf' = [operatorOf EXCEPT ![Licensee] = to]
  BY DEF RemapMoves
<1>4. QED
  BY <1>1, <1>2, <1>3

\* The permits that are to move are those that belong to the new operator by
\* the rows before.
LEMMA BelongsIsMoving ==
  ASSUME RemapMoves, NEW p \in PermitIds
  PROVE  (Remap!BelongsToNew(p))' <=> p \in Remap!Moving(remapPermits[p].site)
<1> DEFINE s == remapPermits[p].site
           named(l) == IF l.licensee = None THEN remapSites[s].operator ELSE operatorOf'[l.licensee]
           of == {l \in remapListings : l.permit = p}
<1>1. (Remap!BelongsToNew(p))' <=> /\ \E l \in of : l.licensee = Licensee
                                   /\ \A l \in of : named(l) = to
  BY MovesTo DEF Remap!BelongsToNew, RemapMoves
<1>2. of = Remap!ListingsOf(p)
  BY DEF Remap!ListingsOf
<1>3. \A l \in of : named(l) = to <=> l.licensee = Licensee \/ Remap!NamedOperator(l, s) = to
  <2> SUFFICES ASSUME NEW l \in of
               PROVE  named(l) = to <=> l.licensee = Licensee \/ Remap!NamedOperator(l, s) = to
    OBVIOUS
  <2>1. /\ l.licensee # None /\ l.licensee # Licensee => operatorOf'[l.licensee] = operatorOf[l.licensee]
        /\ operatorOf'[Licensee] = to /\ Licensee # None
    BY NamedAs
  <2>2. QED
    BY <2>1 DEF Remap!NamedOperator
<1>4. p \in Remap!PermitsOf(s)
  BY MovingIs DEF RemapMoves, RemapPlan
<1>5. p \in Remap!Moving(s) <=> /\ \E l \in of : l.licensee = Licensee
                               /\ \A l \in of : l.licensee = Licensee \/ Remap!NamedOperator(l, s) = to
  BY <1>2, <1>4 DEF Remap!Moving, Remap!FollowsTheLicensee
<1>6. QED
  BY <1>1, <1>3, <1>5

LEMMA GoesAlongIs ==
  ASSUME RemapMoves, NEW p \in PermitIds
  PROVE  (Remap!GoesAlong(p))' <=> (remapSites[remapPermits[p].site].ref => Remap!EveryPermitMoves(remapPermits[p].site))
<1> DEFINE s == remapPermits[p].site
<1>1. (Remap!GoesAlong(p))' <=>
        (remapSites[s].ref => \A q \in PermitIds : remapPermits[q].site = s => (Remap!BelongsToNew(q))')
  BY MovesTo DEF Remap!GoesAlong
<1>2. Remap!EveryPermitMoves(s) <=> \A q \in PermitIds : remapPermits[q].site = s => q \in Remap!Moving(s)
  <2>1. Remap!Moving(s) \subseteq Remap!PermitsOf(s)
    BY MovingIs DEF RemapMoves, RemapPlan
  <2>2. \A q : q \in Remap!PermitsOf(s) <=> q \in PermitIds /\ remapPermits[q].site = s
    BY MovingIs DEF RemapMoves, RemapPlan
  <2>3. QED
    BY <2>1, <2>2 DEF Remap!EveryPermitMoves
<1>3. \A q \in PermitIds : remapPermits[q].site = s => ((Remap!BelongsToNew(q))' <=> q \in Remap!Moving(s))
  BY BelongsIsMoving
<1>4. QED
  BY <1>1, <1>2, <1>3

\* A permit is now where it, or the equal one it was merged into, went.
LEMMA IsNowOn ==
  ASSUME RemapMoves, NEW p \in PermitIds, NEW q \in PermitIds \ Remap!Merged,
         remapPermits[q].values = remapPermits[p].values, q = p \/ p \in Remap!Merged,
         NEW s, s = Remap!NewSiteOf(q)
  PROVE  (Remap!NowOn(p, s))'
<1>1. RemapPlan
  BY DEF RemapMoves
<1>2. /\ DOMAIN remapPermits' = PermitIds \ Remap!Merged
      /\ remapPermits'[q] = [site |-> Remap!NewSiteOf(q), values |-> remapPermits[q].values]
      /\ remapBefore'.permits = remapPermits
  BY <1>1, MovesTo, PermitsFit
<1>3. /\ q \in DOMAIN remapPermits' /\ (q = p \/ p \notin DOMAIN remapPermits')
      /\ remapPermits'[q] = [site |-> s, values |-> remapBefore'.permits[p].values]
  BY <1>2
<1>4. QED
  BY <1>3 DEF Remap!NowOn

LEMMA ArrivesOnto ==
  ASSUME RemapMoves, NEW p \in Remap!MovingOnto, NEW target, target = Remap!TargetOf(remapPermits[p].site)
  PROVE  (Remap!NowOn(p, target))'
<1>1. RemapPlan /\ Remap!RemapAssumption /\ RemapRows
  BY DEF RemapMoves, RemapPlan
<1>2. p \in PermitIds /\ remapPermits[p].site \in Remap!Joining
  BY <1>1, MovingIs
<1>3. CASE p \notin Remap!Merged
  <2>1. Remap!NewSiteOf(p) = target
    BY <1>1, <1>2, NewSiteIs DEF GoesOnto
  <2>2. QED
    BY <1>2, <1>3, <2>1, IsNowOn
<1>4. CASE p \in Remap!Merged
  <2> PICK q : q = Remap!MergedInto(p)
    OBVIOUS
  <2>1. q \in PermitIds \ Remap!Merged /\ remapPermits[q].site = target /\ remapPermits[q].values = remapPermits[p].values
    BY <1>1, <1>4, MergedIs
  <2>2. target \notin Remap!Leaving
    BY <1>1, <1>2, LeavingIs
  <2>3. StaysPut(q)
    BY <1>1, <2>1, <2>2, LeavingIs, MovingIs DEF StaysPut, GoesOnto, SplitsOff
  <2>4. Remap!NewSiteOf(q) = target
    BY <1>1, <2>1, <2>3, NewSiteIs
  <2>5. QED
    BY <1>2, <1>4, <2>1, <2>4, IsNowOn
<1>5. QED
  BY <1>3, <1>4

\* A permit that moves off a site that leaves takes the site along or goes to
\* another one of the new operator; any other stays on the site as it was.
LEMMA PermitArrives ==
  ASSUME RemapMoves, NEW p \in PermitIds, NEW old, old = remapPermits[p].site,
         remapSites[old].operator # to, p \in Remap!Moving(old),
         remapSites[old].ref => Remap!EveryPermitMoves(old)
  PROVE  \E s \in DOMAIN remapSites' :
            /\ (Remap!NowOn(p, s))'
            /\ remapSites'[s].operator = to /\ remapSites'[s].code = remapSites[old].code
<1>0. RemapPlan /\ Remap!RemapAssumption /\ RemapRows
  BY DEF RemapMoves, RemapPlan
<1>1. old \in DOMAIN remapSites
  BY <1>0, PermitIs
<1>2. old \in Remap!Leaving
  <2>1. PICK l \in Remap!ListingsOf(p) : l.licensee = Licensee
    BY DEF Remap!Moving
  <2>2. l \in remapListings /\ l.permit = p
    BY <2>1 DEF Remap!ListingsOf
  <2>3. old \in Remap!ListedSites
    BY <2>1, <2>2 DEF Remap!ListedSites
  <2>4. QED
    BY <2>3 DEF Remap!Leaving
<1>5. ASSUME NEW n, NEW s, ComesFrom(n, s)
      PROVE  /\ n \in DOMAIN remapSites' /\ remapSites'[n].code = remapSites[s].code
             /\ s \in Remap!Rekeyed \/ s # n => remapSites'[n].operator = to
             /\ s \notin Remap!Rekeyed /\ s = n => remapSites'[n].operator = remapSites[s].operator
  <2>1. n \in DOMAIN Remap!SitesAfter
    BY <1>0, <1>5, SiteAfterIs
  <2>2. /\ Remap!SitesAfter[n].code = remapSites[s].code
        /\ Remap!SitesAfter[n].operator = IF s \in Remap!Rekeyed \/ s # n THEN to ELSE remapSites[s].operator
    BY <1>0, <1>5, SiteAfterIs
  <2>3. QED
    BY <2>1, <2>2, MovesTo
<1>6. CASE old \in Remap!Rekeyed
  <2>1. StaysPut(p)
    BY <1>0, <1>6, LeavingIs, MovingIs DEF StaysPut, GoesOnto, SplitsOff
  <2>2. Remap!NewSiteOf(p) = old /\ p \notin Remap!Merged /\ old \notin Remap!Emptied
    BY <1>0, <2>1, NewSiteIs
  <2>3. (Remap!NowOn(p, old))'
    BY <2>2, IsNowOn
  <2>4. ComesFrom(old, old)
    BY <1>1, <2>2 DEF ComesFrom
  <2>5. QED
    BY <1>5, <1>6, <2>3, <2>4
<1>7. CASE old \in Remap!Split
  <2>1. SplitsOff(p)
    BY <1>7 DEF SplitsOff
  <2>2. Remap!NewSiteOf(p) = Remap!SplitId(old) /\ p \notin Remap!Merged
    BY <1>0, <2>1, NewSiteIs
  <2> PICK n : n = Remap!SplitId(old)
    OBVIOUS
  <2>3. (Remap!NowOn(p, n))'
    BY <2>2, IsNowOn
  <2>4. ComesFrom(n, old)
    BY <1>7 DEF ComesFrom
  <2>5. n # old
    BY <1>0, <1>1, SiteIs, SplitIdIs
  <2>6. QED
    BY <1>5, <2>3, <2>4, <2>5
<1>8. CASE old \in Remap!Joining
  <2> PICK target : target = Remap!TargetOf(old)
    OBVIOUS
  <2>1. GoesOnto(p) /\ Remap!NewSiteOf(p) = target
    BY <1>0, <1>8, MovingIs, NewSiteIs DEF GoesOnto
  <2>2. /\ target \in DOMAIN remapSites /\ target \notin Remap!Leaving
        /\ remapSites[target].operator = to /\ remapSites[target].code = remapSites[old].code
    BY <1>0, <1>8, LeavingIs, TargetIs
  <2>3. target \notin Remap!Emptied /\ target \notin Remap!Rekeyed /\ target \notin Remap!Joining
    BY <1>0, <2>2, LeavingIs
  <2>4. ComesFrom(target, target)
    BY <2>2, <2>3 DEF ComesFrom
  <2>5. (Remap!NowOn(p, target))'
    BY <2>1, ArrivesOnto DEF GoesOnto
  <2>6. QED
    BY <1>5, <2>2, <2>4, <2>5
<1>9. old \in Remap!Rekeyed \/ old \in Remap!Split \/ old \in Remap!Joining
  <2>1. Remap!HasOwnName(old) => Remap!EveryPermitMoves(old)
    BY <1>0, <1>1, SiteIs
  <2>2. QED
    BY <1>2, <2>1 DEF Remap!Rekeyed, Remap!Split, Remap!Joining
<1>10. QED
  BY <1>6, <1>7, <1>8, <1>9

LEMMA PermitRemains ==
  ASSUME RemapMoves, NEW p \in PermitIds, NEW old, old = remapPermits[p].site,
         \/ remapSites[old].operator = to
         \/ p \notin Remap!Moving(old)
         \/ remapSites[old].ref /\ ~Remap!EveryPermitMoves(old)
  PROVE  /\ p \in DOMAIN remapPermits' /\ (Remap!Keeps(p, old))'
         /\ old \in DOMAIN remapSites' /\ remapSites'[old] = remapSites[old]
<1>0. RemapPlan /\ Remap!RemapAssumption /\ RemapRows
  BY DEF RemapMoves, RemapPlan
<1>1. old \in DOMAIN remapSites
  BY <1>0, PermitIs
<1>2. p \in Remap!PermitsOf(old)
  BY <1>0, MovingIs
<1>3. old \notin Remap!Rekeyed
  BY <1>0, <1>2, LeavingIs DEF Remap!EveryPermitMoves
<1>4. StaysPut(p)
  BY <1>0, LeavingIs, MovingIs DEF StaysPut, GoesOnto, SplitsOff
<1>5. Remap!NewSiteOf(p) = old /\ p \notin Remap!Merged /\ old \notin Remap!Emptied
  BY <1>0, <1>4, NewSiteIs
<1>6. ComesFrom(old, old)
  BY <1>1, <1>5 DEF ComesFrom
<1>7. old \in DOMAIN remapSites' /\ remapSites'[old] = remapSites[old]
  <2>1. old \in DOMAIN Remap!SitesAfter
    BY <1>0, <1>6, SiteAfterIs
  <2>2. Remap!SitesAfter[old] = remapSites[old]
    BY <1>0, <1>3, <1>6, SiteAfterIs
  <2>3. QED
    BY <2>1, <2>2, MovesTo
<1>8. p \in DOMAIN remapPermits' /\ remapPermits'[p] = [site |-> old, values |-> remapBefore'.permits[p].values]
  <2>1. /\ DOMAIN Remap!PermitsAfter = PermitIds \ Remap!Merged
        /\ \A q \in PermitIds \ Remap!Merged :
             Remap!PermitsAfter[q] = [site |-> Remap!NewSiteOf(q), values |-> remapPermits[q].values]
    BY <1>0, PermitsFit
  <2>2. p \in DOMAIN Remap!PermitsAfter /\ Remap!PermitsAfter[p] = [site |-> old, values |-> remapPermits[p].values]
    BY <1>5, <2>1
  <2>3. QED
    BY <2>2, MovesTo
<1>9. QED
  BY <1>7, <1>8 DEF Remap!Keeps

\* A permit stays under its code.
LEMMA CodeStays ==
  ASSUME RemapPlan, NEW p \in PermitIds
  PROVE  Remap!SitesAfter[Remap!NewSiteOf(p)].code = remapSites[remapPermits[p].site].code
<1>1. Remap!RemapAssumption /\ RemapRows
  BY DEF RemapPlan
<1>2. remapPermits[p].site \in DOMAIN remapSites
  BY <1>1, PermitIs
<1>3. CASE GoesOnto(p)
  <2>1. remapPermits[p].site \in Remap!Joining /\ Remap!NewSiteOf(p) = Remap!TargetOf(remapPermits[p].site)
    BY <1>1, <1>3, NewSiteIs
  <2>2. /\ Remap!NewSiteOf(p) \in DOMAIN remapSites /\ Remap!NewSiteOf(p) \notin Remap!Leaving
        /\ remapSites[Remap!NewSiteOf(p)].code = remapSites[remapPermits[p].site].code
    BY <1>1, <2>1, LeavingIs, TargetIs
  <2>3. ComesFrom(Remap!NewSiteOf(p), Remap!NewSiteOf(p))
    BY <1>1, <2>2, LeavingIs DEF ComesFrom
  <2>4. QED
    BY <2>2, <2>3, SiteAfterIs
<1>4. CASE SplitsOff(p)
  <2>1. ComesFrom(Remap!NewSiteOf(p), remapPermits[p].site)
    BY <1>1, <1>4, NewSiteIs DEF ComesFrom, SplitsOff
  <2>2. QED
    BY <2>1, SiteAfterIs
<1>5. CASE StaysPut(p)
  <2>1. ComesFrom(Remap!NewSiteOf(p), remapPermits[p].site)
    BY <1>1, <1>2, <1>5, NewSiteIs DEF ComesFrom
  <2>2. QED
    BY <2>1, SiteAfterIs
<1>6. QED
  BY <1>3, <1>4, <1>5 DEF StaysPut

\* A site that is still there and had permits has one.
LEMMA SomePermitStays ==
  ASSUME RemapPlan, NEW s \in DOMAIN remapSites, s \in DOMAIN Remap!SitesAfter, NEW p \in Remap!PermitsOf(s)
  PROVE  \E q \in PermitIds \ Remap!Merged : Remap!NewSiteOf(q) = s
<1>1. Remap!RemapAssumption /\ RemapRows
  BY DEF RemapPlan
<1>2. s \notin Remap!Emptied
  <2>1. PICK r \in DOMAIN remapSites : ComesFrom(s, r)
    BY <1>1, SitesAfterAre
  <2>2. s \in SiteIds /\ r \in SiteIds
    BY <1>1, SiteIs
  <2>3. s # Remap!SplitId(r)
    BY <1>1, <2>2, SplitIdIs
  <2>4. QED
    BY <2>1, <2>3 DEF ComesFrom
<1>3. \A q \in Remap!PermitsOf(s) : q \in PermitIds /\ remapPermits[q].site = s
  BY <1>1, MovingIs
<1>4. CASE \E q \in Remap!PermitsOf(s) : StaysPut(q)
  BY <1>1, <1>3, <1>4, NewSiteIs
<1>5. CASE \A q \in Remap!PermitsOf(s) : ~StaysPut(q)
  <2>1. \A q \in Remap!PermitsOf(s) : q \in Remap!Moving(s) /\ (s \in Remap!Joining \/ s \in Remap!Split)
    BY <1>1, <1>3, <1>5, MovingIs DEF StaysPut, GoesOnto, SplitsOff
  <2>2. Remap!EveryPermitMoves(s)
    BY <1>1, <2>1, MovingIs DEF Remap!EveryPermitMoves
  <2>3. s \notin Remap!Split
    BY <1>1, <2>2, LeavingIs
  <2>4. s \in Remap!Emptied
    BY <2>1, <2>2, <2>3 DEF Remap!Emptied
  <2>5. QED
    BY <1>2, <2>4
<1>6. QED
  BY <1>4, <1>5

\* What the remap leaves behind fits together.
LEMMA RemapFitsTogether ==
  ASSUME RemapMoves
  PROVE  Remap!RowsFitTogether'
<1>1. RemapPlan /\ Remap!RemapAssumption /\ RemapRows
  BY DEF RemapMoves, RemapPlan
<1>2. /\ DOMAIN remapSites' \subseteq Remap!AllSites /\ \A s \in DOMAIN remapSites' : remapSites'[s] \in Remap!SiteRow
      /\ Remap!SiteHasName(remapSites') /\ Remap!OneSitePerCodeAndOperator(remapSites')
  BY <1>1, SitesFit, MovesTo
<1>3. \A p \in DOMAIN remapPermits' : remapPermits'[p].site \in DOMAIN remapSites'
  <2> SUFFICES ASSUME NEW p \in PermitIds \ Remap!Merged PROVE Remap!PermitsAfter[p].site \in DOMAIN Remap!SitesAfter
    BY <1>1, PermitsFit, MovesTo
  <2>1. PICK s \in DOMAIN remapSites : ComesFrom(Remap!NewSiteOf(p), s)
    BY <1>1, PermitsFit
  <2>2. Remap!NewSiteOf(p) \in DOMAIN Remap!SitesAfter
    BY <1>1, <2>1, SiteAfterIs
  <2>3. Remap!PermitsAfter[p] = [site |-> Remap!NewSiteOf(p), values |-> remapPermits[p].values]
    BY <1>1, PermitsFit
  <2>4. QED
    BY <2>2, <2>3
<1>4. Remap!OnePermitPerValues(remapPermits')
  BY <1>1, PermitsFit, MovesTo
<1>5. \A l \in remapListings' : l.permit \in DOMAIN remapPermits'
  BY <1>1, ListingsFit, PermitsFit, MovesTo
<1>6. Remap!OneListingPerDataset(remapListings')
  BY <1>1, ListingsFit, MovesTo
<1>7. follows' \cup linked' \cup {n.site : n \in notices'} \subseteq DOMAIN remapSites'
  BY <1>1, FollowersFit, MovesTo
<1>8. QED
  BY <1>2, <1>3, <1>4, <1>5, <1>6, <1>7
     DEF Remap!RowsFitTogether

LEMMA RemapFollows ==
  ASSUME RemapMoves
  PROVE  Remap!PermitsFollowTheLicensee'
<1>1. RemapPlan /\ Remap!RemapAssumption /\ RemapRows
  BY DEF RemapMoves, RemapPlan
<1> SUFFICES ASSUME NEW p \in PermitIds
             PROVE  (LET old == remapBefore.permits[p].site
                     IN  IF remapBefore.sites[old].operator # to /\ Remap!BelongsToNew(p) /\ Remap!GoesAlong(p)
                         THEN \E s \in DOMAIN remapSites :
                                 /\ Remap!NowOn(p, s)
                                 /\ remapSites[s].operator = to /\ remapSites[s].code = remapBefore.sites[old].code
                         ELSE /\ p \in DOMAIN remapPermits /\ Remap!Keeps(p, old)
                              /\ remapSites[old] = remapBefore.sites[old])'
  BY DEF Remap!PermitsFollowTheLicensee
<1> PICK old : old = remapPermits[p].site
  OBVIOUS
<1>2. remapBefore'.permits[p].site = old /\ remapBefore'.sites = remapSites /\ to' = to
  BY MovesTo DEF RemapMoves
<1>3. (Remap!BelongsToNew(p))' <=> p \in Remap!Moving(old)
  BY BelongsIsMoving
<1>4. (Remap!GoesAlong(p))' <=> (remapSites[old].ref => Remap!EveryPermitMoves(old))
  BY GoesAlongIs
<1>5. CASE remapSites[old].operator # to /\ (Remap!BelongsToNew(p))' /\ (Remap!GoesAlong(p))'
  <2>1. \E s \in DOMAIN remapSites' :
            /\ (Remap!NowOn(p, s))'
            /\ remapSites'[s].operator = to /\ remapSites'[s].code = remapSites[old].code
    BY <1>3, <1>4, <1>5, PermitArrives
  <2>2. QED
    BY <1>2, <1>5, <2>1
<1>6. CASE ~(remapSites[old].operator # to /\ (Remap!BelongsToNew(p))' /\ (Remap!GoesAlong(p))')
  <2>1. p \in DOMAIN remapPermits' /\ (Remap!Keeps(p, old))' /\ remapSites'[old] = remapSites[old]
    BY <1>3, <1>4, <1>6, PermitRemains
  <2>2. (Remap!Keeps(p, old))' <=> remapPermits'[p] = [site |-> old, values |-> remapBefore'.permits[p].values]
    BY DEF Remap!Keeps
  <2>3. QED
    BY <1>2, <1>6, <2>1, <2>2 DEF Remap!Keeps
<1>7. QED
  BY <1>5, <1>6

LEMMA RemapKeepsListings ==
  ASSUME RemapMoves
  PROVE  Remap!NoListingLost'
<1>1. RemapPlan /\ Remap!RemapAssumption /\ RemapRows
  BY DEF RemapMoves, RemapPlan
<1> SUFFICES ASSUME NEW l \in remapListings
             PROVE  \E k \in remapListings' :
                      /\ k.dataset = l.dataset
                      /\ remapPermits'[k.permit].values = remapPermits[l.permit].values
                      /\ remapSites'[remapPermits'[k.permit].site].code = remapSites[remapPermits[l.permit].site].code
                      /\ k.permit = l.permit \/ l.permit \notin DOMAIN remapPermits'
  <2>1. to' # None
    BY DEF RemapMoves, RemapPlan
  <2>2. QED
    BY <2>1, MovesTo DEF Remap!NoListingLost
<1>2. l.permit \in PermitIds
  BY <1>1 DEF RemapRows
<1>3. \A p \in PermitIds \ Remap!Merged :
        /\ remapPermits'[p].values = remapPermits[p].values
        /\ remapSites'[remapPermits'[p].site].code = remapSites[remapPermits[p].site].code
  <2> SUFFICES ASSUME NEW p \in PermitIds \ Remap!Merged
               PROVE  /\ remapPermits'[p].values = remapPermits[p].values
                      /\ remapSites'[remapPermits'[p].site].code = remapSites[remapPermits[p].site].code
    OBVIOUS
  <2>1. Remap!PermitsAfter[p] = [site |-> Remap!NewSiteOf(p), values |-> remapPermits[p].values]
    BY <1>1, PermitsFit
  <2>2. Remap!SitesAfter[Remap!NewSiteOf(p)].code = remapSites[remapPermits[p].site].code
    BY <1>1, CodeStays
  <2>3. QED
    BY <2>1, <2>2, MovesTo
<1>4. CASE l.permit \notin Remap!Merged
  <2>1. l \in remapListings'
    BY <1>1, <1>4, ListingsFit, MovesTo
  <2>2. QED
    BY <1>2, <1>3, <1>4, <2>1
<1>5. CASE l.permit \in Remap!Merged
  <2>1. PICK k \in remapListings' : k.dataset = l.dataset /\ k.permit = Remap!MergedInto(l.permit)
    BY <1>1, <1>5, ListingsFit, MovesTo
  <2>2. /\ k.permit \in PermitIds \ Remap!Merged
        /\ remapPermits[k.permit].site = Remap!TargetOf(remapPermits[l.permit].site)
        /\ remapPermits[k.permit].values = remapPermits[l.permit].values
        /\ l.permit \in Remap!MovingOnto
    BY <1>1, <1>5, <2>1, MergedIs
  <2>3. remapSites[remapPermits[k.permit].site].code = remapSites[remapPermits[l.permit].site].code
    BY <1>1, <2>2, MovingIs, LeavingIs, TargetIs
  <2>4. l.permit \notin DOMAIN remapPermits'
    BY <1>1, <1>5, PermitsFit, MovesTo
  <2>5. QED
    BY <1>3, <2>1, <2>2, <2>3, <2>4
<1>6. QED
  BY <1>4, <1>5

LEMMA RemapLeavesNoGhosts ==
  ASSUME RemapMoves
  PROVE  Remap!NoGhostSites'
<1>1. RemapPlan /\ Remap!RemapAssumption /\ RemapRows
  BY DEF RemapMoves, RemapPlan
<1> SUFFICES ASSUME NEW s \in DOMAIN remapSites, NEW p \in PermitIds, remapPermits[p].site = s
             PROVE  /\ s \in DOMAIN remapSites' => \E q \in DOMAIN remapPermits' : remapPermits'[q].site = s
                    /\ s \in follows =>
                         \E t \in follows' \cap DOMAIN remapSites' :
                           t = s \/ \A q \in {q \in PermitIds : remapPermits[q].site = s} : (Remap!NowOn(q, t))'
  BY MovesTo DEF Remap!NoGhostSites, Remap!PermitsOf
<1>2. s \in DOMAIN remapSites' => \E q \in DOMAIN remapPermits' : remapPermits'[q].site = s
  <2> SUFFICES ASSUME s \in DOMAIN Remap!SitesAfter
               PROVE  \E q \in DOMAIN Remap!PermitsAfter : Remap!PermitsAfter[q].site = s
    BY MovesTo
  <2>1. p \in Remap!PermitsOf(s)
    BY <1>1, MovingIs
  <2>2. PICK q \in PermitIds \ Remap!Merged : Remap!NewSiteOf(q) = s
    BY <1>1, <2>1, SomePermitStays
  <2>3. /\ q \in DOMAIN Remap!PermitsAfter
        /\ Remap!PermitsAfter[q] = [site |-> Remap!NewSiteOf(q), values |-> remapPermits[q].values]
    BY <1>1, PermitsFit
  <2>4. QED
    BY <2>2, <2>3
<1>3. ASSUME s \in follows
      PROVE  \E t \in follows' \cap DOMAIN remapSites' :
               t = s \/ \A q \in {q \in PermitIds : remapPermits[q].site = s} : (Remap!NowOn(q, t))'
  <2>1. Remap!Repointed \subseteq DOMAIN Remap!SitesAfter
    BY <1>1, FollowersFit
  <2>2. CASE s \notin Remap!Emptied
    <3>1. s \in Remap!Repointed
      BY <1>1, <1>3, <2>2, FollowersFit
    <3>2. QED
      BY <2>1, <3>1, MovesTo
  <2>3. CASE s \in Remap!Emptied
    <3> PICK t : t = Remap!TargetOf(s)
      OBVIOUS
    <3>1. t \in follows' \cap DOMAIN remapSites'
      BY <1>1, <1>3, <2>1, <2>3, FollowersFit, MovesTo
    <3>2. s \in Remap!Joining /\ Remap!EveryPermitMoves(s)
      BY <2>3 DEF Remap!Emptied
    <3>3. \A q \in PermitIds : remapPermits[q].site = s => q \in Remap!MovingOnto
      BY <1>1, <3>2, MovingIs DEF Remap!EveryPermitMoves
    <3>4. \A q \in PermitIds : remapPermits[q].site = s => (Remap!NowOn(q, t))'
      BY <3>3, ArrivesOnto
    <3>5. QED
      BY <3>1, <3>4
  <2>4. QED
    BY <2>2, <2>3
<1>4. QED
  BY <1>2, <1>3

\* Nothing is left to move: of a site that still lists the licensee only some
\* permits would go, and it has a name of its own.
NothingMoves == Remap!Rekeyed = {} /\ Remap!Split = {} /\ Remap!Joining = {}

\* What moves after the remap had moved then.
LEMMA MovedBefore ==
  ASSUME RemapMoves, NEW s, NEW p, s \in DOMAIN remapSites', remapSites'[s].operator # to, (p \in Remap!Moving(s))'
  PROVE  /\ s \in DOMAIN remapSites /\ remapSites'[s] = remapSites[s] /\ s \notin Remap!Rekeyed
         /\ p \in PermitIds /\ StaysPut(p) /\ remapPermits[p].site = s
         /\ p \in Remap!Moving(s)
<1>1. RemapPlan /\ Remap!RemapAssumption /\ RemapRows
  BY DEF RemapMoves, RemapPlan
<1>2. PICK r \in DOMAIN remapSites : ComesFrom(s, r)
  BY <1>1, SitesAfterAre, MovesTo
<1>3. s = r /\ s \notin Remap!Rekeyed /\ remapSites'[s] = remapSites[s]
  BY <1>1, <1>2, SiteAfterIs, MovesTo
<1>4. p \in DOMAIN remapPermits' /\ remapPermits'[p].site = s
  BY DEF Remap!Moving, Remap!PermitsOf
<1>5. p \in PermitIds \ Remap!Merged /\ Remap!NewSiteOf(p) = s
  <2>1. p \in PermitIds \ Remap!Merged
    BY <1>1, <1>4, PermitsFit, MovesTo
  <2>2. Remap!PermitsAfter[p] = [site |-> Remap!NewSiteOf(p), values |-> remapPermits[p].values]
    BY <1>1, <2>1, PermitsFit
  <2>3. QED
    BY <1>4, <2>1, <2>2, MovesTo
<1>6. StaysPut(p) /\ remapPermits[p].site = s
  <2>1. ~GoesOnto(p)
    <3> SUFFICES ASSUME GoesOnto(p) PROVE FALSE
      OBVIOUS
    <3>1. s = Remap!TargetOf(remapPermits[p].site) /\ remapPermits[p].site \in Remap!Joining
      BY <1>1, <1>5, NewSiteIs
    <3>2. remapSites[s].operator = to
      BY <1>1, <3>1, LeavingIs, TargetIs
    <3>3. QED
      BY <1>3, <3>2
  <2>2. ~SplitsOff(p)
    <3> SUFFICES ASSUME SplitsOff(p) PROVE FALSE
      OBVIOUS
    <3>1. s = Remap!SplitId(remapPermits[p].site) /\ remapPermits[p].site \in SiteIds
      BY <1>1, <1>5, NewSiteIs, PermitIs, SiteIs
    <3>2. s \in SiteIds
      BY <1>1, <1>2, <1>3, SiteIs
    <3>3. QED
      BY <1>1, <3>1, <3>2, SplitIdIs
  <2>3. StaysPut(p)
    BY <2>1, <2>2 DEF StaysPut
  <2>4. QED
    BY <1>1, <1>5, <2>3, NewSiteIs
<1>7. \A l \in remapListings' : l.permit = p => l \in remapListings
  <2> SUFFICES ASSUME NEW l \in remapListings', l.permit = p PROVE l \in remapListings
    OBVIOUS
  <2>1. ASSUME NEW q \in Remap!Merged, p = Remap!MergedInto(q) PROVE FALSE
    <3>1. s = Remap!TargetOf(remapPermits[q].site) /\ remapPermits[q].site \in Remap!Joining
      BY <1>1, <1>6, <2>1, MergedIs, MovingIs
    <3>2. remapSites[s].operator = to
      BY <1>1, <3>1, LeavingIs, TargetIs
    <3>3. QED
      BY <1>3, <3>2
  <2>2. QED
    BY <1>1, <2>1, ListingsFit, MovesTo
<1>8. \A l \in remapListings : l.permit = p => l \in remapListings'
  BY <1>1, <1>5, ListingsFit, MovesTo
<1>9. /\ \E l \in remapListings' : l.permit = p /\ l.licensee = Licensee
      /\ \A l \in remapListings' : l.permit = p =>
           \/ l.licensee = Licensee
           \/ (IF l.licensee = None THEN remapSites'[s].operator ELSE operatorOf'[l.licensee]) = to
  <2>1. to' = to
    BY DEF RemapMoves
  <2>2. QED
    BY <2>1 DEF Remap!Moving, Remap!FollowsTheLicensee, Remap!NamedOperator, Remap!ListingsOf
<1>10. p \in Remap!Moving(s)
  <2>1. p \in Remap!PermitsOf(s)
    BY <1>1, <1>5, <1>6, MovingIs
  <2>2. \E l \in Remap!ListingsOf(p) : l.licensee = Licensee
    BY <1>7, <1>9 DEF Remap!ListingsOf
  <2>3. ASSUME NEW l \in Remap!ListingsOf(p)
        PROVE  l.licensee = Licensee \/ Remap!NamedOperator(l, s) = to
    <3>1. l \in remapListings /\ l.permit = p
      BY DEF Remap!ListingsOf
    <3>2. /\ l \in remapListings'
          /\ l.licensee # None /\ l.licensee # Licensee => operatorOf'[l.licensee] = operatorOf[l.licensee]
      BY <1>8, <3>1, NamedAs
    <3>3. QED
      BY <1>3, <1>9, <3>1, <3>2 DEF Remap!NamedOperator
  <2>4. QED
    BY <2>1, <2>2, <2>3 DEF Remap!Moving, Remap!FollowsTheLicensee
<1>11. QED
  BY <1>2, <1>3, <1>5, <1>6, <1>10

\* A site that would leave once more would be one of those that cannot.
LEMMA RemapSettles ==
  ASSUME RemapMoves
  PROVE  NothingMoves'
<1>1. RemapPlan /\ Remap!RemapAssumption /\ RemapRows
  BY DEF RemapMoves, RemapPlan
<1>2. to' = to
  BY DEF RemapMoves
<1>3. ASSUME NEW s, (s \in Remap!Leaving)'
      PROVE  (Remap!HasOwnName(s))' /\ ~(Remap!EveryPermitMoves(s))'
  <2>1. PICK p : (p \in Remap!Moving(s))'
    BY <1>3 DEF Remap!Leaving
  <2>2. remapSites'[s].operator # to
    BY <1>2, <1>3 DEF Remap!Leaving
  <2>3. s \in DOMAIN remapSites'
    <3>1. PICK l \in remapListings' : s = remapPermits'[l.permit].site
      BY <1>3 DEF Remap!Leaving, Remap!ListedSites
    <3>2. QED
      BY <3>1, RemapFitsTogether DEF Remap!RowsFitTogether
  <2>4. /\ s \in DOMAIN remapSites /\ remapSites'[s] = remapSites[s] /\ s \notin Remap!Rekeyed
        /\ p \in PermitIds /\ StaysPut(p) /\ remapPermits[p].site = s /\ p \in Remap!Moving(s)
    BY <2>1, <2>2, <2>3, MovedBefore
  <2>5. s \in Remap!Leaving
    <3>1. PICK l \in Remap!ListingsOf(p) : l.licensee = Licensee
      BY <2>4 DEF Remap!Moving
    <3>2. s \in Remap!ListedSites
      BY <2>4, <3>1 DEF Remap!ListedSites, Remap!ListingsOf
    <3>3. QED
      BY <2>2, <2>4, <3>2 DEF Remap!Leaving
  <2>6. s \notin Remap!Joining /\ s \notin Remap!Split
    BY <1>1, <2>4, MovingIs DEF StaysPut, GoesOnto, SplitsOff
  <2>7. Remap!HasOwnName(s) /\ ~Remap!EveryPermitMoves(s)
    BY <2>4, <2>5, <2>6 DEF Remap!Rekeyed, Remap!Split, Remap!Joining
  <2>8. (Remap!HasOwnName(s))'
    BY <2>4, <2>7 DEF Remap!HasOwnName
  <2>9. PICK q \in Remap!PermitsOf(s) : q \notin Remap!Moving(s)
    BY <1>1, <2>7, MovingIs DEF Remap!EveryPermitMoves
  <2>10. q \in PermitIds /\ remapPermits[q].site = s
    BY <1>1, <2>9, MovingIs
  <2>11. (q \in Remap!PermitsOf(s))'
    <3>1. q \in DOMAIN remapPermits' /\ (Remap!Keeps(q, s))'
      BY <2>9, <2>10, PermitRemains
    <3>2. QED
      BY <3>1 DEF Remap!Keeps, Remap!PermitsOf
  <2>12. ~(q \in Remap!Moving(s))'
    BY <2>2, <2>3, <2>9, MovedBefore
  <2>13. QED
    BY <2>8, <2>11, <2>12 DEF Remap!EveryPermitMoves
<1>4. QED
  BY <1>3 DEF NothingMoves, Remap!Rekeyed, Remap!Split, Remap!Joining

\* The rows as they were before the run.
AsBefore ==
  remapBefore = [sites |-> remapSites, permits |-> remapPermits, listings |-> remapListings, follows |-> follows]

\* The first attempt finds the rows as they were; any later one finds the remap
\* applied, and nothing left to apply.
RemapInv ==
  /\ attempt \in Nat
  /\ attempt = 0 => RemapRows /\ AsBefore
  /\ attempt > 0 =>
       /\ Remap!RowsFitTogether /\ Remap!PermitsFollowTheLicensee /\ Remap!NoListingLost /\ Remap!NoGhostSites
       /\ remapSites = [s \in DOMAIN remapSites |-> remapSites[s]]
       /\ remapPermits = [p \in DOMAIN remapPermits |-> remapPermits[p]]
       /\ \A p \in DOMAIN remapPermits : remapPermits[p] \in [site : DOMAIN remapSites, values : Values]
       /\ operatorOf = [o \in DOMAIN operatorOf |-> operatorOf[o]]
       /\ state = "running" =>
            /\ operatorOf[Licensee] = to
            /\ IF to = None THEN Remap!Unlisted = {} ELSE NothingMoves

\* What the run starts from.
LEMMA RemapStarts == Remap!RemapAssumption /\ Remap!Init => RemapInv
<1> SUFFICES ASSUME Remap!RemapAssumption, Remap!Init
             PROVE  RemapInv
  OBVIOUS
<1>0. attempt = 0 /\ AsBefore
  BY DEF Remap!Init, AsBefore
<1>1. PICK ids \in SUBSET SiteIds : remapSites \in [ids -> SiteChoices]
  BY DEF Remap!Init, Remap!SitesBefore
<1>2. remapSites \in [DOMAIN remapSites -> Remap!SiteRow] /\ DOMAIN remapSites \subseteq SiteIds
  BY <1>1 DEF Remap!RemapAssumption
<1>3. Remap!SiteHasName(remapSites) /\ Remap!OneSitePerCodeAndOperator(remapSites)
  BY DEF Remap!Init, Remap!SitesBefore
<1>4. remapPermits \in [PermitIds -> [site : DOMAIN remapSites, values : Values]] /\ Remap!OnePermitPerValues(remapPermits)
  BY DEF Remap!Init, Remap!PermitsBefore
<1>5. /\ remapListings \subseteq [permit : PermitIds, dataset : RemapDatasets, licensee : ListedBy]
      /\ Remap!OneListingPerDataset(remapListings)
  <2>1. PICK by \in [PermitIds \X RemapDatasets -> ListedBy \cup {"unlisted"}] :
          remapListings = {[permit |-> x[1], dataset |-> x[2], licensee |-> by[x]] :
                             x \in {y \in DOMAIN by : by[y] # "unlisted"}}
    BY DEF Remap!Init, Remap!ListingsBefore
  <2>2. \A l \in remapListings : \E x \in PermitIds \X RemapDatasets :
          by[x] \in ListedBy /\ l = [permit |-> x[1], dataset |-> x[2], licensee |-> by[x]]
    BY <2>1
  <2>3. remapListings \subseteq [permit : PermitIds, dataset : RemapDatasets, licensee : ListedBy]
    <3> SUFFICES ASSUME NEW l \in remapListings
                 PROVE  l \in [permit : PermitIds, dataset : RemapDatasets, licensee : ListedBy]
      OBVIOUS
    <3>1. PICK x \in PermitIds \X RemapDatasets :
            by[x] \in ListedBy /\ l = [permit |-> x[1], dataset |-> x[2], licensee |-> by[x]]
      BY <2>2
    <3>2. QED
      BY <3>1
  <2>4. ASSUME NEW l \in remapListings, NEW k \in remapListings, l.permit = k.permit, l.dataset = k.dataset
        PROVE  l = k
    <3>1. PICK x \in PermitIds \X RemapDatasets : l = [permit |-> x[1], dataset |-> x[2], licensee |-> by[x]]
      BY <2>2
    <3>2. PICK y \in PermitIds \X RemapDatasets : k = [permit |-> y[1], dataset |-> y[2], licensee |-> by[y]]
      BY <2>2
    <3>3. x[1] = y[1] /\ x[2] = y[2]
      BY <2>4, <3>1, <3>2
    <3>4. x = y
      BY <3>3
    <3>5. QED
      BY <3>1, <3>2, <3>4
  <2>5. QED
    BY <2>3, <2>4 DEF Remap!OneListingPerDataset
<1>6. /\ follows \subseteq DOMAIN remapSites /\ linked \subseteq DOMAIN remapSites
      /\ notices \subseteq [site : DOMAIN remapSites, read : BOOLEAN]
  <2>1. \E w \in Watched : /\ follows = w \cap DOMAIN remapSites
                           /\ linked = w \cap DOMAIN remapSites
                           /\ notices = {[site |-> s, read |-> s \notin w] : s \in DOMAIN remapSites}
    BY DEF Remap!Init, Remap!FollowedBefore
  <2>2. PICK w \in Watched : /\ follows = w \cap DOMAIN remapSites
                             /\ linked = w \cap DOMAIN remapSites
                             /\ notices = {[site |-> s, read |-> s \notin w] : s \in DOMAIN remapSites}
    BY <2>1
  <2>3. \A s \in DOMAIN remapSites : [site |-> s, read |-> s \notin w] \in [site : DOMAIN remapSites, read : BOOLEAN]
    OBVIOUS
  <2>4. QED
    BY <2>2, <2>3
<1>7. operatorOf \in [Others \cup {Licensee} -> RemapOperators \cup {None}] /\ to \in RemapOperators \cup {None}
  BY DEF Remap!Init, Remap!RemapAssumption
<1>8. QED
  BY <1>2, <1>3, <1>4, <1>5, <1>6, <1>7, <1>0 DEF RemapRows, RemapInv

LEMMA RowsFit ==
  ASSUME Remap!RemapAssumption, RemapRows
  PROVE  /\ Remap!RowsFitTogether
         /\ remapSites = [s \in DOMAIN remapSites |-> remapSites[s]]
         /\ remapPermits = [p \in DOMAIN remapPermits |-> remapPermits[p]] /\ DOMAIN remapPermits = PermitIds
         /\ \A p \in PermitIds : remapPermits[p] \in [site : DOMAIN remapSites, values : Values]
         /\ operatorOf = [o \in DOMAIN operatorOf |-> operatorOf[o]] /\ DOMAIN operatorOf = Others \cup {Licensee}
<1>1. /\ remapSites = [s \in DOMAIN remapSites |-> remapSites[s]] /\ \A s \in DOMAIN remapSites : remapSites[s] \in Remap!SiteRow
      /\ DOMAIN remapSites \subseteq Remap!AllSites
  BY DEF RemapRows, Remap!AllSites
<1>2. /\ remapPermits = [p \in DOMAIN remapPermits |-> remapPermits[p]] /\ DOMAIN remapPermits = PermitIds
      /\ \A p \in PermitIds : remapPermits[p] \in [site : DOMAIN remapSites, values : Values]
  BY DEF RemapRows
<1>3. operatorOf = [o \in DOMAIN operatorOf |-> operatorOf[o]] /\ DOMAIN operatorOf = Others \cup {Licensee}
  BY DEF RemapRows
<1>4. \A l \in remapListings : l.permit \in PermitIds
  BY DEF RemapRows
<1>5. follows \cup linked \cup {n.site : n \in notices} \subseteq DOMAIN remapSites
  BY DEF RemapRows
<1>6. Remap!RowsFitTogether
  BY <1>1, <1>2, <1>4, <1>5 DEF Remap!RowsFitTogether, RemapRows
<1>7. QED
  BY <1>1, <1>2, <1>3, <1>6

\* The first attempt takes the listings off, moves, or fails.
LEMMA FirstUnlists ==
  ASSUME Remap!RemapAssumption, RemapInv, attempt = 0, Remap!Attempt, to = None
  PROVE  RemapInv'
<1>1. RemapRows /\ AsBefore
  BY DEF RemapInv
<1>2. /\ Remap!Unlist /\ operatorOf' = [operatorOf EXCEPT ![Licensee] = None]
      /\ attempt' = 1 /\ to' = to /\ remapBefore' = remapBefore
  BY DEF Remap!Attempt
<1>3. /\ remapListings' = remapListings \ Remap!Unlisted
      /\ UNCHANGED <<remapSites, remapPermits, follows, notices, linked>>
  BY <1>2 DEF Remap!Unlist
<1>4. /\ remapBefore'.sites = remapSites /\ remapBefore'.permits = remapPermits
      /\ remapBefore'.listings = remapListings /\ remapBefore'.follows = follows
  BY <1>1, <1>2 DEF AsBefore
<1>5. /\ Remap!RowsFitTogether
      /\ remapSites = [s \in DOMAIN remapSites |-> remapSites[s]]
      /\ remapPermits = [p \in DOMAIN remapPermits |-> remapPermits[p]] /\ DOMAIN remapPermits = PermitIds
      /\ \A p \in PermitIds : remapPermits[p] \in [site : DOMAIN remapSites, values : Values]
      /\ operatorOf = [o \in DOMAIN operatorOf |-> operatorOf[o]] /\ DOMAIN operatorOf = Others \cup {Licensee}
  BY <1>1, RowsFit
<1>6. Remap!RowsFitTogether'
  BY <1>3, <1>5 DEF Remap!RowsFitTogether, Remap!OneListingPerDataset
<1>7. Remap!PermitsFollowTheLicensee'
  BY <1>2 DEF Remap!PermitsFollowTheLicensee
<1>8. Remap!NoListingLost'
  <2>1. \A l \in remapListings : l \in remapListings' <=> l.licensee # Licensee
    BY <1>3 DEF Remap!Unlisted
  <2>2. QED
    BY <1>2, <1>4, <2>1 DEF Remap!NoListingLost
<1>9. Remap!NoGhostSites'
  <2>1. follows \subseteq DOMAIN remapSites
    BY <1>1 DEF RemapRows
  <2>2. QED
    BY <1>3, <1>4, <1>5, <2>1 DEF Remap!NoGhostSites, Remap!PermitsOf
<1>10. Remap!Unlisted' = {}
  BY <1>3 DEF Remap!Unlisted
<1>11. operatorOf' = [o \in DOMAIN operatorOf' |-> operatorOf'[o]] /\ operatorOf'[Licensee] = to'
  BY <1>2, <1>5
<1>12. QED
  BY <1>2, <1>3, <1>5, <1>6, <1>7, <1>8, <1>9, <1>10, <1>11 DEF RemapInv

LEMMA FirstMoves ==
  ASSUME Remap!RemapAssumption, RemapInv, attempt = 0, to # None,
         Remap!MoveToOperator, operatorOf' = [operatorOf EXCEPT ![Licensee] = to],
         attempt' = 1, to' = to, remapBefore' = remapBefore
  PROVE  RemapInv'
<1>1. RemapRows /\ AsBefore
  BY DEF RemapInv
<1>2. RemapMoves
  BY <1>1 DEF RemapMoves, RemapPlan, AsBefore, Remap!MoveToOperator
<1>3. Remap!RowsFitTogether' /\ Remap!PermitsFollowTheLicensee' /\ Remap!NoListingLost' /\ Remap!NoGhostSites'
  BY <1>2, RemapFitsTogether, RemapFollows, RemapKeepsListings, RemapLeavesNoGhosts
<1>4. NothingMoves'
  BY <1>2, RemapSettles
<1>5. remapSites' = [s \in DOMAIN remapSites' |-> remapSites'[s]]
  BY <1>2, MovesTo DEF Remap!SitesAfter
<1>6. remapPermits' = [p \in DOMAIN remapPermits' |-> remapPermits'[p]]
  BY <1>2, MovesTo DEF Remap!PermitsAfter
<1>7. \A p \in DOMAIN remapPermits' : remapPermits'[p] \in [site : DOMAIN remapSites', values : Values]
  <2> SUFFICES ASSUME NEW p \in DOMAIN remapPermits'
               PROVE  remapPermits'[p] \in [site : DOMAIN remapSites', values : Values]
    OBVIOUS
  <2>1. p \in PermitIds \ Remap!Merged
    BY <1>2, PermitsFit, MovesTo DEF RemapMoves
  <2>2. Remap!PermitsAfter[p] = [site |-> Remap!NewSiteOf(p), values |-> remapPermits[p].values]
    BY <1>2, <2>1, PermitsFit DEF RemapMoves
  <2>3. remapPermits[p].values \in Values
    BY <1>1, <2>1, PermitIs
  <2>4. remapPermits'[p].site \in DOMAIN remapSites'
    BY <1>3 DEF Remap!RowsFitTogether
  <2>5. QED
    BY <1>2, <2>2, <2>3, <2>4, MovesTo
<1>8. operatorOf' = [o \in DOMAIN operatorOf' |-> operatorOf'[o]] /\ operatorOf'[Licensee] = to'
  <2>1. operatorOf \in [Others \cup {Licensee} -> RemapOperators \cup {None}]
    BY <1>1 DEF RemapRows
  <2>2. QED
    BY <2>1
<1>9. QED
  BY <1>3, <1>4, <1>5, <1>6, <1>7, <1>8 DEF RemapInv

LEMMA FirstFails ==
  ASSUME Remap!RemapAssumption, RemapInv, attempt = 0, to # None,
         Remap!FailAmbiguous, attempt' = 1, to' = to, remapBefore' = remapBefore
  PROVE  RemapInv'
<1>1. RemapRows /\ AsBefore
  BY DEF RemapInv
<1>2. /\ UNCHANGED <<remapSites, remapPermits, remapListings, follows, notices, linked, operatorOf>>
      /\ state' = "failed"
  BY DEF Remap!FailAmbiguous, Remap!tables
<1>3. /\ remapBefore'.sites = remapSites /\ remapBefore'.permits = remapPermits
      /\ remapBefore'.listings = remapListings /\ remapBefore'.follows = follows
  BY <1>1 DEF AsBefore
<1>4. /\ Remap!RowsFitTogether
      /\ remapSites = [s \in DOMAIN remapSites |-> remapSites[s]]
      /\ remapPermits = [p \in DOMAIN remapPermits |-> remapPermits[p]] /\ DOMAIN remapPermits = PermitIds
      /\ \A p \in PermitIds : remapPermits[p] \in [site : DOMAIN remapSites, values : Values]
      /\ operatorOf = [o \in DOMAIN operatorOf |-> operatorOf[o]]
  BY <1>1, RowsFit
<1>5. Remap!RowsFitTogether'
  BY <1>2, <1>4 DEF Remap!RowsFitTogether
<1>6. Remap!PermitsFollowTheLicensee'
  BY <1>2 DEF Remap!PermitsFollowTheLicensee
<1>7. Remap!NoListingLost'
  BY <1>2, <1>3 DEF Remap!NoListingLost
<1>8. Remap!NoGhostSites'
  <2>1. follows \subseteq DOMAIN remapSites
    BY <1>1 DEF RemapRows
  <2>2. QED
    BY <1>2, <1>3, <1>4, <2>1 DEF Remap!NoGhostSites, Remap!PermitsOf
<1>9. QED
  BY <1>2, <1>4, <1>5, <1>6, <1>7, <1>8 DEF RemapInv

\* A later attempt changes no row and tells of no change.
LEMMA LaterAttempt ==
  ASSUME Remap!RemapAssumption, RemapInv, attempt > 0, Remap!Attempt
  PROVE  UNCHANGED Remap!tables /\ remapChanges' = {} /\ state' = state
<1>1. /\ state = "running" /\ Remap!RowsFitTogether /\ operatorOf[Licensee] = to
      /\ operatorOf = [o \in DOMAIN operatorOf |-> operatorOf[o]]
      /\ IF to = None THEN Remap!Unlisted = {} ELSE NothingMoves
  BY DEF RemapInv, Remap!Attempt
<1>2. CASE to = None
  <2>1. Remap!Unlist /\ operatorOf' = [operatorOf EXCEPT ![Licensee] = None]
    BY <1>2 DEF Remap!Attempt
  <2>2. Remap!Unlisted = {}
    BY <1>1, <1>2
  <2>3. remapListings' = remapListings /\ remapChanges' = {}
    BY <2>1, <2>2 DEF Remap!Unlist
  <2>4. UNCHANGED <<remapSites, remapPermits, follows, notices, linked, state>>
    BY <2>1 DEF Remap!Unlist
  <2>5. operatorOf' = operatorOf
    BY <1>1, <1>2, <2>1
  <2>6. QED
    BY <2>3, <2>4, <2>5 DEF Remap!tables
<1>3. CASE to # None
  <2>1. Remap!Rekeyed = {} /\ Remap!Split = {} /\ Remap!Joining = {}
    BY <1>1, <1>3 DEF NothingMoves
  <2>2. Remap!Emptied = {} /\ Remap!MovingOnto = {}
    BY <2>1 DEF Remap!Emptied, Remap!MovingOnto
  <2>3. Remap!Merged = {}
    BY <2>2 DEF Remap!Merged
  <2>4. ~Remap!Ambiguous
    <3>1. \A s \in Remap!Leaving : Remap!HasOwnName(s)
      BY <2>1 DEF Remap!Joining, Remap!Split, Remap!Rekeyed
    <3>2. QED
      BY <3>1 DEF Remap!Ambiguous
  <2>5. Remap!MoveToOperator /\ operatorOf' = [operatorOf EXCEPT ![Licensee] = to]
    BY <1>3, <2>4 DEF Remap!Attempt, Remap!FailAmbiguous
  <2>6. /\ remapSites' = Remap!SitesAfter /\ remapPermits' = Remap!PermitsAfter /\ remapListings' = Remap!ListingsAfter
        /\ follows' = Remap!Repointed /\ linked' = linked \ Remap!Emptied /\ notices' = Remap!NoticesAfter
        /\ remapChanges' = Remap!MoveChanges /\ state' = state
    BY <2>5 DEF Remap!MoveToOperator
  <2>7. Remap!SitesAfter = remapSites
    <3>1. remapSites = [s \in DOMAIN remapSites |-> remapSites[s]]
      BY DEF RemapInv
    <3>2. (DOMAIN remapSites \ Remap!Emptied) \cup {Remap!SplitId(r) : r \in Remap!Split} = DOMAIN remapSites
      BY <2>1, <2>2
    <3>3. Remap!SitesAfter = [s \in DOMAIN remapSites |-> remapSites[s]]
      BY <2>1, <3>2 DEF Remap!SitesAfter
    <3>4. QED
      BY <3>1, <3>3
  <2>8. Remap!PermitsAfter = remapPermits
    <3>1. /\ remapPermits = [p \in DOMAIN remapPermits |-> remapPermits[p]]
          /\ \A p \in DOMAIN remapPermits : remapPermits[p] \in [site : DOMAIN remapSites, values : Values]
      BY DEF RemapInv
    <3>2. \A p : Remap!NewSiteOf(p) = remapPermits[p].site
      BY <2>1, <2>2 DEF Remap!NewSiteOf
    <3>3. \A p \in DOMAIN remapPermits : [remapPermits[p] EXCEPT !.site = Remap!NewSiteOf(p)] = remapPermits[p]
      BY <3>1, <3>2
    <3>4. Remap!PermitsAfter = [p \in DOMAIN remapPermits |-> remapPermits[p]]
      BY <2>3, <3>3 DEF Remap!PermitsAfter
    <3>5. QED
      BY <3>1, <3>4
  <2>9. Remap!ListingsAfter = remapListings
    BY <2>3 DEF Remap!ListingsAfter
  <2>10. Remap!Repointed = follows /\ Remap!NoticesAfter = notices /\ linked \ Remap!Emptied = linked
    BY <2>2 DEF Remap!Repointed, Remap!NoticesAfter
  <2>11. Remap!MoveChanges = {}
    <3>1. Remap!Touched = {}
      BY <2>1 DEF Remap!Touched
    <3>2. UNION {Remap!Moving(s) : s \in Remap!Split} = {}
      BY <2>1
    <3>3. QED
      BY <2>1, <2>2, <2>3, <3>1, <3>2 DEF Remap!MoveChanges
  <2>12. operatorOf' = operatorOf
    BY <1>1, <2>5
  <2>13. QED
    BY <2>6, <2>7, <2>8, <2>9, <2>10, <2>11, <2>12 DEF Remap!tables
<1>4. QED
  BY <1>2, <1>3

\* What is said of the rows stays true while the rows stay what they are.
LEMMA SaidOfTheRows ==
  ASSUME UNCHANGED <<remapSites, remapPermits, remapListings, follows, notices, linked, operatorOf, to, state, remapBefore>>,
         attempt > 0, attempt' > 0
  PROVE  /\ Remap!RowsFitTogether => Remap!RowsFitTogether'
         /\ Remap!PermitsFollowTheLicensee => Remap!PermitsFollowTheLicensee'
         /\ Remap!NoListingLost => Remap!NoListingLost'
         /\ Remap!NoGhostSites => Remap!NoGhostSites'
         /\ Remap!Unlisted' = Remap!Unlisted
         /\ NothingMoves => NothingMoves'
<1>1. Remap!RowsFitTogether => Remap!RowsFitTogether'
  BY DEF Remap!RowsFitTogether
<1>2. Remap!PermitsFollowTheLicensee => Remap!PermitsFollowTheLicensee'
  BY DEF Remap!PermitsFollowTheLicensee, Remap!BelongsToNew, Remap!GoesAlong, Remap!Keeps, Remap!NowOn
<1>3. Remap!NoListingLost => Remap!NoListingLost'
  BY DEF Remap!NoListingLost
<1>4. Remap!NoGhostSites => Remap!NoGhostSites'
  BY DEF Remap!NoGhostSites, Remap!NowOn, Remap!PermitsOf
<1>5. Remap!Unlisted' = Remap!Unlisted
  BY DEF Remap!Unlisted
<1>6. ASSUME NEW s
      PROVE  /\ (Remap!PermitsOf(s))' = Remap!PermitsOf(s)
             /\ (Remap!TargetsOf(s))' = Remap!TargetsOf(s)
             /\ (Remap!Moving(s))' = Remap!Moving(s)
             /\ (Remap!HasOwnName(s))' = Remap!HasOwnName(s)
             /\ (Remap!EveryPermitMoves(s))' = Remap!EveryPermitMoves(s)
  BY DEF Remap!PermitsOf, Remap!TargetsOf, Remap!Moving, Remap!HasOwnName, Remap!EveryPermitMoves, Remap!FollowsTheLicensee,
         Remap!ListingsOf, Remap!NamedOperator
<1>7. Remap!ListedSites' = Remap!ListedSites
  BY DEF Remap!ListedSites
<1>8. Remap!Leaving' = Remap!Leaving
  BY <1>6, <1>7 DEF Remap!Leaving
<1>9. Remap!Rekeyed' = Remap!Rekeyed /\ Remap!Split' = Remap!Split /\ Remap!Joining' = Remap!Joining
  BY <1>6, <1>8 DEF Remap!Rekeyed, Remap!Split, Remap!Joining
<1>10. QED
  BY <1>1, <1>2, <1>3, <1>4, <1>5, <1>9 DEF NothingMoves

LEMMA RemapStays ==
  ASSUME UNCHANGED <<remapSites, remapPermits, remapListings, follows, notices, linked, operatorOf, to, state, remapBefore>>,
         RemapInv, attempt > 0, attempt' \in Nat, attempt' > 0
  PROVE  RemapInv'
  BY SaidOfTheRows DEF RemapInv

LEMMA RemapInductive ==
  ASSUME Remap!RemapAssumption, RemapInv, [Remap!Next]_(Remap!vars)
  PROVE  RemapInv' /\ (attempt > 0 => UNCHANGED Remap!tables /\ (remapChanges' = {} \/ UNCHANGED <<attempt, state>>))
<1>1. CASE UNCHANGED Remap!vars
  <2>1. UNCHANGED <<remapSites, remapPermits, remapListings, follows, notices, linked, operatorOf,
                    to, attempt, state, remapChanges, remapBefore>>
    BY <1>1 DEF Remap!vars, Remap!tables
  <2>2. CASE attempt = 0
    <3>1. RemapRows /\ AsBefore
      BY <2>2 DEF RemapInv
    <3>2. AsBefore'
      BY <2>1, <3>1 DEF AsBefore
    <3>3. RemapRows'
      BY <2>1, <3>1 DEF RemapRows
    <3>4. QED
      BY <2>1, <2>2, <3>2, <3>3 DEF RemapInv
  <2>3. ASSUME attempt > 0
        PROVE  RemapInv'
    <3>1. /\ UNCHANGED <<remapSites, remapPermits, remapListings, follows, notices, linked, operatorOf, to, state, remapBefore>>
          /\ attempt' = attempt
      BY <2>1
    <3>2. attempt' \in Nat /\ attempt' > 0
      BY <2>3, <3>1 DEF RemapInv
    <3>3. QED
      BY <2>3, <3>1, <3>2, RemapStays
  <2>4. attempt = 0 \/ attempt > 0
    BY DEF RemapInv
  <2>5. UNCHANGED Remap!tables
    BY <1>1 DEF Remap!vars
  <2>6. QED
    BY <2>1, <2>2, <2>3, <2>4, <2>5
<1>2. CASE Remap!Attempt /\ attempt = 0
  <2>1. attempt' = 1 /\ to' = to /\ remapBefore' = remapBefore
    BY <1>2 DEF Remap!Attempt
  <2>2. \/ to = None
        \/ to # None /\ Remap!MoveToOperator /\ operatorOf' = [operatorOf EXCEPT ![Licensee] = to]
        \/ to # None /\ Remap!FailAmbiguous
    BY <1>2 DEF Remap!Attempt
  <2>3. RemapInv'
    BY <1>2, <2>1, <2>2, FirstUnlists, FirstMoves, FirstFails
  <2>4. QED
    BY <1>2, <2>3
<1>3. CASE Remap!Attempt /\ attempt > 0
  <2>1. UNCHANGED Remap!tables /\ remapChanges' = {} /\ state' = state
    BY <1>3, LaterAttempt
  <2>2. /\ UNCHANGED <<remapSites, remapPermits, remapListings, follows, notices, linked, operatorOf, to, state, remapBefore>>
        /\ attempt' = attempt + 1
    BY <1>3, <2>1 DEF Remap!tables, Remap!Attempt
  <2>3. attempt' \in Nat /\ attempt' > 0
    BY <1>3, <2>2 DEF RemapInv
  <2>4. RemapInv'
    BY <1>3, <2>2, <2>3, RemapStays
  <2>5. QED
    BY <2>1, <2>4
<1>4. attempt = 0 \/ attempt > 0
  BY DEF RemapInv
<1>5. QED
  BY <1>1, <1>2, <1>3, <1>4 DEF Remap!Next, Remap!Done

\* Whatever rows a remap starts from, it moves what belongs to the licensee and
\* nothing else, loses no listing, leaves no site behind, and is applied once.
THEOREM RemapMovesWhatBelongs == ASSUME Remap!RemapAssumption PROVE Remap!Spec => RemapMovesWhatItMust
<1>1. Remap!Init => RemapInv
  BY RemapStarts
<1>2. RemapInv /\ [Remap!Next]_(Remap!vars) =>
        RemapInv' /\ (attempt > 0 => UNCHANGED Remap!tables /\ (remapChanges' = {} \/ UNCHANGED <<attempt, state>>))
  BY RemapInductive
<1>3. RemapInv => /\ Remap!RowsFitTogether /\ Remap!PermitsFollowTheLicensee
                  /\ Remap!NoListingLost /\ Remap!NoGhostSites
  <2>1. CASE attempt > 0
    BY <2>1 DEF RemapInv
  <2>2. CASE ~(attempt > 0)
    BY <2>2, RowsFit DEF RemapInv, Remap!PermitsFollowTheLicensee, Remap!NoListingLost, Remap!NoGhostSites
  <2>3. QED
    BY <2>1, <2>2
<1>4. Remap!Spec => Remap!AppliedOnce
  <2>1. RemapInv /\ [Remap!Next]_(Remap!vars) =>
          [attempt > 0 => UNCHANGED Remap!tables /\ remapChanges' = {}]_<<Remap!tables, attempt, state>>
    BY <1>2
  <2>2. QED
    BY <1>1, <1>2, <2>1, PTL DEF Remap!Spec, Remap!AppliedOnce
<1>5. Remap!Spec => [](/\ Remap!RowsFitTogether /\ Remap!PermitsFollowTheLicensee
                       /\ Remap!NoListingLost /\ Remap!NoGhostSites)
  BY <1>1, <1>2, <1>3, PTL DEF Remap!Spec
<1>6. QED
  BY <1>4, <1>5, PTL DEF RemapMovesWhatItMust
=============================================================================
