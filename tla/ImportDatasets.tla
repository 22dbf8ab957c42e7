--------------------------- MODULE ImportDatasets ---------------------------
(***************************************************************************)
(* What the runs of one source write: the releases that a publisher puts   *)
(* up are discovered, downloaded, compared with what is stored, guarded    *)
(* and applied slice by slice:                                             *)
(*   apps/server/src/features/official/import/run.ts, datasets.ts,         *)
(*   download.ts, snapshots.ts, release.ts, checkpoints.ts and guard.ts.   *)
(*                                                                         *)
(* ImportRuns shows that a source has one running run and that only the    *)
(* latest claim of it commits.  Here, therefore, a source has one run at a *)
(* time and one worker, whose claim may end at any step (a crash, a        *)
(* hand-back, a takeover): what it committed stays, what it remembers is   *)
(* gone, and the next attempt starts from the database.                    *)
(*                                                                         *)
(* A release is taken to be one file.  Its bytes are a member of Contents, *)
(* which stands for the SHA-256 and for the snapshot recorded under it.    *)
(* What is read in them depends on the licensees that are mapped to an     *)
(* operator by then, and has two sizes: the rows staged for a slice (a     *)
(* permit at a place for an operator; a line of a link), which the guard   *)
(* counts, and the records they are stored as, which the guard finds       *)
(* there the next time.  Rows that name a permit or a link again are one   *)
(* record.  A permit is in one slice of a dataset, as in OfficialSites.    *)
(***************************************************************************)
EXTENDS Integers, FiniteSets

CONSTANTS
  Datasets,
  Releases,           \* the files a publisher may list, by URL
  Slices,             \* the (dataset, slice) pairs
  DatasetOf,          \* DatasetOf[rel]: the dataset that lists rel
  Covers,             \* Covers[rel]: the slices that rel covers
  Layouts,            \* the sets of releases that may be listed together
  Contents,           \* the bytes a file may hold
  Readings,           \* Readings[c]: what may be read in the bytes c, and for
                      \*   each slice how much is .staged and then .stored
  NoDataset,
  NoRelease,
  NoContent,
  HoldShrinkPercent,  \* hold_shrink_percent of the datasets
  MaxAttempts,        \* MAX_RUN_ATTEMPTS
  MaxChanges          \* bound: changes the publisher makes, and remaps

ASSUME DatasetsAssumption ==
  /\ DatasetOf \in [Releases -> Datasets]
  /\ Covers \in [Releases -> SUBSET Slices]
  \* a slice is one of a dataset
  /\ \A r1, r2 \in Releases :
       Covers[r1] \cap Covers[r2] # {} => DatasetOf[r1] = DatasetOf[r2]
  /\ Layouts \subseteq SUBSET Releases
  /\ \A c \in Contents :
       /\ Readings[c] # {}
       /\ \A read \in Readings[c], s \in Slices :
            /\ read[s].staged \in Nat
            /\ read[s].stored \in 0 .. read[s].staged
            /\ read[s].stored = 0 => read[s].staged = 0
  /\ NoDataset \notin Datasets
  /\ NoRelease \notin Releases
  /\ NoContent \notin Contents
  /\ HoldShrinkPercent \in 0 .. 100
  /\ MaxAttempts \in Nat \ {0}
  /\ MaxChanges \in Nat

NoHead == -1          \* the HEAD request failed, or the file is a local one

VARIABLES
  \* the publisher
  layout,         \* the releases it lists
  content,        \* content[rel]: the bytes it serves
  head,           \* head[rel]: what HEAD answers (ETag, date and size)
  changes,        \* how often it changed something, and remaps
  \* the database, across runs
  listedHead,     \* official_listed_files: the head of the last download,
  listedContent,  \* its bytes (NoContent: no row),
  aged,           \* and whether it is older than LISTING_MAX_AGE_MS
  recorded,       \* official_snapshot_slices: <<slice, bytes>> once downloaded
  applied,        \* official_dataset_slices.snapshot_id
  stored,         \* stored[s]: the permit listings, or the links, of slice s
  \* the database, of the run
  kind,           \* "import" or "replay"
  attempt,
  approval,       \* import_run_approvals: the bytes approved for a slice
  row,            \* import_run_datasets: "absent", "pending" or "failed"
  outcome,        \* import_run_slices: the checkpoint of a slice, or "none"
  inAfterSteps,   \* an after-step has started
  \* the worker
  pc,
  left,           \* the datasets still to import
  dataset,        \* the one being imported
  toPrepare,      \* releases discovered and not yet looked at
  prepared,       \* releases obtained and not yet imported
  release,        \* the release in hand
  gotHead,        \* gotHead[rel], gotFresh[rel], gotContent[rel]: what
  gotFresh,       \*   HEAD answered, whether the file was downloaded, and
  gotContent,     \*   what is in it
  \* history, which no action reads
  before,         \* applied, when the run was queued
  lastHeld        \* lastHeld[s]: the bytes last held back for s

publisherVars == <<layout, content, head, changes>>
listingVars == <<listedHead, listedContent, aged>>
runVars == <<kind, attempt, approval, before>>
gotVars == <<gotHead, gotFresh, gotContent>>
workVars == <<left, dataset, toPrepare, prepared, release, gotVars>>
vars == <<publisherVars, listingVars, recorded, applied, stored, runVars, row, outcome,
          inAfterSteps, pc, workVars, lastHeld>>

\* "none" without a run, "queued" until a worker claims it; then "datasets"
\* between two datasets, "prepare" and "obtain" in prepareReleases, "compare"
\* and "settle" in importRelease, and "after" in the after-steps.
InDataset == {"prepare", "obtain", "compare", "settle"}
Working == InDataset \cup {"datasets", "after"}

Outcomes == {"none", "applied", "held", "unchanged"}

-----------------------------------------------------------------------------
\* The publisher replaces a file, by other bytes or the same, ...
PublishFile(rel) ==
  /\ changes < MaxChanges
  /\ \E c \in Contents : content' = [content EXCEPT ![rel] = c]
  /\ changes' = changes + 1
  /\ head' = [head EXCEPT ![rel] = changes + 1]
  /\ UNCHANGED <<layout, listingVars, recorded, applied, stored, runVars, row, outcome,
                 inAfterSteps, pc, workVars, lastHeld>>

\* ... or lists other files.
PublishLayout ==
  /\ changes < MaxChanges
  /\ layout' \in Layouts \ {layout}
  /\ changes' = changes + 1
  /\ UNCHANGED <<content, head, listingVars, recorded, applied, stored, runVars, row,
                 outcome, inAfterSteps, pc, workVars, lastHeld>>

\* A remap of a licensee, a run of the source that may come before an import
\* that is queued: it merges the listings of permits that become one, and
\* removes those that another licensee keeps.
Remap(s) ==
  /\ pc \in {"none", "queued"}
  /\ changes < MaxChanges
  /\ stored[s] > 0
  /\ \E n \in 0 .. (stored[s] - 1) : stored' = [stored EXCEPT ![s] = n]
  /\ changes' = changes + 1
  /\ UNCHANGED <<layout, content, head, listingVars, recorded, applied, runVars, row,
                 outcome, inAfterSteps, pc, workVars, lastHeld>>

\* Seven days pass after a download.
ListingAges(rel) ==
  /\ listedContent[rel] # NoContent
  /\ ~aged[rel]
  /\ aged' = [aged EXCEPT ![rel] = TRUE]
  /\ UNCHANGED <<publisherVars, listedHead, listedContent, recorded, applied, stored,
                 runVars, row, outcome, inAfterSteps, pc, workVars, lastHeld>>

-----------------------------------------------------------------------------
NothingInHand ==
  /\ dataset' = NoDataset
  /\ toPrepare' = {}
  /\ prepared' = {}
  /\ release' = NoRelease
  /\ gotHead' = [rel \in Releases |-> NoHead]
  /\ gotFresh' = [rel \in Releases |-> FALSE]
  /\ gotContent' = [rel \in Releases |-> NoContent]

NoApproval == [s \in Slices |-> NoContent]

\* The run is over.  Its rows are read by nobody but its administrators, if
\* they are not deleted, and the run variables wait for the next run.
EndRun ==
  /\ pc' = "none"
  /\ left' = {}
  /\ NothingInHand
  /\ kind' = "import"
  /\ attempt' = 0
  /\ approval' = NoApproval
  /\ row' = [d \in Datasets |-> "absent"]
  /\ outcome' = [s \in Slices |-> "none"]
  /\ inAfterSteps' = FALSE
  /\ before' = [s \in Slices |-> NoContent]
  /\ UNCHANGED <<publisherVars, listingVars, recorded, applied, stored, lastHeld>>

\* enqueueRun, with the datasets it names and the approvals it was given.
Enqueue(k, reads, approved) ==
  /\ pc = "none"
  /\ pc' = "queued"
  /\ kind' = k
  /\ approval' = approved
  /\ row' = [d \in Datasets |-> IF d \in reads THEN "pending" ELSE "absent"]
  /\ before' = applied
  /\ UNCHANGED <<publisherVars, listingVars, recorded, applied, stored, attempt, outcome,
                 inAfterSteps, workVars, lastHeld>>

\* queueDueImports: the due datasets, with no approval.
QueueDueImports ==
  \E reads \in (SUBSET Datasets) \ {{}} : Enqueue("import", reads, NoApproval)

\* approvedReleases: an approval names recorded bytes that cover its slice, in
\* a dataset that the run reads.
MayApprove(reads) ==
  {a \in [Slices -> Contents \cup {NoContent}] :
     \A s \in Slices : a[s] # NoContent =>
       /\ <<s, a[s]>> \in recorded
       /\ \E rel \in Releases : s \in Covers[rel] /\ DatasetOf[rel] \in reads}

\* queueRequestedRun: an import or a replay that an administrator asks for.
QueueRequestedRun ==
  \E k \in {"import", "replay"}, reads \in (SUBSET Datasets) \ {{}} :
    \E approved \in MayApprove(reads) : Enqueue(k, reads, approved)

\* Mutant: one attempt too many.
HasAttemptLeftLate == attempt <= MaxAttempts

HasAttemptLeft == attempt < MaxAttempts

\* A worker claims the run.  It goes on in the after-steps if an earlier
\* attempt got there, and otherwise with the datasets that have no error yet.
Claim ==
  /\ pc = "queued"
  /\ HasAttemptLeft
  /\ attempt' = attempt + 1
  /\ IF attempt' > 1 /\ inAfterSteps
     THEN pc' = "after" /\ left' = {}
     ELSE pc' = "datasets" /\ left' = {d \in Datasets : row[d] = "pending"}
  /\ UNCHANGED <<publisherVars, listingVars, recorded, applied, stored, kind, approval,
                 before, row, outcome, inAfterSteps, dataset, toPrepare,
                 prepared, release, gotVars, lastHeld>>

\* A claim ends before the run does, and the run can be claimed again.
LoseClaim ==
  /\ pc \in Working
  /\ pc' = "queued"
  /\ left' = {}
  /\ NothingInHand
  /\ UNCHANGED <<publisherVars, listingVars, recorded, applied, stored, runVars, row,
                 outcome, inAfterSteps, lastHeld>>

\* The run ends early: it is cancelled, it ran out of attempts, or an error
\* outside of a dataset fails it.
EndEarly ==
  /\ pc \in Working \cup {"queued"}
  /\ EndRun

-----------------------------------------------------------------------------
Checkpointed == {s \in Slices : outcome[s] # "none"}

Disjoint(rels) ==
  /\ \A rel \in rels : Covers[rel] # {}
  /\ \A r1, r2 \in rels : r1 # r2 => Covers[r1] \cap Covers[r2] = {}

Discovered(d) == {rel \in layout : DatasetOf[rel] = d}

\* prepareReleases discovers the releases of the next dataset and passes over
\* those whose slices all have a checkpoint.
BeginDataset(d) ==
  /\ pc = "datasets"
  /\ d \in left
  /\ Disjoint(Discovered(d))
  /\ pc' = "prepare"
  /\ dataset' = d
  /\ toPrepare' = {rel \in Discovered(d) : ~(Covers[rel] \subseteq Checkpointed)}
  /\ UNCHANGED <<publisherVars, listingVars, recorded, applied, stored, runVars, row,
                 outcome, inAfterSteps, left, prepared, release, gotVars, lastHeld>>

\* Mutant: a listing is believed however old it is.
IsListedUnchangedForever(rel, h) ==
  listedContent[rel] # NoContent /\ h # NoHead /\ listedHead[rel] = h

IsListedUnchanged(rel, h) ==
  /\ listedContent[rel] # NoContent
  /\ h # NoHead
  /\ ~aged[rel]
  /\ listedHead[rel] = h

\* Mutant: an approval does not make the release be read again.
MustReadUnlessApproved(rel) == kind = "replay" \/ attempt > 1

MustRead(rel) ==
  \/ kind = "replay"
  \/ attempt > 1
  \/ \E s \in Covers[rel] : approval[s] # NoContent

\* prepareRelease asks for the head of the file, and leaves a release alone
\* that is listed as it was.
CheckRelease(rel) ==
  /\ pc = "prepare"
  /\ rel \in toPrepare
  /\ toPrepare' = toPrepare \ {rel}
  /\ \E h \in {head[rel], NoHead} :
       LET unchanged == IsListedUnchanged(rel, h) IN
       \/ /\ ~MustRead(rel) /\ unchanged
          /\ UNCHANGED <<pc, release, gotHead, gotFresh>>
       \/ /\ MustRead(rel) \/ ~unchanged
          /\ pc' = "obtain"
          /\ release' = rel
          /\ gotHead' = [gotHead EXCEPT ![rel] = h]
          /\ gotFresh' = [gotFresh EXCEPT ![rel] = ~unchanged]
  /\ UNCHANGED <<publisherVars, listingVars, recorded, applied, stored, runVars, row,
                 outcome, inAfterSteps, left, dataset, prepared, gotContent, lastHeld>>

\* obtainFile: from the archive, or else what the publisher serves by now.
ObtainRelease ==
  /\ pc = "obtain"
  /\ \/ /\ ~gotFresh[release]
        /\ gotContent' = [gotContent EXCEPT ![release] = listedContent[release]]
        /\ UNCHANGED gotFresh
     \/ /\ gotContent' = [gotContent EXCEPT ![release] = content[release]]
        /\ gotFresh' = [gotFresh EXCEPT ![release] = TRUE]
  /\ prepared' = prepared \cup {release}
  /\ release' = NoRelease
  /\ pc' = "prepare"
  /\ UNCHANGED <<publisherVars, listingVars, recorded, applied, stored, runVars, row,
                 outcome, inAfterSteps, left, dataset, toPrepare, gotHead, lastHeld>>

\* recordRelease, in a transaction of its own: the snapshot, its slices and,
\* for a download, the listing.
RecordRelease(rel) ==
  /\ pc = "prepare"
  /\ toPrepare = {}
  /\ rel \in prepared
  /\ recorded' = recorded \cup (Covers[rel] \X {gotContent[rel]})
  /\ IF gotFresh[rel]
     THEN /\ listedHead' = [listedHead EXCEPT ![rel] = gotHead[rel]]
          /\ listedContent' = [listedContent EXCEPT ![rel] = gotContent[rel]]
          /\ aged' = [aged EXCEPT ![rel] = FALSE]
     ELSE UNCHANGED listingVars
  /\ prepared' = prepared \ {rel}
  /\ release' = rel
  /\ pc' = "compare"
  /\ UNCHANGED <<publisherVars, applied, stored, runVars, row, outcome, inAfterSteps,
                 left, dataset, toPrepare, gotVars, lastHeld>>

-----------------------------------------------------------------------------
IsUnchanged(rel) ==
  /\ kind # "replay"
  /\ \A s \in Covers[rel] : applied[s] = gotContent[rel]

\* Mutant: import_run_slices has no primary key.
CheckpointTakenNever(rel) == FALSE

\* The primary key of import_run_slices refuses a second checkpoint.
CheckpointTaken(rel) == Covers[rel] \cap Checkpointed # {}

\* checkpointIfUnchanged.
CheckpointUnchanged ==
  /\ pc = "compare"
  /\ IsUnchanged(release)
  /\ ~CheckpointTaken(release)
  /\ outcome' = [s \in Slices |->
       IF s \in Covers[release] THEN "unchanged" ELSE outcome[s]]
  /\ pc' = "prepare"
  /\ release' = NoRelease
  /\ UNCHANGED <<publisherVars, listingVars, recorded, applied, stored, runVars, row,
                 inAfterSteps, left, dataset, toPrepare, prepared, gotVars, lastHeld>>

\* readRelease parses the file outside of any transaction.
ReadRelease ==
  /\ pc = "compare"
  /\ ~IsUnchanged(release)
  /\ pc' = "settle"
  /\ UNCHANGED <<publisherVars, listingVars, recorded, applied, stored, runVars, row,
                 outcome, inAfterSteps, workVars, lastHeld>>

\* countLive.
LiveCount(s) == stored[s]

\* Mutant: any approval of the slice lets any bytes through.
IsApprovedForAny(s, c) == approval[s] # NoContent

IsApproved(s, c) == approval[s] = c

\* decideSlice, of the bytes c and what is read in them.
DecideSlice(s, c, read) ==
  LET staged == read[s].staged
      live == LiveCount(s)
  IN  IF IsApproved(s, c) THEN "applied"
      ELSE IF staged = 0 THEN (IF live = 0 THEN "applied" ELSE "held")
      ELSE IF staged * 100 < live * (100 - HoldShrinkPercent) THEN "held"
      ELSE "applied"

\* Mutant: the held slices of a release are applied along with the others.
AppliedSlicesAll(rel, read) ==
  IF \E s \in Covers[rel] : DecideSlice(s, gotContent[rel], read) = "applied"
  THEN Covers[rel] ELSE {}

AppliedSlices(rel, read) ==
  {s \in Covers[rel] : DecideSlice(s, gotContent[rel], read) = "applied"}

\* settleRelease, in one transaction: stage, decide, apply, checkpoint, and
\* mark the applied slices with the snapshot.
SettleRelease ==
  LET c == gotContent[release] IN
  /\ pc = "settle"
  /\ ~CheckpointTaken(release)
  /\ \E read \in Readings[c] :
       LET replaced == AppliedSlices(release, read) IN
       /\ outcome' = [s \in Slices |->
            IF s \in Covers[release] THEN DecideSlice(s, c, read) ELSE outcome[s]]
       /\ applied' = [s \in Slices |-> IF s \in replaced THEN c ELSE applied[s]]
       /\ stored' = [s \in Slices |-> IF s \in replaced THEN read[s].stored ELSE stored[s]]
       /\ lastHeld' = [s \in Slices |->
            IF s \in Covers[release] /\ DecideSlice(s, c, read) = "held" THEN c ELSE lastHeld[s]]
  /\ pc' = "prepare"
  /\ release' = NoRelease
  /\ UNCHANGED <<publisherVars, listingVars, recorded, runVars, row, inAfterSteps,
                 left, dataset, toPrepare, prepared, gotVars>>

\* Every release of the dataset is imported.
EndDataset ==
  /\ pc = "prepare"
  /\ toPrepare = {}
  /\ prepared = {}
  /\ pc' = "datasets"
  /\ left' = left \ {dataset}
  /\ NothingInHand
  /\ UNCHANGED <<publisherVars, listingVars, recorded, applied, stored, runVars, row,
                 outcome, inAfterSteps, lastHeld>>

\* failDataset: an error while a dataset is discovered, downloaded, parsed or
\* written is saved with the dataset, and the run goes on with the next one.
FailDataset(d) ==
  /\ \/ pc = "datasets" /\ d \in left
     \/ pc \in InDataset /\ d = dataset
  /\ row' = [row EXCEPT ![d] = "failed"]
  /\ pc' = "datasets"
  /\ left' = left \ {d}
  /\ NothingInHand
  /\ UNCHANGED <<publisherVars, listingVars, recorded, applied, stored, runVars, outcome,
                 inAfterSteps, lastHeld>>

-----------------------------------------------------------------------------
\* Mutant: a held slice does not count as a change.
HasChangedNothingButHeld ==
  /\ \A d \in Datasets : row[d] # "failed"
  /\ \A s \in Slices : outcome[s] # "applied"

HasChangedNothing ==
  /\ \A d \in Datasets : row[d] # "failed"
  /\ \A s \in Slices : outcome[s] \notin {"applied", "held"}

\* forgetUnchangedImport deletes the run, and its rows with it.
ForgetUnchangedImport ==
  /\ pc = "datasets"
  /\ left = {}
  /\ kind = "import"
  /\ HasChangedNothing
  /\ EndRun

\* The transaction that starts the first after-step.
StartAfterSteps ==
  /\ pc = "datasets"
  /\ left = {}
  /\ ~(kind = "import" /\ HasChangedNothing)
  /\ pc' = "after"
  /\ inAfterSteps' = TRUE
  /\ UNCHANGED <<publisherVars, listingVars, recorded, applied, stored, runVars, row,
                 outcome, workVars, lastHeld>>

FinishRun ==
  /\ pc = "after"
  /\ EndRun

-----------------------------------------------------------------------------
Init ==
  /\ layout \in Layouts
  /\ content \in [Releases -> Contents]
  /\ head = [rel \in Releases |-> 0]
  /\ changes = 0
  /\ listedHead = [rel \in Releases |-> NoHead]
  /\ listedContent = [rel \in Releases |-> NoContent]
  /\ aged = [rel \in Releases |-> FALSE]
  /\ recorded = {}
  /\ applied = [s \in Slices |-> NoContent]
  /\ stored = [s \in Slices |-> 0]
  /\ kind = "import"
  /\ attempt = 0
  /\ approval = NoApproval
  /\ row = [d \in Datasets |-> "absent"]
  /\ outcome = [s \in Slices |-> "none"]
  /\ inAfterSteps = FALSE
  /\ pc = "none"
  /\ left = {}
  /\ dataset = NoDataset
  /\ toPrepare = {}
  /\ prepared = {}
  /\ release = NoRelease
  /\ gotHead = [rel \in Releases |-> NoHead]
  /\ gotFresh = [rel \in Releases |-> FALSE]
  /\ gotContent = [rel \in Releases |-> NoContent]
  /\ before = [s \in Slices |-> NoContent]
  /\ lastHeld = [s \in Slices |-> NoContent]

Next ==
  \/ PublishLayout
  \/ QueueDueImports \/ QueueRequestedRun \/ Claim \/ LoseClaim \/ EndEarly
  \/ ObtainRelease \/ CheckpointUnchanged \/ ReadRelease \/ SettleRelease
  \/ EndDataset \/ ForgetUnchangedImport \/ StartAfterSteps \/ FinishRun
  \/ \E rel \in Releases :
       PublishFile(rel) \/ ListingAges(rel) \/ CheckRelease(rel) \/ RecordRelease(rel)
  \/ \E d \in Datasets : BeginDataset(d) \/ FailDataset(d)
  \/ \E s \in Slices : Remap(s)

Spec == Init /\ [][Next]_vars

\* Imports keep being queued and time passes.  A worker that is up goes on;
\* strong fairness, because a lost claim or an error can undo each step over
\* and over, but does not do so every time.
Fairness ==
  /\ WF_vars(QueueDueImports)
  /\ \A rel \in Releases : WF_vars(ListingAges(rel))
  /\ SF_vars(Claim)
  /\ \A d \in Datasets : SF_vars(BeginDataset(d))
  /\ \A rel \in Releases : SF_vars(CheckRelease(rel)) /\ SF_vars(RecordRelease(rel))
  /\ SF_vars(ObtainRelease)
  /\ SF_vars(CheckpointUnchanged)
  /\ SF_vars(ReadRelease)
  /\ SF_vars(SettleRelease)
  /\ SF_vars(EndDataset)
  /\ WF_vars(EndEarly \/ FinishRun \/ ForgetUnchangedImport)

FairSpec == Spec /\ Fairness

-----------------------------------------------------------------------------
(* Properties *)

\* The publisher's files, the rows and what the worker has in hand keep their
\* types.
TypeOK ==
  /\ layout \in Layouts
  /\ content \in [Releases -> Contents]
  /\ head \in [Releases -> 0 .. MaxChanges]
  /\ changes \in 0 .. MaxChanges
  /\ listedHead \in [Releases -> {NoHead} \cup 0 .. MaxChanges]
  /\ listedContent \in [Releases -> Contents \cup {NoContent}]
  /\ aged \in [Releases -> BOOLEAN]
  /\ recorded \subseteq Slices \X Contents
  /\ applied \in [Slices -> Contents \cup {NoContent}]
  /\ stored \in [Slices -> Nat]
  /\ kind \in {"import", "replay"}
  /\ attempt \in 0 .. MaxAttempts
  /\ approval \in [Slices -> Contents \cup {NoContent}]
  /\ row \in [Datasets -> {"absent", "pending", "failed"}]
  /\ outcome \in [Slices -> Outcomes]
  /\ inAfterSteps \in BOOLEAN
  /\ pc \in Working \cup {"none", "queued"}
  /\ left \subseteq Datasets
  /\ dataset \in Datasets \cup {NoDataset}
  /\ toPrepare \subseteq Releases
  /\ prepared \subseteq Releases
  /\ release \in Releases \cup {NoRelease}
  /\ gotHead \in [Releases -> {NoHead} \cup 0 .. MaxChanges]
  /\ gotFresh \in [Releases -> BOOLEAN]
  /\ gotContent \in [Releases -> Contents \cup {NoContent}]
  /\ before \in [Slices -> Contents \cup {NoContent}]
  /\ lastHeld \in [Slices -> Contents \cup {NoContent}]

\* What a run stored is what its checkpoints say: through every lost claim, a
\* slice without an "applied" checkpoint is as it was when the run was queued,
\* and one with it holds bytes that were recorded for it.
CheckpointsTellWhatChanged ==
  pc # "none" =>
    \A s \in Slices :
      IF outcome[s] = "applied"
      THEN <<s, applied[s]>> \in recorded
      ELSE applied[s] = before[s]

\* A run settles a slice once: a later attempt neither decides it again nor
\* applies other bytes, even if the publisher changed its layout in between.
SettledOnce ==
  [][\A s \in Slices :
       (outcome[s] # "none" /\ pc' # "none") =>
         outcome'[s] = outcome[s] /\ applied'[s] = applied[s]]_vars

\* Apart from a remap, what is stored for a slice changes only where a run
\* settles it, and then, unless an administrator approved these very bytes and
\* whatever the publisher has put up since: a slice is never emptied, and the
\* release has at most hold_shrink_percent fewer rows for it than records are
\* stored.  Fewer records may be left than that, by the rows that name a permit
\* or a link again: the guard counts them, and what is stored does not.
ShrinkIsApproved ==
  [][\A s \in Slices :
       \/ stored'[s] = stored[s]
       \/ Remap(s)
       \/ /\ outcome[s] = "none"
          /\ outcome'[s] = "applied"
          /\ \/ approval[s] = applied'[s]
             \/ \E read \in Readings[applied'[s]] :
                  /\ stored'[s] = read[s].stored
                  /\ stored[s] > 0 => stored'[s] > 0
                  /\ 100 * (stored[s] - read[s].staged) <= HoldShrinkPercent * stored[s]]_vars

\* Whatever a publisher lists, it covers s.
AlwaysListed(s) == \A rels \in Layouts : \E rel \in rels : s \in Covers[rel]

\* A run that was told to read a slice, by a replay or an approval, does not
\* end well without a decision on it: an unchanged listing is no excuse, and
\* neither is an attempt that was lost on the way.
RequestedIsDecided ==
  [][(FinishRun \/ ForgetUnchangedImport) =>
       \A s \in Slices :
         (/\ AlwaysListed(s)
          /\ kind = "replay" \/ approval[s] # NoContent
          /\ \A rel \in Releases : s \in Covers[rel] => row[DatasetOf[rel]] = "pending")
         => outcome[s] # "none"]_vars

\* A run that is deleted because it changed nothing has changed nothing, in
\* any of its attempts, and has left nothing to approve.
ForgottenRunWasIdle ==
  [][ForgetUnchangedImport =>
       applied = before /\ \A s \in Slices : outcome[s] # "held"]_vars

\* The bytes that the publisher serves for s.
Published(s) == {content[rel] : rel \in {q \in layout : s \in Covers[q]}}

\* When the publisher rests, every slice ends up with what is published, or
\* with those bytes held back: a release that was recorded as downloaded and
\* then not imported is not forgotten for ever.
CatchesUp ==
  \A s \in Slices : <>[](Published(s) \subseteq {applied[s], lastHeld[s]})

=============================================================================
