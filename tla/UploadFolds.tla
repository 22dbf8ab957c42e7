---------------------------- MODULE UploadFolds ----------------------------
(***************************************************************************)
(* Measurement uploads from their arrival in the queue of the engine to    *)
(* the deletion of their raw file: fold workers claim and fold them (store *)
(* /queue.rs, pipeline.rs, service/folding.rs), run workers subtract,      *)
(* restore, refold and rebuild (store/runs.rs, service/runs.rs), people    *)
(* withdraw them, administrators exclude and restore them, and the hourly  *)
(* purge and the deletion of an account remove raw files.                  *)
(*                                                                         *)
(* `digest' is how many times the readings of an upload are in the digest  *)
(* tables. All uploads of an instance share their cells, as a rebuild of   *)
(* one upload touches the others only through shared cells. Ages (a claim  *)
(* of ten minutes, a rejection of thirty days) pass at any moment.         *)
(***************************************************************************)
EXTENDS Integers, FiniteSets

CONSTANTS Uploads, FoldWorkers, RunWorkers,
          None,          \* no upload, no claim
          MaxAttempts,   \* MAX_ATTEMPTS in the code, 5
          Expiring,      \* uploads old enough that their file may come due by age
          MayForget,     \* whether the account is deleted in the instance
          MaxRestores, MaxRefolds, MaxCrashes   \* bounds on these events

UploadFoldsAssumption ==
    /\ MaxAttempts \in Nat \ {0}
    /\ Expiring \subseteq Uploads
    /\ MayForget \in BOOLEAN
    /\ {MaxRestores, MaxRefolds, MaxCrashes} \subseteq Nat
    /\ None \notin Uploads \cup RunWorkers

VARIABLES upload,    \* uploads: status, claimed_at, attempts, object_deleted_at
          fold,      \* upload_folds: no row, folded, or unfolded_at set
          locked,    \* the run worker whose transaction holds the fold row
          digest,    \* how often the digest holds the upload's readings
          files,     \* the raw files on disk
          rebuilds,  \* uploads named by a `rebuild' run that waits
          folder,    \* fold workers
          runner,    \* run workers
          restoring, \* restores that have passed the checks of updateUpload
          due,       \* uploads each deleter has listed, with the file still to go
          unmarked,  \* files removed whose objectDeletedAt is not yet written
          expired,   \* uploads past their retention
          account,   \* whether the sender still has an account
          claims,    \* claims made so far: each claimed_at is unique
          spent      \* restores, refolds and crashes so far

tables  == <<upload, fold, digest, rebuilds>>
deleter == <<due, unmarked>>
world   == <<expired, account>>
vars    == <<tables, locked, files, folder, runner, restoring, deleter, world, claims, spent>>

Removable == {"received", "processing", "processed", "rejected"}
Statuses  == Removable \cup {"withdrawn", "excluded"}
Kinds     == {"subtract", "restore", "refold", "rebuild"}
Deleters  == {"purge", "forget"}

IdleFolder == [at |-> "idle", upload |-> None, claim |-> 0, read |-> "none"]
IdleRunner == [at |-> "idle", kind |-> "none", upload |-> None, read |-> FALSE, kept |-> {}]

Init ==
    /\ upload = [u \in Uploads |-> [status |-> "received", claim |-> 0, attempts |-> 0, gone |-> FALSE]]
    /\ fold = [u \in Uploads |-> "none"]
    /\ locked = [u \in Uploads |-> None]
    /\ digest = [u \in Uploads |-> 0]
    /\ files = Uploads
    /\ rebuilds = {}
    /\ folder = [w \in FoldWorkers |-> IdleFolder]
    /\ runner = [w \in RunWorkers |-> IdleRunner]
    /\ restoring = {}
    /\ due = [d \in Deleters |-> {}]
    /\ unmarked = [d \in Deleters |-> {}]
    /\ expired = {}
    /\ account = TRUE
    /\ claims = 0
    /\ spent = [restore |-> 0, refold |-> 0, crash |-> 0]

SetStatus(u, status) == upload' = [upload EXCEPT ![u].status = status]
Spend(what, limit) == /\ spent[what] < limit
                      /\ spent' = [spent EXCEPT ![what] = @ + 1]

-----------------------------------------------------------------------------
(* Fold workers *)

\* A received upload, or one whose claim is ten minutes old.
Waiting(u) == upload[u].status \in {"received", "processing"}

GivesUp(u) == upload[u].attempts >= MaxAttempts

claim_upload(w, u) ==
    /\ folder[w].at = "idle"
    /\ Waiting(u)
    /\ IF GivesUp(u)
       THEN /\ upload' = [upload EXCEPT ![u].status = "rejected", ![u].claim = 0]
            /\ UNCHANGED <<folder, claims>>
       ELSE /\ claims' = claims + 1
            /\ upload' = [upload EXCEPT ![u].status = "processing", ![u].claim = claims + 1,
                                        ![u].attempts = @ + 1]
            /\ folder' = [folder EXCEPT ![w] = [at |-> "claimed", upload |-> u,
                                                claim |-> claims + 1, read |-> "none"]]
    /\ UNCHANGED <<fold, digest, rebuilds, locked, files, runner, restoring, deleter, world, spent>>

\* The file is read and folded in memory: it may be gone, unreadable, or leave
\* no sample. A failure that passes is tried again in place, from the reading
\* on, for eight minutes: it only makes the reading later.
fold_upload(w) ==
    /\ folder[w].at = "claimed"
    /\ \E read \in {"samples", "rejected"} :
          /\ folder[w].upload \in files \/ read = "rejected"
          /\ folder' = [folder EXCEPT ![w].at = "read", ![w].read = read]
    /\ UNCHANGED <<tables, locked, files, runner, restoring, deleter, world, claims, spent>>

HoldsClaim(w) == /\ upload[folder[w].upload].status = "processing"
                 /\ upload[folder[w].upload].claim = folder[w].claim

\* What a fold leaves in the digest: nothing when it is rolled back.
Written(w) == IF HoldsClaim(w) THEN 1 ELSE 0

\* The digest, the status and the fold row are written in one transaction,
\* which is rolled back when the claim is lost.
mark_processed(w) ==
    LET u == folder[w].upload IN
    /\ folder[w].at = "read" /\ folder[w].read = "samples"
    /\ IF HoldsClaim(w)
       THEN /\ SetStatus(u, "processed")
            /\ fold' = [fold EXCEPT ![u] = "folded"]
       ELSE UNCHANGED <<upload, fold>>
    /\ digest' = [digest EXCEPT ![u] = @ + Written(w)]
    /\ folder' = [folder EXCEPT ![w] = IdleFolder]
    /\ UNCHANGED <<rebuilds, locked, files, runner, restoring, deleter, world, claims, spent>>

reject(w) ==
    /\ folder[w].at = "read" /\ folder[w].read = "rejected"
    /\ IF HoldsClaim(w) THEN SetStatus(folder[w].upload, "rejected") ELSE UNCHANGED upload
    /\ folder' = [folder EXCEPT ![w] = IdleFolder]
    /\ UNCHANGED <<fold, digest, rebuilds, locked, files, runner, restoring, deleter, world, claims, spent>>

\* Folding failed for good, or for more than eight minutes.
release(w) ==
    /\ folder[w].at \in {"claimed", "read"}
    /\ IF HoldsClaim(w)
       THEN upload' = [upload EXCEPT ![folder[w].upload].status = "received", ![folder[w].upload].claim = 0]
       ELSE UNCHANGED upload
    /\ folder' = [folder EXCEPT ![w] = IdleFolder]
    /\ UNCHANGED <<fold, digest, rebuilds, locked, files, runner, restoring, deleter, world, claims, spent>>

\* The engine dies: the claim stays until it is ten minutes old.
FolderCrash(w) ==
    /\ folder[w].at # "idle"
    /\ Spend("crash", MaxCrashes)
    /\ folder' = [folder EXCEPT ![w] = IdleFolder]
    /\ UNCHANGED <<tables, locked, files, runner, restoring, deleter, world, claims>>

-----------------------------------------------------------------------------
(* Run workers. `subtract' and `restore' are drained with or without a run. *)

Folded(u) == upload[u].status = "processed" /\ ~upload[u].gone /\ fold[u] = "folded"

\* Mutant: withdrawn uploads are never subtracted.
OnlyExcluded == {"excluded"}
Subtracted == {"withdrawn", "excluded"}

Restored(u) == upload[u].status = "processed" /\ ~upload[u].gone /\ fold[u] = "unfolded"

condition(kind, u) ==
    CASE kind = "subtract" -> upload[u].status \in Subtracted /\ ~upload[u].gone /\ fold[u] = "folded"
      [] kind = "restore"  -> Restored(u)
      [] kind = "refold"   -> Folded(u)
      [] kind = "rebuild"  -> upload[u].status = "excluded" /\ fold[u] = "folded"

\* Mutant: the fold row is read without a lock.
lock_nothing(w, kind, u) ==
    /\ runner[w].at = "idle"
    /\ condition(kind, u)
    /\ runner' = [runner EXCEPT ![w] = [IdleRunner EXCEPT !.at = "locked", !.kind = kind, !.upload = u]]
    /\ UNCHANGED locked
\* A transaction that holds the fold row, and nothing of the upload's own row.
lock_folded(w, kind, u) ==
    /\ runner[w].at = "idle"
    /\ condition(kind, u) /\ locked[u] = None
    /\ runner' = [runner EXCEPT ![w] = [IdleRunner EXCEPT !.at = "locked", !.kind = kind, !.upload = u]]
    /\ locked' = [locked EXCEPT ![u] = w]

Drain(w, kind, u) ==
    /\ kind \in {"subtract", "restore"}
    /\ lock_folded(w, kind, u)
    /\ UNCHANGED <<tables, files, folder, restoring, deleter, world, claims, spent>>

\* A `refold' run that names this upload, whoever queued it.
Refold(w, u) ==
    /\ lock_folded(w, "refold", u)
    /\ Spend("refold", MaxRefolds)
    /\ UNCHANGED <<tables, files, folder, restoring, deleter, world, claims>>

\* A claimed run is never claimed again, also when it finds nothing to do.
Rebuild(w, u) ==
    /\ u \in rebuilds /\ runner[w].at = "idle"
    /\ rebuilds' = rebuilds \ {u}
    /\ lock_folded(w, "rebuild", u) \/ (~(condition("rebuild", u) /\ locked[u] = None) /\ UNCHANGED <<runner, locked>>)
    /\ UNCHANGED <<upload, fold, digest, files, folder, restoring, deleter, world, claims, spent>>

\* The file is read; a rebuild lists the uploads it will replay instead.
ReadFile(w) ==
    /\ runner[w].at = "locked"
    /\ runner' = [runner EXCEPT ![w].at = "read", ![w].read = runner[w].upload \in files,
                                ![w].kept = IF runner[w].kind = "rebuild"
                                            THEN {v \in Uploads \ {runner[w].upload} : Folded(v)} ELSE {}]
    /\ UNCHANGED <<tables, locked, files, folder, restoring, deleter, world, claims, spent>>

EndOfTransaction(w) == /\ locked' = [locked EXCEPT ![runner[w].upload] = None]
                       /\ runner' = [runner EXCEPT ![w] = IdleRunner]

note_file_gone(w) ==
    LET u == runner[w].upload IN
    /\ runner[w].at = "read" /\ runner[w].kind # "rebuild" /\ ~runner[w].read
    /\ upload' = [upload EXCEPT ![u].gone = TRUE]
    /\ rebuilds' = IF upload[u].status = "excluded" THEN rebuilds \cup {u} ELSE rebuilds
    /\ EndOfTransaction(w)
    /\ UNCHANGED <<fold, digest, files, folder, restoring, deleter, world, claims, spent>>

subtract_due(w) ==
    LET u == runner[w].upload IN
    /\ runner[w].at = "read" /\ runner[w].kind = "subtract" /\ runner[w].read
    /\ digest' = [digest EXCEPT ![u] = @ - 1]
    /\ fold' = [fold EXCEPT ![u] = "unfolded"]
    /\ EndOfTransaction(w)
    /\ UNCHANGED <<upload, rebuilds, files, folder, restoring, deleter, world, claims, spent>>

restore_due(w) ==
    LET u == runner[w].upload IN
    /\ runner[w].at = "read" /\ runner[w].kind = "restore" /\ runner[w].read
    /\ digest' = [digest EXCEPT ![u] = @ + 1]
    /\ fold' = [fold EXCEPT ![u] = "folded"]
    /\ EndOfTransaction(w)
    /\ UNCHANGED <<upload, rebuilds, files, folder, restoring, deleter, world, claims, spent>>

\* What was folded is subtracted and folded again as the settings are now. When
\* no sample is left the upload is rejected, whatever its status has become.
refold(w) ==
    LET u == runner[w].upload IN
    /\ runner[w].at = "read" /\ runner[w].kind = "refold" /\ runner[w].read
    /\ \/ UNCHANGED <<upload, fold, digest>>
       \/ /\ SetStatus(u, "rejected")
          /\ fold' = [fold EXCEPT ![u] = "none"]
          /\ digest' = [digest EXCEPT ![u] = @ - 1]
    /\ EndOfTransaction(w)
    /\ UNCHANGED <<rebuilds, files, folder, restoring, deleter, world, claims, spent>>

\* The cells are locked and emptied, and the uploads listed before are replayed
\* from the files that are still there.
rebuild(w) ==
    LET u == runner[w].upload IN
    /\ runner[w].at = "read" /\ runner[w].kind = "rebuild"
    /\ digest' = [v \in Uploads |-> IF v \in runner[w].kept \cap files THEN 1 ELSE 0]
    /\ fold' = [fold EXCEPT ![u] = "unfolded"]
    /\ EndOfTransaction(w)
    /\ UNCHANGED <<upload, rebuilds, files, folder, restoring, deleter, world, claims, spent>>

\* The engine dies or the step fails: the transaction is rolled back. A drain
\* finds the upload again; the run that was under way is not taken again.
RunnerCrash(w) ==
    /\ runner[w].at # "idle"
    /\ Spend("crash", MaxCrashes)
    /\ EndOfTransaction(w)
    /\ UNCHANGED <<tables, files, folder, restoring, deleter, world, claims>>

-----------------------------------------------------------------------------
(* People and administrators *)

withdrawUploads(u) ==
    /\ account
    /\ upload[u].status \in Removable
    /\ SetStatus(u, "withdrawn")
    /\ UNCHANGED <<fold, digest, rebuilds, locked, files, folder, runner, restoring, deleter, world, claims, spent>>

\* Whatever the engine has to subtract it finds by itself; a rebuild is queued
\* for a fold whose file is gone.
excludeUploads(u) ==
    /\ upload[u].status \in Removable
    /\ SetStatus(u, "excluded")
    /\ rebuilds' = IF fold[u] = "folded" /\ upload[u].gone THEN rebuilds \cup {u} ELSE rebuilds
    /\ UNCHANGED <<fold, digest, locked, files, folder, runner, restoring, deleter, world, claims, spent>>

\* updateUpload reads the row and refuses an upload whose file is gone.
updateUpload(u) ==
    /\ u \notin restoring
    /\ upload[u].status = "excluded" /\ ~upload[u].gone
    /\ Spend("restore", MaxRestores)
    /\ restoring' = restoring \cup {u}
    /\ UNCHANGED <<tables, locked, files, folder, runner, deleter, world, claims>>

\* restoreUpload, later, checks only that the upload is still excluded.
restoreUpload(u) ==
    /\ u \in restoring
    /\ restoring' = restoring \ {u}
    /\ upload' = IF upload[u].status # "excluded" THEN upload
                 ELSE IF fold[u] # "none" THEN [upload EXCEPT ![u].status = "processed"]
                 ELSE [upload EXCEPT ![u].status = "received", ![u].claim = 0, ![u].attempts = 0]
    /\ UNCHANGED <<fold, digest, rebuilds, locked, files, folder, runner, deleter, world, claims, spent>>

\* forgetContributorMeasurements: what is not folded is withdrawn, and every
\* file is listed for deletion.
forgetContributorMeasurements ==
    /\ MayForget /\ account
    /\ account' = FALSE
    /\ upload' = [u \in Uploads |-> IF upload[u].status \in {"received", "processing"}
                                    THEN [upload[u] EXCEPT !.status = "withdrawn"] ELSE upload[u]]
    /\ due' = [due EXCEPT !["forget"] = {u \in Uploads : ~upload[u].gone}]
    /\ UNCHANGED <<fold, digest, rebuilds, locked, files, folder, runner, restoring, unmarked, expired, claims, spent>>

-----------------------------------------------------------------------------
(* Raw files *)

findDueFiles(aged) ==
    {u \in Uploads :
        /\ ~upload[u].gone /\ upload[u].status # "processing"
        /\ upload[u].status \notin {"withdrawn", "excluded"} \/ fold[u] # "folded"
        /\ upload[u].status = "withdrawn" \/ u \in aged \/ u \in expired \/ ~account}

\* A purge lists its files once and then deletes them one by one. `aged' are
\* the uploads rejected thirty days ago.
purgeRawFiles ==
    /\ due["purge"] = {} /\ unmarked["purge"] = {}
    /\ \E aged \in SUBSET {u \in Expiring : upload[u].status = "rejected"} :
          /\ findDueFiles(aged) # {}
          /\ due' = [due EXCEPT !["purge"] = findDueFiles(aged)]
    /\ UNCHANGED <<tables, locked, files, folder, runner, restoring, unmarked, world, claims, spent>>

deleteUploadFile(d, u) ==
    \/ /\ u \in due[d] /\ unmarked[d] = {}
       /\ files' = files \ {u}
       /\ due' = [due EXCEPT ![d] = @ \ {u}]
       /\ unmarked' = [unmarked EXCEPT ![d] = {u}]
       /\ UNCHANGED upload
    \/ /\ u \in unmarked[d]
       /\ upload' = [upload EXCEPT ![u].gone = TRUE]
       /\ unmarked' = [unmarked EXCEPT ![d] = {}]
       /\ UNCHANGED <<files, due>>

Delete(d, u) ==
    /\ deleteUploadFile(d, u)
    /\ UNCHANGED <<fold, digest, rebuilds, locked, folder, runner, restoring, world, claims, spent>>

Expire(u) ==
    /\ u \in Expiring \ expired
    /\ expired' = expired \cup {u}
    /\ UNCHANGED <<tables, locked, files, folder, runner, restoring, deleter, account, claims, spent>>

-----------------------------------------------------------------------------

FolderStep(w) == \/ \E u \in Uploads : claim_upload(w, u)
                 \/ fold_upload(w) \/ mark_processed(w) \/ reject(w)

RunnerStep(w) == \/ \E u \in Uploads, kind \in Kinds : Drain(w, kind, u)
                 \/ \E u \in Uploads : Rebuild(w, u)
                 \/ ReadFile(w) \/ note_file_gone(w) \/ subtract_due(w) \/ restore_due(w)
                 \/ refold(w) \/ rebuild(w)

DeleterStep == purgeRawFiles \/ \E d \in Deleters, u \in Uploads : Delete(d, u)

Next ==
    \/ \E w \in FoldWorkers : FolderStep(w) \/ release(w) \/ FolderCrash(w)
    \/ \E w \in RunWorkers : RunnerStep(w) \/ RunnerCrash(w) \/ \E u \in Uploads : Refold(w, u)
    \/ \E u \in Uploads : \/ withdrawUploads(u) \/ excludeUploads(u) \/ updateUpload(u) \/ restoreUpload(u)
                          \/ Expire(u)
    \/ forgetContributorMeasurements
    \/ DeleterStep

\* Workers look for work every 30 seconds and finish what they began, requests
\* finish, and the purge runs every hour.
Fairness ==
    /\ \A w \in FoldWorkers : WF_vars(FolderStep(w))
    /\ \A w \in RunWorkers : WF_vars(RunnerStep(w))
    /\ \A u \in Uploads : WF_vars(restoreUpload(u))
    /\ WF_vars(DeleterStep)

Spec == Init /\ [][Next]_vars
FairSpec == Spec /\ Fairness

-----------------------------------------------------------------------------

TypeOK ==
    /\ upload \in [Uploads -> [status : Statuses, claim : Nat, attempts : 0 .. MaxAttempts, gone : BOOLEAN]]
    /\ fold \in [Uploads -> {"none", "folded", "unfolded"}]
    /\ locked \in [Uploads -> RunWorkers \cup {None}]
    /\ digest \in [Uploads -> Int]
    /\ files \subseteq Uploads /\ rebuilds \subseteq Uploads
    /\ folder \in [FoldWorkers -> [at : {"idle", "claimed", "read"}, upload : Uploads \cup {None}, claim : Nat,
                                   read : {"none", "samples", "rejected"}]]
    /\ runner \in [RunWorkers -> [at : {"idle", "locked", "read"}, kind : Kinds \cup {"none"},
                                  upload : Uploads \cup {None}, read : BOOLEAN, kept : SUBSET Uploads]]
    /\ restoring \subseteq Uploads
    /\ due \in [Deleters -> SUBSET Uploads] /\ unmarked \in [Deleters -> SUBSET Uploads]
    /\ expired \subseteq Expiring /\ account \in BOOLEAN /\ claims \in Nat
    /\ spent \in [restore : 0 .. MaxRestores, refold : 0 .. MaxRefolds, crash : 0 .. MaxCrashes]

\* The digest holds an upload once when its fold row says so and not at all
\* otherwise: no upload is folded by two workers, restored twice or subtracted
\* twice, and a fold that is rolled back leaves nothing.
CountedOnce ==
    /\ TypeOK
    /\ \A u \in Uploads : digest[u] = IF fold[u] = "folded" THEN 1 ELSE 0

\* The raw file of an upload is there, and no deleter has it on its list.
FileStays(u) ==
    u \in files /\ ~upload[u].gone /\ \A d \in Deleters : u \notin due[d] \cup unmarked[d]

\* No run worker is about to write a fold of an upload that was counting when
\* it looked.
NotTaken(u) ==
    \A w \in RunWorkers : runner[w].upload = u => runner[w].kind \notin {"restore", "refold"}

\* The digest and the files say what the status of an upload says.
InLine(u) ==
    CASE upload[u].status = "withdrawn" -> u \notin files /\ (digest[u] = 0 \/ ~account)
      [] upload[u].status = "excluded"  -> digest[u] = 0 \/ ~account \/ (upload[u].gone /\ spent.crash > 0)
      [] upload[u].status = "processed" -> digest[u] = 1 \/ ~FileStays(u)
      [] OTHER                          -> TRUE

\* What is removed goes, and what is restored comes back, also when it was
\* folded, read, claimed or subtracted meanwhile and when a worker crashes.  As
\* long as the readings of an upload can be told from its file, and no restore
\* or refold has its fold, a withdrawn one stops counting and its file is
\* deleted, both for good; an excluded one stops counting; and one that stays
\* processed counts.  An excluded one whose file was gone before stops counting
\* by a rebuild of its cells, which no crash may cut off.
\*   The deletion of the account takes the files first, and the readings stay.
\* So do those of an upload that is excluded while a deleter has its file on
\* its list, for which no rebuild is queued.
RemovedGoes ==
    \A u \in Uploads :
        /\ upload[u].status = "withdrawn" /\ NotTaken(u) /\ (fold[u] = "folded" => FileStays(u)) ~> []InLine(u)
        /\ \/ NotTaken(u) /\ FileStays(u)
           \/ upload[u].status = "excluded" /\ u \in rebuilds /\ locked[u] = None
             ~> InLine(u)
=============================================================================
