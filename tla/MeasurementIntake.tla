------------------------- MODULE MeasurementIntake -------------------------
(***************************************************************************)
(* The intake of measurement uploads (measurements/uploads/intake.ts): a   *)
(* delivery writes the raw file, then the row that names it, and several   *)
(* deliveries of one upload may be under way, in several processes and     *)
(* across midnight. A process may die in between; sweepOrphanFiles         *)
(* (rawFiles/purge.ts) removes the files that no row names.                *)
(*                                                                         *)
(* A file is named by its upload and the day it was received. Signature,   *)
(* body and storage budget are refusals before anything is written. The    *)
(* time between a delivery's file and its row is taken to be under an hour *)
(* (ORPHAN_MIN_AGE_MS), and the days of an instance under SWEPT_DAYS.      *)
(***************************************************************************)
EXTENDS Integers, FiniteSets

CONSTANTS Uploads, Deliveries, None,
          LastDay,      \* bound: the days of the instance are 1 .. LastDay
          Quota,        \* MEASUREMENT_UPLOAD_QUOTAS.uploadsPerPerson
          MaxCrashes    \* bound on deliveries that die

\* The name of a temporary file is not the one of a raw file.
IntakeAssumption ==
    /\ LastDay \in Nat \ {0} /\ Quota \in Nat /\ MaxCrashes \in Nat
    /\ None \notin Uploads /\ Uploads \cap Deliveries = {}

VARIABLES row,        \* uploads: the day in the row, 0 when there is none
          files,      \* raw files: upload and day
          temporary,  \* temporary files: delivery and day
          settled,    \* the files and temporary files older than an hour
          delivery,   \* each request
          sweep,      \* the sweeper: what it listed, and the orphans it removes
          day, crashes

vars == <<row, files, temporary, settled, delivery, sweep, day, crashes>>

Days == 1 .. LastDay
NoDelivery == [at |-> "start", upload |-> None, day |-> 0, outcome |-> "none"]
NoSweep == [at |-> "idle", listed |-> {}, orphans |-> {}]

Init ==
    /\ row = [u \in Uploads |-> 0]
    /\ files = {} /\ temporary = {} /\ settled = {}
    /\ delivery = [d \in Deliveries |-> NoDelivery]
    /\ sweep = NoSweep
    /\ day = 1 /\ crashes = 0

Path(d) == <<delivery[d].upload, delivery[d].day>>
Recorded == {u \in Uploads : row[u] # 0}
RecordedPaths == {<<u, row[u]>> : u \in Recorded}

-----------------------------------------------------------------------------

\* An upload that is recorded already is answered from its row.
FindStored(d, u) ==
    /\ delivery[d].at = "start"
    /\ delivery' = [delivery EXCEPT ![d].upload = u, ![d].at = IF u \in Recorded THEN "stored" ELSE "new"]
    /\ UNCHANGED <<row, files, temporary, settled, sweep, day, crashes>>

\* Every upload of the instance is of one person and within the window.
assertUploadQuotas(d) ==
    /\ delivery[d].at = "new"
    /\ delivery' = [delivery EXCEPT ![d].at = IF Cardinality(Recorded) >= Quota THEN "refused" ELSE "admitted"]
    /\ UNCHANGED <<row, files, temporary, settled, sweep, day, crashes>>

\* The day is taken, and the body written to a temporary file of its own.
WriteTemporary(d) ==
    /\ delivery[d].at = "admitted"
    /\ delivery' = [delivery EXCEPT ![d].at = "writing", ![d].day = day]
    /\ temporary' = temporary \cup {<<d, day>>}
    /\ UNCHANGED <<row, files, settled, sweep, day, crashes>>

\* The link fails where the file exists: that file is taken as this upload's.
Link(d) ==
    /\ delivery[d].at = "writing"
    /\ delivery' = [delivery EXCEPT ![d].at = "written",
                                    ![d].outcome = IF Path(d) \in files THEN "exists" ELSE "written"]
    /\ files' = files \cup {Path(d)}
    /\ temporary' = temporary \ {<<d, delivery[d].day>>}
    /\ UNCHANGED <<row, settled, sweep, day, crashes>>

recordUpload(d) ==
    LET u == delivery[d].upload IN
    /\ delivery[d].at = "written"
    /\ IF u \in Recorded
       THEN /\ delivery' = [delivery EXCEPT ![d].at = "lost"]
            /\ UNCHANGED row
       ELSE /\ row' = [row EXCEPT ![u] = delivery[d].day]
            /\ delivery' = [delivery EXCEPT ![d].at = "stored"]
    /\ UNCHANGED <<files, temporary, settled, sweep, day, crashes>>

\* Mutant: the file is removed although the winner's row names it.
RemovesWritten(d) == delivery[d].outcome = "written"
\* The loser of a race removes its own file when no row names it.
RemovesItsFile(d) == /\ delivery[d].outcome = "written"
                     /\ row[delivery[d].upload] # delivery[d].day

\* A failing removal is logged and leaves the file.
settleLostRace(d) ==
    /\ delivery[d].at = "lost"
    /\ \/ files' = IF RemovesItsFile(d) THEN files \ {Path(d)} ELSE files
       \/ RemovesItsFile(d) /\ UNCHANGED files
    /\ delivery' = [delivery EXCEPT ![d].at = "stored"]
    /\ settled' = settled \cap (files' \cup temporary)
    /\ UNCHANGED <<row, temporary, sweep, day, crashes>>

\* The process dies, or the storage or the database fails.
Crash(d) ==
    /\ delivery[d].at \in {"new", "admitted", "writing", "written", "lost"}
    /\ crashes < MaxCrashes
    /\ crashes' = crashes + 1
    /\ delivery' = [delivery EXCEPT ![d].at = "failed"]
    /\ UNCHANGED <<row, files, temporary, settled, sweep, day>>

-----------------------------------------------------------------------------
(* The sweeper *)

\* A file settles when an hour has passed since it was written.
Settle(f) ==
    /\ f \in (files \cup temporary) \ settled
    /\ \A d \in Deliveries :
          delivery[d].at \in {"writing", "written", "lost"} =>
             /\ f # <<d, delivery[d].day>>
             /\ f = Path(d) => delivery[d].outcome = "exists"
    /\ settled' = settled \cup {f}
    /\ UNCHANGED <<row, files, temporary, delivery, sweep, day, crashes>>

ListDay(n) ==
    /\ sweep.at = "idle"
    /\ \E f \in settled : f[2] = n
    /\ sweep' = [at |-> "listed", listed |-> {f \in settled : f[2] = n}, orphans |-> {}]
    /\ UNCHANGED <<row, files, temporary, settled, delivery, day, crashes>>

Orphans(listed) == listed \ RecordedPaths

ReadRows ==
    /\ sweep.at = "listed"
    /\ sweep' = IF Orphans(sweep.listed) = {} THEN NoSweep
                ELSE [at |-> "removing", listed |-> {}, orphans |-> Orphans(sweep.listed)]
    /\ UNCHANGED <<row, files, temporary, settled, delivery, day, crashes>>

RemoveOrphan(f) ==
    /\ sweep.at = "removing" /\ f \in sweep.orphans
    /\ files' = files \ {f} /\ temporary' = temporary \ {f} /\ settled' = settled \ {f}
    /\ sweep' = IF sweep.orphans = {f} THEN NoSweep ELSE [sweep EXCEPT !.orphans = @ \ {f}]
    /\ UNCHANGED <<row, delivery, day, crashes>>

sweepOrphanFiles ==
    \/ \E n \in Days : ListDay(n)
    \/ ReadRows
    \/ \E f \in sweep.orphans : RemoveOrphan(f)

Midnight ==
    /\ day < LastDay
    /\ day' = day + 1
    /\ UNCHANGED <<row, files, temporary, settled, delivery, sweep, crashes>>

-----------------------------------------------------------------------------

Step(d) == \/ assertUploadQuotas(d) \/ WriteTemporary(d) \/ Link(d) \/ recordUpload(d)
           \/ settleLostRace(d)

AllFiles == (Uploads \cup Deliveries) \X Days

Next ==
    \/ \E d \in Deliveries : Step(d) \/ Crash(d) \/ \E u \in Uploads : FindStored(d, u)
    \/ \E f \in AllFiles : Settle(f)
    \/ sweepOrphanFiles
    \/ Midnight

Spec == Init /\ [][Next]_vars

-----------------------------------------------------------------------------

TypeOK ==
    /\ row \in [Uploads -> 0 .. LastDay]
    /\ files \subseteq Uploads \X Days
    /\ temporary \subseteq Deliveries \X Days
    /\ settled \subseteq files \cup temporary
    /\ delivery \in [Deliveries -> [at : {"start", "stored", "new", "refused", "admitted", "writing", "written",
                                          "lost", "failed"},
                                    upload : Uploads \cup {None}, day : 0 .. LastDay,
                                    outcome : {"none", "exists", "written"}]]
    /\ sweep \in [at : {"idle", "listed", "removing"}, listed : SUBSET AllFiles, orphans : SUBSET AllFiles]
    /\ day \in Days /\ crashes \in 0 .. MaxCrashes

\* The file a row names is there as long as no delivery has died: neither the
\* loser of a race nor the sweeper takes the file of an upload that was accepted.
RecordedFileKept ==
    /\ TypeOK
    /\ crashes = 0 => RecordedPaths \subseteq files

=============================================================================
