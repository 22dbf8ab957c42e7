----------------------------- MODULE MCProgress -----------------------------
(***************************************************************************)
(* What the server must bring to an end, on small instances: the scheduler *)
(* of the hosts, the folds of the measurement engine and the settings that *)
(* processes share.  These parts have no state in common, so a behaviour   *)
(* belongs to one of them and the others stand still: interleaving them    *)
(* would show nothing more about any of them.                              *)
(***************************************************************************)
EXTENDS Naturals, Sequences

CONSTANTS
  Hosts, Tasks, TTL, Latency, Terms, Calls,
  Uploads, FoldWorkers, RunWorkers, None, MaxAttempts, Expiring, MayForget,
  MaxRestores, MaxRefolds, MaxCrashes,
  Processes, Patches, Seeded, LockExpires, MaxUpdates, MaxFaults

VARIABLES
  part,
  leaderLock, ttl, life, election, current, active, beating, beat, chain, age,
  upload, fold, locked, digest, files, rebuilds, folder, runner, restoring,
  due, unmarked, expired, account, claims, spent,
  stored, isSet, memory, phase, inbox, resync, update, lock, audited, updates, faults

leaderVars == <<leaderLock, ttl, life, election, current, active, beating, beat, chain, age>>
foldVars == <<upload, fold, locked, digest, files, rebuilds, folder, runner, restoring,
              due, unmarked, expired, account, claims, spent>>
settingsVars == <<stored, isSet, memory, phase, inbox, resync, update, lock, audited, updates, faults>>

Leader == INSTANCE SchedulerLeader WITH Processes <- Hosts, lock <- leaderLock
Folds == INSTANCE UploadFolds
Settings == INSTANCE RuntimeSettings

ASSUME Leader!LeaderAssumption /\ Folds!UploadFoldsAssumption /\ Settings!SettingsAssumption

Init == part \in {"leader", "folds", "settings"} /\ Leader!Init /\ Folds!Init /\ Settings!Init

Next ==
  \/ part = "leader" /\ Leader!Next /\ UNCHANGED <<part, foldVars, settingsVars>>
  \/ part = "folds" /\ Folds!Next /\ UNCHANGED <<part, leaderVars, settingsVars>>
  \/ part = "settings" /\ Settings!Next /\ UNCHANGED <<part, leaderVars, foldVars>>

Leads == part = "leader"
FoldsUploads == part = "folds"
Sets == part = "settings"

\* The fairness of each part while it is the one that moves: Leader!Fairness,
\* Folds!Fairness and Settings!Fairness, in which every step is one of the part.
LeaderFairness ==
  /\ WF_leaderVars(Leads /\ Leader!Tick)
  /\ \A p \in Hosts :
       /\ WF_leaderVars(Leads /\ Leader!Restart(p))
       /\ WF_leaderVars(Leads /\ life[p] = "stopping" /\ Leader!Exit(p))
       /\ \A c \in Calls :
            /\ SF_leaderVars(Leads /\ Leader!TakesLock(p, c))
            /\ SF_leaderVars(Leads /\ Leader!FindsLock(p, c))
            /\ SF_leaderVars(Leads /\ Leader!RunAsScheduler(p, c))
            /\ WF_leaderVars(Leads /\ Leader!ElectionStep(p, c))
            /\ \A n \in Terms : SF_leaderVars(Leads /\ Leader!BeatStep(p, n, c))
       /\ \A n \in Terms, t \in Tasks :
            /\ SF_leaderVars(Leads /\ Leader!KeepsLock(p, n, t))
            /\ SF_leaderVars(Leads /\ Leader!TaskStep(p, n, t))

FoldsFairness ==
  /\ \A w \in FoldWorkers : WF_foldVars(FoldsUploads /\ Folds!FolderStep(w))
  /\ \A w \in RunWorkers : WF_foldVars(FoldsUploads /\ Folds!RunnerStep(w))
  /\ \A u \in Uploads : WF_foldVars(FoldsUploads /\ Folds!restoreUpload(u))
  /\ WF_foldVars(FoldsUploads /\ Folds!DeleterStep)

SettingsFairness ==
  \A p \in Processes :
    /\ WF_settingsVars(Sets /\ Settings!Step(p))
    /\ WF_settingsVars(Sets /\ Settings!Receive(p))
    /\ WF_settingsVars(Sets /\ (Settings!resyncRead(p) \/ Settings!resyncApply(p)))

FairSpec ==
  /\ Init /\ [][Next]_<<part, leaderVars, foldVars, settingsVars>>
  /\ LeaderFairness /\ FoldsFairness /\ SettingsFairness

\* The scheduler comes back, ends a term it has lost and goes on with its
\* tasks (runAsScheduler, tryBecomeScheduler).
SchedulerGoesOn == part = "leader" => Leader!SchedulerGoesOn

\* What is withdrawn or excluded stops counting, withdrawn files go, and what is
\* restored counts again (subtract_due, rebuild, restore_due, purgeRawFiles).
RemovedGoes == part = "folds" => Folds!RemovedGoes

\* All processes end with the settings that are stored (updateSettings, its
\* messages and the resynchronisation).
SettingsAgree == part = "settings" => Settings!SettingsAgree
=============================================================================
