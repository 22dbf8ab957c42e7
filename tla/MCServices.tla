----------------------------- MODULE MCServices -----------------------------
(***************************************************************************)
(* The services and the shared cache on small instances.  They have no     *)
(* state in common, so a behaviour belongs to one part and the others      *)
(* stand still: interleaving them would show nothing more about any of     *)
(* them.                                                                   *)
(***************************************************************************)
EXTENDS StaleCache, Services
LOCAL INSTANCE TLC

VARIABLE part

ASSUME /\ Semaphore!SemaphoreAssumption /\ Leader!LeaderAssumption /\ Intake!IntakeAssumption
       /\ Folds!UploadFoldsAssumption /\ Flags!FlagsAssumption
       /\ Watches!NotificationsAssumption /\ Grants!GrantsAssumption

semaphoreVars == <<permits, waiters, task, aborted>>
leaderVars == <<leaderLock, ttl, life, election, current, active, beating, beat, chain, age>>
intakeVars == <<recorded, rawFiles, temporary, settled, delivery, sweep, day, crashes>>
foldVars == <<upload, fold, locked, digest, files, rebuilds, folder, runner, restoring,
              due, unmarked, pastRetention, account, claims, spent>>
flagVars == <<flags, people, lead, pass, opened, changes>>
watchVars == <<row, call, retries, seen, now, clock, batch, ok, told, lateEvents, raced, closes>>
grantVars == <<role, grants, nextId, req, failures, given>>
others == <<part, semaphoreVars, leaderVars, intakeVars, foldVars, flagVars, watchVars, grantVars>>

PartInit ==
  /\ part \in {"cache", "semaphore", "leader", "intake", "folds", "flags", "watches", "grants"}
  /\ Init /\ Semaphore!Init /\ Leader!Init /\ Intake!Init /\ Folds!Init
  /\ Flags!Init /\ (part # "flags" => lead = 1 /\ people = 0)
  /\ Watches!Init /\ Grants!Init

PartNext ==
  \/ part = "cache" /\ Next /\ UNCHANGED others
  \/ /\ part = "semaphore" /\ Semaphore!Next
     /\ UNCHANGED <<part, vars, leaderVars, intakeVars, foldVars, flagVars, watchVars, grantVars>>
  \/ /\ part = "leader" /\ Leader!Next
     /\ UNCHANGED <<part, vars, semaphoreVars, intakeVars, foldVars, flagVars, watchVars, grantVars>>
  \/ /\ part = "intake" /\ Intake!Next
     /\ UNCHANGED <<part, vars, semaphoreVars, leaderVars, foldVars, flagVars, watchVars, grantVars>>
  \/ /\ part = "folds" /\ Folds!Next
     /\ UNCHANGED <<part, vars, semaphoreVars, leaderVars, intakeVars, flagVars, watchVars, grantVars>>
  \/ /\ part = "flags" /\ Flags!Next
     /\ UNCHANGED <<part, vars, semaphoreVars, leaderVars, intakeVars, foldVars, watchVars, grantVars>>
  \/ /\ part = "watches" /\ Watches!Next
     /\ UNCHANGED <<part, vars, semaphoreVars, leaderVars, intakeVars, foldVars, flagVars, grantVars>>
  \/ /\ part = "grants" /\ Grants!Next
     /\ UNCHANGED <<part, vars, semaphoreVars, leaderVars, intakeVars, foldVars, flagVars, watchVars>>

PartSpec == PartInit /\ [][PartNext]_<<vars, others>>

\* All events are about what one user watches.
OneUser == [e \in Events |-> CHOOSE u \in Users : TRUE]

\* The passes differ in nothing but their names.
PassSymmetry == Permutations(Passes)
=============================================================================
