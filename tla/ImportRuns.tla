----------------------------- MODULE ImportRuns -----------------------------
(***************************************************************************)
(* The queue of official-register import runs and the runners that claim,  *)
(* process, hand back and lose them:                                       *)
(*   apps/server/src/features/official/import/runs.ts    (the run table)   *)
(*   apps/server/src/features/official/import/runner.ts  (the loop)        *)
(*   apps/server/src/features/official/import/run.ts     (how a run ends)  *)
(*                                                                         *)
(* A run is one row of official_import_runs.  A runner is one importer     *)
(* process.  Every write of a runner is made in an "ownership transaction" *)
(* (inRunTransaction): it locks the row of the run FOR UPDATE and requires *)
(* that the row is running and still carries the token of its own claim.   *)
(* What a run writes is in ImportDatasets and ImportAfterSteps; here its   *)
(* work is a log of the attempts that committed it.                        *)
(***************************************************************************)
EXTENDS Integers, Sequences, FiniteSets

CONSTANTS
  Runners,      \* the processes that process runs: importers ...
  CommandLine,  \* ... and those that scripts/officialImport.ts started
  Sources,      \* the registers runs belong to
  MaxRuns,      \* bound: rows ever inserted
  MaxAttempts,  \* MAX_RUN_ATTEMPTS (5 in config.ts)
  MaxLog        \* bound: work transactions committed per run

ASSUME RunsAssumption ==
  /\ MaxRuns \in Nat \ {0}
  /\ MaxAttempts \in Nat \ {0}
  /\ MaxLog \in Nat
  /\ CommandLine \subseteq Runners

Runs == 1 .. MaxRuns    \* in the order of (created_at, id)
NoRun == 0
NoToken == 0            \* claim_token IS NULL

VARIABLES
  state,      \* state[r], with "none" before the insert and "gone" after a delete
  source,     \* source[r]: the source of the run
  token,      \* token[r]: claim_token
  attempt,    \* attempt[r]: how often the run was claimed
  stale,      \* stale[r]: heartbeat_at is older than STALE_HEARTBEAT_MINUTES
  log,        \* log[r]: the attempts that committed work of r, oldest first
  pc,         \* pc[w]: where the process stands
  seen,       \* seen[w]: the candidates in the snapshot of its claim statement
  run,        \* run[w], ownToken[w], ownAttempt[w]: its ClaimedRun
  ownToken,
  ownAttempt,
  stopping,   \* stopping[w]: stop() was called
  aborted     \* aborted[w]: the signal of its session is aborted

rowVars == <<state, source, token, attempt, stale>>
claimVars == <<run, ownToken, ownAttempt>>
vars == <<state, source, token, attempt, stale, log,
          pc, seen, run, ownToken, ownAttempt, stopping, aborted>>

Live == {"queued", "running"}
Ended == {"done", "failed", "cancelled"}
States == {"none", "gone"} \cup Live \cup Ended

\* "idle" at the head of the loop, "retry" inside claim() after it failed an
\* abandoned run, "claim" with the snapshot of the claim statement taken,
\* "work" inside processRun, "tx" with an ownership transaction open, "return"
\* holding a run that was claimed after stop(), "down" not running.
Places == {"idle", "retry", "claim", "work", "tx", "return", "down"}

-----------------------------------------------------------------------------
\* Mutant: requireOwnership reads the row without FOR UPDATE.
LockedNever(r) == FALSE

\* The row lock that requireOwnership takes, held until the transaction ends.
Locked(r) == \E w \in Runners : pc[w] = "tx" /\ run[w] = r

\* Mutant: ownership is a running row, whatever its token.
OwnsWithoutToken(w) == run[w] # NoRun /\ state[run[w]] = "running"

\* Mutant: ownership is the token, whatever the state (cancelRun keeps it).
OwnsWithoutState(w) == run[w] # NoRun /\ token[run[w]] = ownToken[w]

\* What requireOwnership demands of the stored row.
Owns(w) ==
  /\ run[w] # NoRun
  /\ token[run[w]] = ownToken[w]
  /\ state[run[w]] = "running"

\* Mutant: a run whose runner died is never taken over.
ClaimableQueuedOnly(r) == state[r] = "queued"

\* Queued, or running with a heartbeat older than STALE_HEARTBEAT_MINUTES.
Claimable(r) == state[r] = "queued" \/ (state[r] = "running" /\ stale[r])

\* Another run of the same source is running: the NOT EXISTS of the claim, and
\* also what the partial unique index of the table refuses.
SourceBusy(r) ==
  \E q \in Runs : q # r /\ state[q] = "running" /\ source[q] = source[r]

-----------------------------------------------------------------------------
Init ==
  /\ state = [r \in Runs |-> "none"]
  /\ source \in [Runs -> Sources]
  /\ token = [r \in Runs |-> NoToken]
  /\ attempt = [r \in Runs |-> 0]
  /\ stale = [r \in Runs |-> FALSE]
  /\ log = [r \in Runs |-> <<>>]
  /\ pc = [w \in Runners |-> "idle"]
  /\ seen = [w \in Runners |-> {}]
  /\ run = [w \in Runners |-> NoRun]
  /\ ownToken = [w \in Runners |-> NoToken]
  /\ ownAttempt = [w \in Runners |-> 0]
  /\ stopping = [w \in Runners |-> FALSE]
  /\ aborted = [w \in Runners |-> FALSE]

\* enqueueRun: insert the next row.
EnqueueRun(r) ==
  /\ state[r] = "none"
  /\ \A q \in Runs : q < r => state[q] # "none"
  /\ state' = [state EXCEPT ![r] = "queued"]
  /\ UNCHANGED <<source, token, attempt, stale, log, pc, seen, claimVars, stopping, aborted>>

\* cancelRun: asks for no ownership, but waits for the row lock.
CancelRun(r) ==
  /\ state[r] \in Live
  /\ ~Locked(r)
  /\ state' = [state EXCEPT ![r] = "cancelled"]
  /\ UNCHANGED <<source, token, attempt, stale, log, pc, seen, claimVars, stopping, aborted>>

\* Ten minutes pass without a heartbeat that counts.  A live runner can be
\* late too: touchHeartbeat writes now(), the START of its transaction, and
\* the heartbeat waits for the row lock of a long transaction.
HeartbeatLapses(r) ==
  /\ state[r] = "running"
  /\ ~stale[r]
  /\ stale' = [stale EXCEPT ![r] = TRUE]
  /\ UNCHANGED <<state, source, token, attempt, log, pc, seen, claimVars, stopping, aborted>>

-----------------------------------------------------------------------------
\* The process leaves its run, or its fruitless claim, and is back at the head
\* of the loop, which ends after stop().
Leave(w) ==
  /\ pc' = [pc EXCEPT ![w] = IF stopping[w] THEN "down" ELSE "idle"]
  /\ seen' = [seen EXCEPT ![w] = {}]
  /\ run' = [run EXCEPT ![w] = NoRun]
  /\ ownToken' = [ownToken EXCEPT ![w] = NoToken]
  /\ ownAttempt' = [ownAttempt EXCEPT ![w] = 0]
  /\ aborted' = [aborted EXCEPT ![w] = FALSE]
  /\ UNCHANGED stopping

\* claimOldestRun is one statement under READ COMMITTED.  Its WHERE clause is
\* evaluated on the statement's snapshot: of every run (claimNextRun), or of
\* the one run the command line asks for (claimRun) ...
ClaimSnapshot(w) ==
  /\ (pc[w] = "idle" /\ ~stopping[w]) \/ pc[w] = "retry"
  /\ pc' = [pc EXCEPT ![w] = "claim"]
  /\ \E asked \in IF w \in CommandLine THEN {{r} : r \in Runs} ELSE {Runs} :
       seen' = [seen EXCEPT ![w] = {r \in asked : Claimable(r) /\ ~SourceBusy(r)}]
  /\ UNCHANGED <<rowVars, log, claimVars, stopping, aborted>>

\* ... and the row is then locked, if nobody holds it (SKIP LOCKED), after its
\* own columns are checked again on the current version.
Candidates(w) == {r \in seen[w] : Claimable(r) /\ ~Locked(r)}

IsOldest(r, C) == r \in C /\ \A q \in C : r <= q

ClaimNothing(w) ==
  /\ pc[w] = "claim"
  /\ Candidates(w) = {}
  /\ Leave(w)
  /\ UNCHANGED <<rowVars, log>>

\* Mutant: one attempt too many.
HasAttemptLeftLate(r) == attempt[r] <= MaxAttempts

HasAttemptLeft(r) == attempt[r] < MaxAttempts

\* The claim that finds a run out of attempts fails it, and claim() goes on.
ClaimAbandons(w) ==
  /\ pc[w] = "claim"
  /\ \E r \in Runs :
       /\ IsOldest(r, Candidates(w))
       /\ ~HasAttemptLeft(r)
       /\ state' = [state EXCEPT ![r] = "failed"]
       /\ token' = [token EXCEPT ![r] = NoToken]
       /\ stale' = [stale EXCEPT ![r] = FALSE]
  /\ pc' = [pc EXCEPT ![w] = "retry"]
  /\ seen' = [seen EXCEPT ![w] = {}]
  /\ UNCHANGED <<source, attempt, log, claimVars, stopping, aborted>>

\* Mutant: the table has no such index, and the NOT EXISTS is all there is.
IndexRefusesNever(r) == FALSE

\* The unique index of running runs per source rejects the update.
IndexRefuses(r) == SourceBusy(r)

\* claim() answers null on UNIQUE_VIOLATION.
ClaimRefused(w) ==
  /\ pc[w] = "claim"
  /\ \E r \in Runs : /\ IsOldest(r, Candidates(w))
                     /\ HasAttemptLeft(r)
                     /\ IndexRefuses(r)
  /\ Leave(w)
  /\ UNCHANGED <<rowVars, log>>

\* Mutant: a takeover keeps the token of the claim it replaces.
ClaimTokenKept(r) == IF token[r] = NoToken THEN attempt[r] + 1 ELSE token[r]

\* The token a claim stores.  randomUUID never repeats one, and a token is
\* only compared with the tokens of its own run, so the number of the claim
\* stands for it.
ClaimToken(r) == attempt[r] + 1

ClaimRun(w) ==
  /\ pc[w] = "claim"
  /\ \E r \in Runs :
       /\ IsOldest(r, Candidates(w))
       /\ HasAttemptLeft(r)
       /\ ~IndexRefuses(r)
       /\ state' = [state EXCEPT ![r] = "running"]
       /\ token' = [token EXCEPT ![r] = ClaimToken(r)]
       /\ attempt' = [attempt EXCEPT ![r] = attempt[r] + 1]
       /\ stale' = [stale EXCEPT ![r] = FALSE]
       /\ run' = [run EXCEPT ![w] = r]
       /\ ownToken' = [ownToken EXCEPT ![w] = ClaimToken(r)]
       /\ ownAttempt' = [ownAttempt EXCEPT ![w] = attempt[r] + 1]
  /\ pc' = [pc EXCEPT ![w] = IF stopping[w] THEN "return" ELSE "work"]
  /\ seen' = [seen EXCEPT ![w] = {}]
  /\ UNCHANGED <<source, log, stopping, aborted>>

-----------------------------------------------------------------------------
\* What inRunTransaction needs to go on: the row lock, and ownership.
MayWrite(w) == pc[w] = "work" /\ Owns(w) /\ ~Locked(run[w])

\* The interval of startHeartbeat: an ownership transaction of its own that
\* touches the row ...
Beat(w) ==
  /\ MayWrite(w)
  /\ stale' = [stale EXCEPT ![run[w]] = FALSE]
  /\ UNCHANGED <<state, source, token, attempt, log, pc, seen, claimVars, stopping, aborted>>

\* ... or tells the session that the run is lost.
BeatLost(w) ==
  /\ pc[w] = "work"
  /\ ~Owns(w)
  /\ aborted' = [aborted EXCEPT ![w] = TRUE]
  /\ UNCHANGED <<rowVars, log, pc, seen, claimVars, stopping>>

\* inRunTransaction.  An aborted session may still get here: the transaction
\* itself does not ask the signal.
BeginTransaction(w) ==
  /\ MayWrite(w)
  /\ pc' = [pc EXCEPT ![w] = "tx"]
  /\ UNCHANGED <<rowVars, log, seen, claimVars, stopping, aborted>>

\* Its work commits, with or without a touchHeartbeat.
CommitTransaction(w) ==
  /\ pc[w] = "tx"
  /\ Len(log[run[w]]) < MaxLog
  /\ log' = [log EXCEPT ![run[w]] = Append(log[run[w]], ownAttempt[w])]
  /\ stale' \in {stale, [stale EXCEPT ![run[w]] = FALSE]}
  /\ pc' = [pc EXCEPT ![w] = "work"]
  /\ UNCHANGED <<state, source, token, attempt, seen, claimVars, stopping, aborted>>

\* An error in it, or a dry run's DryRunRollback, undoes all of it.
RollbackTransaction(w) ==
  /\ pc[w] = "tx"
  /\ pc' = [pc EXCEPT ![w] = "work"]
  /\ UNCHANGED <<rowVars, log, seen, claimVars, stopping, aborted>>

\* The transaction that ends the run: finishRun (done), failRun (failed) or
\* forgetUnchangedImport's deleteRun (gone).
EndRun(w) ==
  /\ MayWrite(w)
  /\ \E end \in {"done", "failed", "gone"} :
       state' = [state EXCEPT ![run[w]] = end]
  /\ Leave(w)
  /\ UNCHANGED <<source, token, attempt, stale, log>>

\* RunNotOwnedError, from a transaction or from the aborted signal: processRun
\* answers "lost" and writes nothing.
LoseRun(w) ==
  /\ pc[w] = "work"
  /\ ~Owns(w) \/ aborted[w]
  /\ Leave(w)
  /\ UNCHANGED <<rowVars, log>>

\* endFailedRun cannot reach the database: processRun throws, the loop logs it
\* and goes on, and the row stays running under a token nobody uses any more.
ThrowRun(w) ==
  /\ pc[w] = "work"
  /\ Leave(w)
  /\ UNCHANGED <<rowVars, log>>

\* The prune step's transaction deletes every ended run created before a
\* cutoff that lies before the start of its own run.
PruneRuns(w) ==
  /\ MayWrite(w)
  /\ \E cutoff \in Runs :
       /\ cutoff < run[w]
       /\ state' = [r \in Runs |->
            IF r <= cutoff /\ state[r] \in Ended THEN "gone" ELSE state[r]]
  /\ UNCHANGED <<source, token, attempt, stale, log, pc, seen, claimVars, stopping, aborted>>

-----------------------------------------------------------------------------
\* stop(): no further claim, and the run in flight is handed back.
StopRunner(w) ==
  /\ w \notin CommandLine
  /\ pc[w] # "down"
  /\ ~stopping[w]
  /\ stopping' = [stopping EXCEPT ![w] = TRUE]
  /\ pc' = [pc EXCEPT ![w] = IF pc[w] = "idle" THEN "down" ELSE pc[w]]
  /\ UNCHANGED <<rowVars, log, seen, claimVars, aborted>>

\* releaseRun: the row is queued again; its attempt stays counted.
ReleaseRun(r) ==
  /\ state' = [state EXCEPT ![r] = "queued"]
  /\ token' = [token EXCEPT ![r] = NoToken]

\* handBack: release the run if it is still owned; a failure is only logged.
TryRelease(w) ==
  /\ \/ Owns(w) /\ ~Locked(run[w]) /\ ReleaseRun(run[w])
     \/ UNCHANGED <<state, token>>
  /\ UNCHANGED <<source, attempt, stale, log>>

\* stop() hands the run in flight back and then aborts its session.
HandBackInFlight(w) ==
  /\ pc[w] = "work" /\ stopping[w] /\ ~aborted[w]
  /\ TryRelease(w)
  /\ aborted' = [aborted EXCEPT ![w] = TRUE]
  /\ UNCHANGED <<pc, seen, claimVars, stopping>>

\* The loop hands back a run whose claim returned after stop().
HandBackUnprocessed(w) ==
  /\ pc[w] = "return"
  /\ TryRelease(w)
  /\ Leave(w)

\* The process dies; PostgreSQL rolls its open transaction back.
Crash(w) ==
  /\ pc[w] # "down"
  /\ pc' = [pc EXCEPT ![w] = "down"]
  /\ seen' = [seen EXCEPT ![w] = {}]
  /\ run' = [run EXCEPT ![w] = NoRun]
  /\ ownToken' = [ownToken EXCEPT ![w] = NoToken]
  /\ ownAttempt' = [ownAttempt EXCEPT ![w] = 0]
  /\ aborted' = [aborted EXCEPT ![w] = FALSE]
  /\ UNCHANGED <<rowVars, log, stopping>>

Restart(w) ==
  /\ pc[w] = "down"
  /\ pc' = [pc EXCEPT ![w] = "idle"]
  /\ stopping' = [stopping EXCEPT ![w] = FALSE]
  /\ UNCHANGED <<rowVars, log, seen, claimVars, aborted>>

-----------------------------------------------------------------------------
Claim(w) == ClaimNothing(w) \/ ClaimAbandons(w) \/ ClaimRefused(w) \/ ClaimRun(w)

Next ==
  \/ \E r \in Runs : EnqueueRun(r) \/ CancelRun(r) \/ HeartbeatLapses(r)
  \/ \E w \in Runners :
       \/ ClaimSnapshot(w) \/ Claim(w) \/ Beat(w) \/ BeatLost(w)
       \/ BeginTransaction(w) \/ CommitTransaction(w) \/ RollbackTransaction(w)
       \/ EndRun(w) \/ LoseRun(w) \/ ThrowRun(w) \/ PruneRuns(w)
       \/ StopRunner(w) \/ HandBackInFlight(w) \/ HandBackUnprocessed(w)
       \/ Crash(w) \/ Restart(w)

Spec == Init /\ [][Next]_vars

\* A process that is up keeps going, and one that is down is started again
\* (its supervisor).  Strong fairness where a crash, a stop or a competing
\* claim can disable the step over and over: they do not hit it every time.
Fairness ==
  /\ \A r \in Runs : WF_vars(HeartbeatLapses(r))
  /\ \A w \in Runners :
       /\ WF_vars(Restart(w))
       /\ SF_vars(ClaimSnapshot(w))
       /\ SF_vars(Claim(w))
       /\ WF_vars(CommitTransaction(w) \/ RollbackTransaction(w))
       /\ SF_vars(EndRun(w) \/ LoseRun(w))
       /\ WF_vars(HandBackUnprocessed(w))

FairSpec == Spec /\ Fairness

-----------------------------------------------------------------------------
(* Properties *)

\* The table and the processes keep their types; no run is claimed more often
\* than MAX_RUN_ATTEMPTS.
TypeOK ==
  /\ state \in [Runs -> States]
  /\ source \in [Runs -> Sources]
  /\ token \in [Runs -> 0 .. MaxAttempts]
  /\ attempt \in [Runs -> 0 .. MaxAttempts]
  /\ stale \in [Runs -> BOOLEAN]
  /\ log \in [Runs -> Seq(1 .. MaxAttempts)]
  /\ pc \in [Runners -> Places]
  /\ seen \in [Runners -> SUBSET Runs]
  /\ run \in [Runners -> {NoRun} \cup Runs]
  /\ ownToken \in [Runners -> 0 .. MaxAttempts]
  /\ ownAttempt \in [Runners -> 0 .. MaxAttempts]
  /\ stopping \in [Runners -> BOOLEAN]
  /\ aborted \in [Runners -> BOOLEAN]

\* A source has at most one running run, although a claim decides on a
\* snapshot in which the competing claim has not happened yet.
OneRunningPerSource ==
  \A r, q \in Runs :
    (state[r] = "running" /\ state[q] = "running" /\ source[r] = source[q]) => r = q

\* A claim belongs to one process: a token that still opens transactions is
\* held by the last claimer alone, however often the run changed hands.
AtMostOneOwner ==
  \A w, v \in Runners : (Owns(w) /\ Owns(v) /\ run[w] = run[v]) => w = v

\* Two processes never have transactions open on runs of one source, even
\* across a cancel, a hand-back or a takeover.
SourceExclusive ==
  \A w, v \in Runners :
    (pc[w] = "tx" /\ pc[v] = "tx" /\ source[run[w]] = source[run[v]]) => w = v

\* Work is committed in the order of the attempts: once a later attempt has
\* committed, the runner it replaced commits nothing more.
WorkInAttemptOrder ==
  \A r \in Runs : \A i, j \in 1 .. Len(log[r]) : i < j => log[r][i] <= log[r][j]

\* A run that ended stays as it ended, until it is pruned: no late runner
\* finishes, fails or requeues it.
EndedStays ==
  [][\A r \in Runs :
       /\ state[r] \in Ended => state'[r] \in {state[r], "gone"}
       /\ state[r] = "gone" => state'[r] = "gone"]_vars

\* Every queued or running run ends, through crashes, stops and takeovers.
EveryRunEnds ==
  \A r \in Runs : (state[r] \in Live) ~> (state[r] \notin Live)

\* The table implements the lease it is used as.
Lease == INSTANCE ImportLease WITH phase <- state, epoch <- attempt

\* Every step of the table and its runners is a step of the abstract lease:
\* work is committed under the current epoch only, and a source is granted
\* to one run at a time.
ImplementsLease == Lease!Spec

=============================================================================
