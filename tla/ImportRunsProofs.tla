-------------------------- MODULE ImportRunsProofs --------------------------
(***************************************************************************)
(* Theorems about ImportRuns, for any number of processes, sources, runs   *)
(* and attempts.  The inductive invariant Inv says what a claim leaves     *)
(* behind: every process that holds a run holds a token of that run which  *)
(* no other process holds, numbered by its attempt and not above the       *)
(* attempts counted in the row; and a row with an open transaction cannot  *)
(* have moved on, because whatever would move it waits for the row lock.   *)
(***************************************************************************)
EXTENDS ImportRuns, TLAPS

Holds(w) == run[w] # NoRun

\* A process whose program counter is inside a run holds one, and its token is
\* the number of its own attempt, which the row has counted.
ClaimsCounted ==
  \A w \in Runners :
    /\ pc[w] \in {"work", "tx", "return"} => Holds(w)
    /\ Holds(w) => /\ ownToken[w] = ownAttempt[w]
                   /\ 1 <= ownAttempt[w]
                   /\ ownAttempt[w] <= attempt[run[w]]

\* Two processes in one run hold different tokens.
TokensDiffer ==
  \A w, v \in Runners :
    (w # v /\ Holds(w) /\ run[w] = run[v]) => ownToken[w] # ownToken[v]

\* The token of a running row is the one of its last claim.
RunningToken == \A r \in Runs : state[r] = "running" => token[r] = attempt[r]

\* Whoever has a transaction open owns the run: nothing passes the row lock.
TransactionOwns == \A w \in Runners : pc[w] = "tx" => Owns(w)

\* No committed work is numbered above the attempts counted so far.
LogBounded ==
  \A r \in Runs : \A i \in 1 .. Len(log[r]) : log[r][i] <= attempt[r]

Inv ==
  /\ TypeOK
  /\ ClaimsCounted
  /\ TokensDiffer
  /\ RunningToken
  /\ TransactionOwns
  /\ LogBounded
  /\ OneRunningPerSource
  /\ WorkInAttemptOrder

-----------------------------------------------------------------------------
\* An element of a sequence is of the sequence's type.
LEMMA SeqElement ==
  ASSUME NEW S, NEW s \in Seq(S), NEW i \in 1 .. Len(s)
  PROVE  s[i] \in S
  OBVIOUS

\* The log of a run holds numbers of attempts.
LEMMA LogElement ==
  ASSUME TypeOK, NEW q \in Runs, NEW i \in 1 .. Len(log[q])
  PROVE  log[q][i] \in Nat
<1>1. log[q] \in Seq(1 .. MaxAttempts)
  BY DEF TypeOK
<1>2. log[q][i] \in 1 .. MaxAttempts
  BY <1>1, SeqElement
<1>3. QED
  BY <1>2, RunsAssumption

\* The steps that change the state, token or attempt of a row.
LEMMA RowSteps ==
  ASSUME [Next]_vars
  PROVE  \/ UNCHANGED <<state, source, token, attempt>>
         \/ \E r \in Runs : EnqueueRun(r) \/ CancelRun(r)
         \/ \E w \in Runners :
                \/ ClaimAbandons(w) \/ ClaimRun(w) \/ EndRun(w) \/ PruneRuns(w)
                \/ HandBackInFlight(w) \/ HandBackUnprocessed(w)
  BY DEF Next, Claim, vars,
     HeartbeatLapses, ClaimSnapshot, ClaimNothing, Leave, ClaimRefused,
     Beat, MayWrite, BeatLost, BeginTransaction, CommitTransaction,
     RollbackTransaction, LoseRun, ThrowRun, StopRunner, Crash, Restart,
     rowVars, claimVars

\* The steps that change the log or count an attempt.
LEMMA LogSteps ==
  ASSUME [Next]_vars
  PROVE  \/ UNCHANGED <<log, attempt>>
         \/ \E w \in Runners : \/ ClaimRun(w) \/ CommitTransaction(w)
  BY DEF Next, Claim, vars,
     EnqueueRun, CancelRun, HeartbeatLapses, ClaimSnapshot, ClaimNothing,
     Leave, ClaimAbandons, ClaimRefused, Beat, MayWrite, BeatLost,
     BeginTransaction, RollbackTransaction, EndRun, LoseRun, ThrowRun,
     PruneRuns, StopRunner, HandBackInFlight, TryRelease,
     HandBackUnprocessed, Crash, Restart, rowVars, claimVars

\* The steps that change what a process holds.
LEMMA ClaimSteps ==
  ASSUME [Next]_vars
  PROVE  \/ UNCHANGED <<run, ownToken>>
         \/ \E w \in Runners :
                \/ ClaimNothing(w) \/ ClaimRefused(w) \/ ClaimRun(w)
                \/ EndRun(w) \/ LoseRun(w) \/ ThrowRun(w)
                \/ HandBackUnprocessed(w) \/ Crash(w)
  BY DEF Next, Claim, vars,
     EnqueueRun, CancelRun, HeartbeatLapses, ClaimSnapshot, ClaimAbandons,
     Beat, MayWrite, BeatLost, BeginTransaction, CommitTransaction,
     RollbackTransaction, PruneRuns, StopRunner, HandBackInFlight,
     TryRelease, Restart, rowVars, claimVars

\* Leaving a run keeps the types of what a process remembers.
LEMMA LeaveTyping ==
  ASSUME TypeOK, NEW w \in Runners, Leave(w)
  PROVE  /\ pc' \in [Runners -> Places]
         /\ seen' \in [Runners -> SUBSET Runs]
         /\ run' \in [Runners -> {NoRun} \cup Runs]
         /\ ownToken' \in [Runners -> 0 .. MaxAttempts]
         /\ ownAttempt' \in [Runners -> 0 .. MaxAttempts]
         /\ stopping' \in [Runners -> BOOLEAN]
         /\ aborted' \in [Runners -> BOOLEAN]
<1>1. pc' \in [Runners -> Places]
  BY DEF TypeOK, Leave, Places
<1>2. seen' \in [Runners -> SUBSET Runs]
  BY DEF TypeOK, Leave
<1>3. run' \in [Runners -> {NoRun} \cup Runs]
  BY DEF TypeOK, Leave
<1>4. /\ ownToken' \in [Runners -> 0 .. MaxAttempts]
      /\ ownAttempt' \in [Runners -> 0 .. MaxAttempts]
  BY RunsAssumption DEF TypeOK, Leave, NoToken
<1>5. stopping' \in [Runners -> BOOLEAN] /\ aborted' \in [Runners -> BOOLEAN]
  BY DEF TypeOK, Leave
<1>6. QED
  BY <1>1, <1>2, <1>3, <1>4, <1>5

\* Handing a run back keeps the types of the table.
LEMMA ReleaseTyping ==
  ASSUME TypeOK, NEW w \in Runners, TryRelease(w)
  PROVE  /\ state' \in [Runs -> States]
         /\ source' \in [Runs -> Sources]
         /\ token' \in [Runs -> 0 .. MaxAttempts]
         /\ attempt' \in [Runs -> 0 .. MaxAttempts]
         /\ stale' \in [Runs -> BOOLEAN]
         /\ log' \in [Runs -> Seq(1 .. MaxAttempts)]
<1>1. CASE ReleaseRun(run[w])
  <2>1. state' \in [Runs -> States]
    BY <1>1 DEF TypeOK, ReleaseRun, States, Live
  <2>2. NoToken \in 0 .. MaxAttempts
    BY RunsAssumption DEF NoToken
  <2>3. token' \in [Runs -> 0 .. MaxAttempts]
    BY <1>1, <2>2 DEF TypeOK, ReleaseRun
  <2>4. QED
    BY <2>1, <2>3 DEF TypeOK, TryRelease
<1>2. CASE UNCHANGED <<state, token>>
  BY <1>2 DEF TypeOK, TryRelease
<1>3. QED
  BY <1>1, <1>2 DEF TryRelease

\* Every step keeps the types.
LEMMA TypingStep ==
  ASSUME Inv, [Next]_vars
  PROVE  TypeOK'
<1>1. TypeOK /\ ClaimsCounted
  BY DEF Inv
<1>2. ASSUME NEW r \in Runs, EnqueueRun(r)
      PROVE  TypeOK'
  BY <1>1, <1>2 DEF TypeOK, EnqueueRun, claimVars, States, Live
<1>3. ASSUME NEW r \in Runs, CancelRun(r)
      PROVE  TypeOK'
  BY <1>1, <1>3 DEF TypeOK, CancelRun, claimVars, States, Ended
<1>4. ASSUME NEW r \in Runs, HeartbeatLapses(r)
      PROVE  TypeOK'
  BY <1>1, <1>4 DEF TypeOK, HeartbeatLapses, claimVars
<1>5. ASSUME NEW w \in Runners, ClaimSnapshot(w)
      PROVE  TypeOK'
  <2>1. seen' \in [Runners -> SUBSET Runs]
    BY <1>1, <1>5 DEF TypeOK, ClaimSnapshot
  <2>2. QED
    BY <1>1, <1>5, <2>1 DEF TypeOK, ClaimSnapshot, rowVars, claimVars, Places
<1>6. ASSUME NEW w \in Runners, ClaimNothing(w)
      PROVE  TypeOK'
  BY <1>1, <1>6, LeaveTyping DEF TypeOK, ClaimNothing, rowVars
<1>7. ASSUME NEW w \in Runners, ClaimAbandons(w)
      PROVE  TypeOK'
  <2>1. /\ state' \in [Runs -> States]
        /\ token' \in [Runs -> 0 .. MaxAttempts]
        /\ stale' \in [Runs -> BOOLEAN]
    BY <1>1, <1>7, RunsAssumption DEF TypeOK, ClaimAbandons, NoToken, States, Ended
  <2>2. QED
    BY <1>1, <1>7, <2>1 DEF TypeOK, ClaimAbandons, claimVars, Places
<1>8. ASSUME NEW w \in Runners, ClaimRefused(w)
      PROVE  TypeOK'
  BY <1>1, <1>8, LeaveTyping DEF TypeOK, ClaimRefused, rowVars
<1>9. ASSUME NEW w \in Runners, ClaimRun(w)
      PROVE  TypeOK'
  <2>1. PICK r \in Runs : ClaimRun(w)!2!(r)
    BY <1>1, <1>9 DEF ClaimRun
  <2>2. attempt[r] + 1 \in 0 .. MaxAttempts
    BY <1>1, <2>1, RunsAssumption DEF TypeOK, HasAttemptLeft
  <2>3. /\ state' \in [Runs -> States]
        /\ token' \in [Runs -> 0 .. MaxAttempts]
        /\ attempt' \in [Runs -> 0 .. MaxAttempts]
        /\ stale' \in [Runs -> BOOLEAN]
        /\ run' \in [Runners -> {NoRun} \cup Runs]
        /\ ownToken' \in [Runners -> 0 .. MaxAttempts]
        /\ ownAttempt' \in [Runners -> 0 .. MaxAttempts]
    BY <1>1, <2>1, <2>2 DEF TypeOK, ClaimToken, States, Live
  <2>4. QED
    BY <1>1, <1>9, <2>3 DEF TypeOK, ClaimRun, Places
<1>10. ASSUME NEW w \in Runners, Beat(w)
      PROVE  TypeOK'
  BY <1>1, <1>10 DEF TypeOK, Beat, claimVars
<1>11. ASSUME NEW w \in Runners, BeatLost(w)
      PROVE  TypeOK'
  BY <1>1, <1>11 DEF TypeOK, BeatLost, rowVars, claimVars
<1>12. ASSUME NEW w \in Runners, BeginTransaction(w)
      PROVE  TypeOK'
  BY <1>1, <1>12 DEF TypeOK, BeginTransaction, rowVars, claimVars, Places
<1>13. ASSUME NEW w \in Runners, CommitTransaction(w)
      PROVE  TypeOK'
  <2>1. /\ run[w] \in Runs
        /\ ownAttempt[w] \in 1 .. MaxAttempts
    BY <1>1, <1>13 DEF TypeOK, CommitTransaction, ClaimsCounted, Holds
  <2>2. log' \in [Runs -> Seq(1 .. MaxAttempts)]
    BY <1>1, <1>13, <2>1 DEF TypeOK, CommitTransaction
  <2>3. QED
    BY <1>1, <1>13, <2>2 DEF TypeOK, CommitTransaction, claimVars, Places
<1>14. ASSUME NEW w \in Runners, RollbackTransaction(w)
      PROVE  TypeOK'
  BY <1>1, <1>14 DEF TypeOK, RollbackTransaction, rowVars, claimVars, Places
<1>15. ASSUME NEW w \in Runners, EndRun(w)
      PROVE  TypeOK'
  <2>1. state' \in [Runs -> States]
    BY <1>1, <1>15 DEF TypeOK, EndRun, States, Ended
  <2>2. QED
    BY <1>1, <1>15, <2>1, LeaveTyping DEF TypeOK, EndRun
<1>16. ASSUME NEW w \in Runners, LoseRun(w)
      PROVE  TypeOK'
  BY <1>1, <1>16, LeaveTyping DEF TypeOK, LoseRun, rowVars
<1>17. ASSUME NEW w \in Runners, ThrowRun(w)
      PROVE  TypeOK'
  BY <1>1, <1>17, LeaveTyping DEF TypeOK, ThrowRun, rowVars
<1>18. ASSUME NEW w \in Runners, PruneRuns(w)
      PROVE  TypeOK'
  <2>1. state' \in [Runs -> States]
    BY <1>1, <1>18 DEF TypeOK, PruneRuns, States
  <2>2. QED
    BY <1>1, <1>18, <2>1 DEF TypeOK, PruneRuns, claimVars
<1>19. ASSUME NEW w \in Runners, StopRunner(w)
      PROVE  TypeOK'
  BY <1>1, <1>19 DEF TypeOK, StopRunner, rowVars, claimVars, Places
<1>20. ASSUME NEW w \in Runners, HandBackInFlight(w)
      PROVE  TypeOK'
  BY <1>1, <1>20, ReleaseTyping DEF TypeOK, HandBackInFlight, claimVars
<1>21. ASSUME NEW w \in Runners, HandBackUnprocessed(w)
      PROVE  TypeOK'
  BY <1>1, <1>21, ReleaseTyping, LeaveTyping DEF TypeOK, HandBackUnprocessed
<1>22. ASSUME NEW w \in Runners, Crash(w)
      PROVE  TypeOK'
  <2>1. seen' \in [Runners -> SUBSET Runs] /\ run' \in [Runners -> {NoRun} \cup Runs]
    BY <1>1, <1>22 DEF TypeOK, Crash
  <2>2. /\ ownToken' \in [Runners -> 0 .. MaxAttempts]
        /\ ownAttempt' \in [Runners -> 0 .. MaxAttempts]
    BY <1>1, <1>22, RunsAssumption DEF TypeOK, Crash, NoToken
  <2>3. QED
    BY <1>1, <1>22, <2>1, <2>2 DEF TypeOK, Crash, rowVars, Places
<1>23. ASSUME NEW w \in Runners, Restart(w)
      PROVE  TypeOK'
  BY <1>1, <1>23 DEF TypeOK, Restart, rowVars, claimVars, Places
<1>24. CASE UNCHANGED vars
  BY <1>1, <1>24 DEF TypeOK, vars
<1>25. QED
  BY <1>2, <1>3, <1>4, <1>5, <1>6, <1>7, <1>8, <1>9, <1>10, <1>11, <1>12, <1>13, <1>14, <1>15, <1>16, <1>17, <1>18, <1>19, <1>20, <1>21, <1>22, <1>23, <1>24 DEF Next, Claim

\* Every step keeps the claims counted.
LEMMA ClaimsCountedStep ==
  ASSUME Inv, TypeOK', [Next]_vars
  PROVE  ClaimsCounted'
<1>1. TypeOK /\ ClaimsCounted
  BY DEF Inv
<1> USE <1>1 DEF TypeOK, ClaimsCounted, Holds, rowVars, claimVars
<1>2. ASSUME NEW r \in Runs, EnqueueRun(r)
      PROVE  ClaimsCounted'
  BY <1>2 DEF EnqueueRun
<1>3. ASSUME NEW r \in Runs, CancelRun(r)
      PROVE  ClaimsCounted'
  BY <1>3 DEF CancelRun
<1>4. ASSUME NEW r \in Runs, HeartbeatLapses(r)
      PROVE  ClaimsCounted'
  BY <1>4 DEF HeartbeatLapses
<1>5. ASSUME NEW w \in Runners, ClaimSnapshot(w)
      PROVE  ClaimsCounted'
  BY <1>5 DEF ClaimSnapshot
<1>6. ASSUME NEW w \in Runners, ClaimNothing(w)
      PROVE  ClaimsCounted'
  BY <1>6 DEF ClaimNothing, Leave
<1>7. ASSUME NEW w \in Runners, ClaimAbandons(w)
      PROVE  ClaimsCounted'
  BY <1>7 DEF ClaimAbandons
<1>8. ASSUME NEW w \in Runners, ClaimRefused(w)
      PROVE  ClaimsCounted'
  BY <1>8 DEF ClaimRefused, Leave
<1>9. ASSUME NEW w \in Runners, ClaimRun(w)
      PROVE  ClaimsCounted'
  <2>1. PICK r \in Runs : ClaimRun(w)!2!(r)
    BY <1>9 DEF ClaimRun
  <2>2. attempt[r] \in 0 .. MaxAttempts /\ attempt'[r] = attempt[r] + 1
    BY <2>1
  <2>3. \A q \in Runs : attempt[q] \in Nat /\ attempt[q] <= attempt'[q]
    BY <2>1, <2>2
  <2>4. ASSUME NEW v \in Runners, v # w
        PROVE  ClaimsCounted!(v)'
    BY <2>1, <2>3, <2>4, <1>9 DEF ClaimRun
  <2>5. ClaimsCounted!(w)'
    BY <2>1, <2>2, <1>9, RunsAssumption DEF ClaimRun, ClaimToken, Runs, NoRun
  <2>6. QED
    BY <2>4, <2>5
<1>10. ASSUME NEW w \in Runners, Beat(w)
      PROVE  ClaimsCounted'
  BY <1>10 DEF Beat, MayWrite
<1>11. ASSUME NEW w \in Runners, BeatLost(w)
      PROVE  ClaimsCounted'
  BY <1>11 DEF BeatLost
<1>12. ASSUME NEW w \in Runners, BeginTransaction(w)
      PROVE  ClaimsCounted'
  BY <1>12 DEF BeginTransaction, MayWrite
<1>13. ASSUME NEW w \in Runners, CommitTransaction(w)
      PROVE  ClaimsCounted'
  BY <1>13 DEF CommitTransaction
<1>14. ASSUME NEW w \in Runners, RollbackTransaction(w)
      PROVE  ClaimsCounted'
  BY <1>14 DEF RollbackTransaction
<1>15. ASSUME NEW w \in Runners, EndRun(w)
      PROVE  ClaimsCounted'
  BY <1>15 DEF EndRun, Leave, MayWrite
<1>16. ASSUME NEW w \in Runners, LoseRun(w)
      PROVE  ClaimsCounted'
  BY <1>16 DEF LoseRun, Leave
<1>17. ASSUME NEW w \in Runners, ThrowRun(w)
      PROVE  ClaimsCounted'
  BY <1>17 DEF ThrowRun, Leave
<1>18. ASSUME NEW w \in Runners, PruneRuns(w)
      PROVE  ClaimsCounted'
  BY <1>18 DEF PruneRuns, MayWrite
<1>19. ASSUME NEW w \in Runners, StopRunner(w)
      PROVE  ClaimsCounted'
  BY <1>19 DEF StopRunner
<1>20. ASSUME NEW w \in Runners, HandBackInFlight(w)
      PROVE  ClaimsCounted'
  BY <1>20 DEF HandBackInFlight, TryRelease, ReleaseRun
<1>21. ASSUME NEW w \in Runners, HandBackUnprocessed(w)
      PROVE  ClaimsCounted'
  BY <1>21 DEF HandBackUnprocessed, Leave, TryRelease, ReleaseRun
<1>22. ASSUME NEW w \in Runners, Crash(w)
      PROVE  ClaimsCounted'
  BY <1>22 DEF Crash
<1>23. ASSUME NEW w \in Runners, Restart(w)
      PROVE  ClaimsCounted'
  BY <1>23 DEF Restart
<1>24. CASE UNCHANGED vars
  BY <1>24 DEF vars
<1>25. QED
  BY <1>2, <1>3, <1>4, <1>5, <1>6, <1>7, <1>8, <1>9, <1>10, <1>11, <1>12, <1>13, <1>14, <1>15, <1>16, <1>17, <1>18, <1>19, <1>20, <1>21, <1>22, <1>23, <1>24 DEF Next, Claim

\* Every step keeps the tokens of two processes in one run apart.
LEMMA TokensDifferStep ==
  ASSUME Inv, TypeOK', [Next]_vars
  PROVE  TokensDiffer'
<1>1. TypeOK /\ ClaimsCounted /\ TokensDiffer
  BY DEF Inv
<1> USE <1>1 DEF TypeOK, TokensDiffer, Holds
<1>2. ASSUME NEW w \in Runners, ClaimNothing(w)
      PROVE  TokensDiffer'
  BY <1>2 DEF ClaimNothing, Leave
<1>3. ASSUME NEW w \in Runners, ClaimRefused(w)
      PROVE  TokensDiffer'
  BY <1>3 DEF ClaimRefused, Leave
<1>4. ASSUME NEW w \in Runners, ClaimRun(w)
      PROVE  TokensDiffer'
  BY <1>4 DEF ClaimRun, ClaimToken, ClaimsCounted
<1>5. ASSUME NEW w \in Runners, EndRun(w)
      PROVE  TokensDiffer'
  BY <1>5 DEF EndRun, Leave, MayWrite
<1>6. ASSUME NEW w \in Runners, LoseRun(w)
      PROVE  TokensDiffer'
  BY <1>6 DEF LoseRun, Leave
<1>7. ASSUME NEW w \in Runners, ThrowRun(w)
      PROVE  TokensDiffer'
  BY <1>7 DEF ThrowRun, Leave
<1>8. ASSUME NEW w \in Runners, HandBackUnprocessed(w)
      PROVE  TokensDiffer'
  BY <1>8 DEF HandBackUnprocessed, Leave, TryRelease, ReleaseRun
<1>9. ASSUME NEW w \in Runners, Crash(w)
      PROVE  TokensDiffer'
  BY <1>9 DEF Crash
<1>10. CASE UNCHANGED <<run, ownToken>>
  BY <1>10
<1>11. QED
  BY <1>2, <1>3, <1>4, <1>5, <1>6, <1>7, <1>8, <1>9, <1>10, ClaimSteps

\* Every step keeps the token of a running row up to date.
LEMMA RunningTokenStep ==
  ASSUME Inv, TypeOK', [Next]_vars
  PROVE  RunningToken'
<1>1. TypeOK /\ RunningToken
  BY DEF Inv
<1> USE <1>1 DEF TypeOK, RunningToken
<1>2. ASSUME NEW r \in Runs, EnqueueRun(r)
      PROVE  RunningToken'
  BY <1>2 DEF EnqueueRun
<1>3. ASSUME NEW r \in Runs, CancelRun(r)
      PROVE  RunningToken'
  BY <1>3 DEF CancelRun
<1>4. ASSUME NEW w \in Runners, ClaimAbandons(w)
      PROVE  RunningToken'
  BY <1>4 DEF ClaimAbandons
<1>5. ASSUME NEW w \in Runners, ClaimRun(w)
      PROVE  RunningToken'
  BY <1>5 DEF ClaimRun, ClaimToken
<1>6. ASSUME NEW w \in Runners, EndRun(w)
      PROVE  RunningToken'
  BY <1>6 DEF EndRun, Leave, MayWrite
<1>7. ASSUME NEW w \in Runners, PruneRuns(w)
      PROVE  RunningToken'
  BY <1>7 DEF PruneRuns, MayWrite
<1>8. ASSUME NEW w \in Runners, HandBackInFlight(w)
      PROVE  RunningToken'
  BY <1>8 DEF HandBackInFlight, TryRelease, ReleaseRun
<1>9. ASSUME NEW w \in Runners, HandBackUnprocessed(w)
      PROVE  RunningToken'
  BY <1>9 DEF HandBackUnprocessed, Leave, TryRelease, ReleaseRun
<1>10. CASE UNCHANGED <<state, source, token, attempt>>
  BY <1>10
<1>11. QED
  BY <1>2, <1>3, <1>4, <1>5, <1>6, <1>7, <1>8, <1>9, <1>10, RowSteps

\* Every step leaves the rows with an open transaction alone.
LEMMA TransactionOwnsStep ==
  ASSUME Inv, TypeOK', [Next]_vars
  PROVE  TransactionOwns'
<1>1. TypeOK /\ ClaimsCounted /\ TransactionOwns
  BY DEF Inv
<1> USE <1>1 DEF TypeOK, ClaimsCounted, Holds, TransactionOwns, Owns, Locked, rowVars, claimVars
<1>2. ASSUME NEW r \in Runs, EnqueueRun(r)
      PROVE  TransactionOwns'
  BY <1>2 DEF EnqueueRun
<1>3. ASSUME NEW r \in Runs, CancelRun(r)
      PROVE  TransactionOwns'
  BY <1>3 DEF CancelRun
<1>4. ASSUME NEW r \in Runs, HeartbeatLapses(r)
      PROVE  TransactionOwns'
  BY <1>4 DEF HeartbeatLapses
<1>5. ASSUME NEW w \in Runners, ClaimSnapshot(w)
      PROVE  TransactionOwns'
  BY <1>5 DEF ClaimSnapshot
<1>6. ASSUME NEW w \in Runners, ClaimNothing(w)
      PROVE  TransactionOwns'
  BY <1>6 DEF ClaimNothing, Leave
<1>7. ASSUME NEW w \in Runners, ClaimAbandons(w)
      PROVE  TransactionOwns'
  BY <1>7 DEF ClaimAbandons, IsOldest, Candidates
<1>8. ASSUME NEW w \in Runners, ClaimRefused(w)
      PROVE  TransactionOwns'
  BY <1>8 DEF ClaimRefused, Leave
<1>9. ASSUME NEW w \in Runners, ClaimRun(w)
      PROVE  TransactionOwns'
  BY <1>9 DEF ClaimRun, ClaimToken, IsOldest, Candidates
<1>10. ASSUME NEW w \in Runners, Beat(w)
      PROVE  TransactionOwns'
  BY <1>10 DEF Beat, MayWrite
<1>11. ASSUME NEW w \in Runners, BeatLost(w)
      PROVE  TransactionOwns'
  BY <1>11 DEF BeatLost
<1>12. ASSUME NEW w \in Runners, BeginTransaction(w)
      PROVE  TransactionOwns'
  BY <1>12 DEF BeginTransaction, MayWrite
<1>13. ASSUME NEW w \in Runners, CommitTransaction(w)
      PROVE  TransactionOwns'
  BY <1>13 DEF CommitTransaction
<1>14. ASSUME NEW w \in Runners, RollbackTransaction(w)
      PROVE  TransactionOwns'
  BY <1>14 DEF RollbackTransaction
<1>15. ASSUME NEW w \in Runners, EndRun(w)
      PROVE  TransactionOwns'
  BY <1>15 DEF EndRun, Leave, MayWrite
<1>16. ASSUME NEW w \in Runners, LoseRun(w)
      PROVE  TransactionOwns'
  BY <1>16 DEF LoseRun, Leave
<1>17. ASSUME NEW w \in Runners, ThrowRun(w)
      PROVE  TransactionOwns'
  BY <1>17 DEF ThrowRun, Leave
<1>18. ASSUME NEW w \in Runners, PruneRuns(w)
      PROVE  TransactionOwns'
  BY <1>18 DEF PruneRuns, MayWrite, Ended
<1>19. ASSUME NEW w \in Runners, StopRunner(w)
      PROVE  TransactionOwns'
  BY <1>19 DEF StopRunner
<1>20. ASSUME NEW w \in Runners, HandBackInFlight(w)
      PROVE  TransactionOwns'
  BY <1>20 DEF HandBackInFlight, TryRelease, ReleaseRun
<1>21. ASSUME NEW w \in Runners, HandBackUnprocessed(w)
      PROVE  TransactionOwns'
  BY <1>21 DEF HandBackUnprocessed, Leave, TryRelease, ReleaseRun
<1>22. ASSUME NEW w \in Runners, Crash(w)
      PROVE  TransactionOwns'
  BY <1>22 DEF Crash
<1>23. ASSUME NEW w \in Runners, Restart(w)
      PROVE  TransactionOwns'
  BY <1>23 DEF Restart
<1>24. CASE UNCHANGED vars
  BY <1>24 DEF vars
<1>25. QED
  BY <1>2, <1>3, <1>4, <1>5, <1>6, <1>7, <1>8, <1>9, <1>10, <1>11, <1>12, <1>13, <1>14, <1>15, <1>16, <1>17, <1>18, <1>19, <1>20, <1>21, <1>22, <1>23, <1>24 DEF Next, Claim

\* Every step keeps the log below the attempts counted.
LEMMA LogBoundedStep ==
  ASSUME Inv, TypeOK', [Next]_vars
  PROVE  LogBounded'
<1>1. TypeOK /\ ClaimsCounted /\ LogBounded
  BY DEF Inv
<1> USE <1>1 DEF TypeOK, LogBounded
<1>2. ASSUME NEW w \in Runners, ClaimRun(w)
      PROVE  LogBounded'
  <2>1. PICK r \in Runs : ClaimRun(w)!2!(r)
    BY <1>2 DEF ClaimRun
  <2>2. attempt[r] \in 0 .. MaxAttempts /\ attempt'[r] = attempt[r] + 1
    BY <2>1
  <2>3. \A q \in Runs : attempt[q] \in Nat /\ attempt[q] <= attempt'[q]
    BY <2>1, <2>2
  <2>4. ASSUME NEW q \in Runs, NEW i \in 1 .. Len(log[q])
        PROVE  log[q][i] \in Nat
    BY LogElement
  <2>5. QED
    BY <2>3, <2>4, <1>2 DEF ClaimRun
<1>3. ASSUME NEW w \in Runners, CommitTransaction(w)
      PROVE  LogBounded'
  BY <1>3 DEF CommitTransaction, ClaimsCounted, Holds, claimVars
<1>4. CASE UNCHANGED <<log, attempt>>
  BY <1>4
<1>5. QED
  BY <1>2, <1>3, <1>4, LogSteps

\* Every step keeps one running run per source.
LEMMA OneRunningStep ==
  ASSUME Inv, TypeOK', [Next]_vars
  PROVE  OneRunningPerSource'
<1>1. TypeOK /\ ClaimsCounted /\ OneRunningPerSource
  BY DEF Inv
<1> USE <1>1 DEF TypeOK, OneRunningPerSource
<1>2. ASSUME NEW r \in Runs, EnqueueRun(r)
      PROVE  OneRunningPerSource'
  BY <1>2 DEF EnqueueRun
<1>3. ASSUME NEW r \in Runs, CancelRun(r)
      PROVE  OneRunningPerSource'
  BY <1>3 DEF CancelRun
<1>4. ASSUME NEW w \in Runners, ClaimAbandons(w)
      PROVE  OneRunningPerSource'
  BY <1>4 DEF ClaimAbandons
<1>5. ASSUME NEW w \in Runners, ClaimRun(w)
      PROVE  OneRunningPerSource'
  BY <1>5 DEF ClaimRun, IndexRefuses, SourceBusy
<1>6. ASSUME NEW w \in Runners, EndRun(w)
      PROVE  OneRunningPerSource'
  BY <1>6 DEF EndRun, Leave, MayWrite
<1>7. ASSUME NEW w \in Runners, PruneRuns(w)
      PROVE  OneRunningPerSource'
  BY <1>7 DEF PruneRuns, MayWrite
<1>8. ASSUME NEW w \in Runners, HandBackInFlight(w)
      PROVE  OneRunningPerSource'
  BY <1>8 DEF HandBackInFlight, TryRelease, ReleaseRun
<1>9. ASSUME NEW w \in Runners, HandBackUnprocessed(w)
      PROVE  OneRunningPerSource'
  BY <1>9 DEF HandBackUnprocessed, Leave, TryRelease, ReleaseRun
<1>10. CASE UNCHANGED <<state, source, token, attempt>>
  BY <1>10
<1>11. QED
  BY <1>2, <1>3, <1>4, <1>5, <1>6, <1>7, <1>8, <1>9, <1>10, RowSteps

\* Every step keeps the work in the order of the attempts.
LEMMA WorkOrderStep ==
  ASSUME Inv, TypeOK', [Next]_vars
  PROVE  WorkInAttemptOrder'
<1>1. /\ TypeOK /\ ClaimsCounted /\ RunningToken
      /\ TransactionOwns /\ LogBounded /\ WorkInAttemptOrder
  BY DEF Inv
<1> USE <1>1 DEF TypeOK, WorkInAttemptOrder
<1>2. ASSUME NEW w \in Runners, ClaimRun(w)
      PROVE  WorkInAttemptOrder'
  BY <1>2 DEF ClaimRun
<1>3. ASSUME NEW w \in Runners, CommitTransaction(w)
      PROVE  WorkInAttemptOrder'
  BY <1>3 DEF CommitTransaction, ClaimsCounted, Holds, RunningToken, TransactionOwns, Owns, LogBounded, claimVars
<1>4. CASE UNCHANGED <<log, attempt>>
  BY <1>4
<1>5. QED
  BY <1>2, <1>3, <1>4, LogSteps

\* The initial states satisfy the invariant.
LEMMA InvInit == Init => Inv
<1> SUFFICES ASSUME Init PROVE Inv
  OBVIOUS
<1>1. 0 \in 0 .. MaxAttempts
  BY RunsAssumption
<1>2. TypeOK
  <2>1. /\ token \in [Runs -> 0 .. MaxAttempts] /\ attempt \in [Runs -> 0 .. MaxAttempts]
        /\ ownToken \in [Runners -> 0 .. MaxAttempts]
        /\ ownAttempt \in [Runners -> 0 .. MaxAttempts]
    BY <1>1 DEF Init, NoToken
  <2>2. log \in [Runs -> Seq(1 .. MaxAttempts)]
    BY DEF Init
  <2>3. QED
    BY <2>1, <2>2 DEF Init, TypeOK, States, Places
<1>3. ClaimsCounted /\ TokensDiffer /\ TransactionOwns
  BY DEF Init, ClaimsCounted, TokensDiffer, TransactionOwns, Holds
<1>4. RunningToken /\ OneRunningPerSource
  BY DEF Init, RunningToken, OneRunningPerSource
<1>5. \A r \in Runs : log[r] = << >>
  BY DEF Init
<1>6. LogBounded /\ WorkInAttemptOrder
  BY <1>5 DEF LogBounded, WorkInAttemptOrder
<1>7. QED
  BY <1>2, <1>3, <1>4, <1>6 DEF Inv

\* Every step keeps the invariant.
LEMMA InvStep == Inv /\ [Next]_vars => Inv'
<1> SUFFICES ASSUME Inv, [Next]_vars PROVE Inv'
  OBVIOUS
<1>1. TypeOK'
  BY TypingStep
<1>2. QED
  BY <1>1, ClaimsCountedStep, TokensDifferStep, RunningTokenStep, TransactionOwnsStep,
     LogBoundedStep, OneRunningStep, WorkOrderStep DEF Inv

\* The invariant holds throughout every behaviour of the runners.
THEOREM Invariance == Spec => []Inv
  BY InvInit, InvStep, PTL DEF Spec

-----------------------------------------------------------------------------
\* The types hold, and with them the bound on attempts: claimOldestRun never
\* counts an attempt beyond MAX_RUN_ATTEMPTS.
THEOREM TypeCorrect == Spec => []TypeOK
<1>1. Inv => TypeOK
  BY DEF Inv
<1>2. QED
  BY <1>1, Invariance, PTL

\* A source never has two running runs, whatever snapshots the claims decided
\* on: the unique index is what makes it so.
THEOREM SourceHasOneRun == Spec => []OneRunningPerSource
<1>1. Inv => OneRunningPerSource
  BY DEF Inv
<1>2. QED
  BY <1>1, Invariance, PTL

\* requireOwnership lets at most one process write for a run.
THEOREM OwnerIsUnique == Spec => []AtMostOneOwner
<1>1. Inv => AtMostOneOwner
  BY DEF Inv, TokensDiffer, AtMostOneOwner, Owns, Holds
<1>2. QED
  BY <1>1, Invariance, PTL

\* Two processes never have ownership transactions open on one source.
THEOREM SourceIsExclusive == Spec => []SourceExclusive
<1>1. Inv => SourceExclusive
  <2> SUFFICES ASSUME Inv, NEW w \in Runners, NEW v \in Runners,
                      pc[w] = "tx", pc[v] = "tx", source[run[w]] = source[run[v]]
               PROVE  w = v
    BY DEF SourceExclusive
  <2>1. Owns(w) /\ Owns(v) /\ run[w] \in Runs /\ run[v] \in Runs
    BY DEF Inv, TransactionOwns, Owns, TypeOK
  <2>2. run[w] = run[v]
    BY <2>1 DEF Inv, OneRunningPerSource, Owns
  <2>3. QED
    BY <2>1, <2>2 DEF Inv, TokensDiffer, Owns, Holds
<1>2. QED
  BY <1>1, Invariance, PTL

\* A process that lost its run commits nothing after its successor did: the
\* log of committed work is ordered by attempt.
THEOREM WorkIsFenced == Spec => []WorkInAttemptOrder
<1>1. Inv => WorkInAttemptOrder
  BY DEF Inv
<1>2. QED
  BY <1>1, Invariance, PTL

-----------------------------------------------------------------------------
KeepsEnded ==
  \A r \in Runs :
    /\ state[r] \in Ended => state'[r] \in {state[r], "gone"}
    /\ state[r] = "gone" => state'[r] = "gone"

\* No step revives a run that ended.
LEMMA KeepsEndedStep ==
  ASSUME Inv, [Next]_vars
  PROVE  KeepsEnded
<1>1. TypeOK
  BY DEF Inv
<1> USE <1>1 DEF TypeOK, KeepsEnded, Ended
<1>2. ASSUME NEW r \in Runs, EnqueueRun(r)
      PROVE  KeepsEnded
  BY <1>2 DEF EnqueueRun
<1>3. ASSUME NEW r \in Runs, CancelRun(r)
      PROVE  KeepsEnded
  BY <1>3 DEF CancelRun, Live
<1>4. ASSUME NEW w \in Runners, ClaimAbandons(w)
      PROVE  KeepsEnded
  BY <1>4 DEF ClaimAbandons, IsOldest, Candidates, Claimable
<1>5. ASSUME NEW w \in Runners, ClaimRun(w)
      PROVE  KeepsEnded
  BY <1>5 DEF ClaimRun, IsOldest, Candidates, Claimable
<1>6. ASSUME NEW w \in Runners, EndRun(w)
      PROVE  KeepsEnded
  BY <1>6 DEF EndRun, Leave, MayWrite, Owns
<1>7. ASSUME NEW w \in Runners, PruneRuns(w)
      PROVE  KeepsEnded
  BY <1>7 DEF PruneRuns, MayWrite
<1>8. ASSUME NEW w \in Runners, HandBackInFlight(w)
      PROVE  KeepsEnded
  BY <1>8 DEF HandBackInFlight, TryRelease, ReleaseRun, Owns
<1>9. ASSUME NEW w \in Runners, HandBackUnprocessed(w)
      PROVE  KeepsEnded
  BY <1>9 DEF HandBackUnprocessed, Leave, TryRelease, ReleaseRun, Owns
<1>10. CASE UNCHANGED <<state, source, token, attempt>>
  BY <1>10
<1>11. QED
  BY <1>2, <1>3, <1>4, <1>5, <1>6, <1>7, <1>8, <1>9, <1>10, RowSteps

\* A run that ended is never finished, failed or requeued again by a late
\* process: the ownership check asks for the state as well as the token.
THEOREM EndedIsFinal == Spec => EndedStays
<1>1. Inv /\ [Next]_vars => [KeepsEnded]_vars
  BY KeepsEndedStep
<1>2. QED
  BY <1>1, Invariance, PTL DEF Spec, EndedStays, KeepsEnded

-----------------------------------------------------------------------------
\* A hand-back that reaches the table returns the lease.
LEMMA ReleaseIsReturn ==
  ASSUME TypeOK, NEW w \in Runners, TryRelease(w)
  PROVE  [Lease!Next]_(Lease!leaseVars)
<1>1. CASE Owns(w) /\ ReleaseRun(run[w])
  <2>1. run[w] \in Runs /\ state[run[w]] = "running"
    BY <1>1 DEF TypeOK, Owns
  <2>2. Lease!Return(run[w])
    BY <1>1, <2>1 DEF TryRelease, ReleaseRun, Lease!Return, Lease!Moves
  <2>3. QED
    BY <2>1, <2>2 DEF Lease!Next
<1>2. CASE UNCHANGED <<state, token>>
  BY <1>2 DEF TryRelease, Lease!leaseVars
<1>3. QED
  BY <1>1, <1>2 DEF TryRelease

\* The steps that the lease can see.
LEMMA LeaseSteps ==
  ASSUME [Next]_vars
  PROVE  \/ UNCHANGED <<state, source, attempt, log>>
         \/ \E r \in Runs : EnqueueRun(r) \/ CancelRun(r)
         \/ \E w \in Runners :
                \/ ClaimAbandons(w) \/ ClaimRun(w) \/ EndRun(w) \/ PruneRuns(w)
                \/ HandBackInFlight(w) \/ HandBackUnprocessed(w)
                \/ CommitTransaction(w)
  BY DEF Next, Claim, vars,
     HeartbeatLapses, ClaimSnapshot, ClaimNothing, Leave, ClaimRefused,
     Beat, MayWrite, BeatLost, BeginTransaction, RollbackTransaction,
     LoseRun, ThrowRun, StopRunner, Crash, Restart, rowVars, claimVars

\* Every step of the runners is a step of the lease, or none of it.
LEMMA LeaseStep ==
  ASSUME Inv, [Next]_vars
  PROVE  [Lease!Next]_(Lease!leaseVars)
<1>1. TypeOK /\ ClaimsCounted /\ RunningToken /\ TransactionOwns
  BY DEF Inv
<1> USE <1>1 DEF TypeOK, Lease!leaseVars
<1>2. ASSUME NEW r \in Runs, EnqueueRun(r)
      PROVE  [Lease!Next]_(Lease!leaseVars)
  BY <1>2 DEF EnqueueRun, Lease!Next, Lease!Enqueue, Lease!Moves
<1>3. ASSUME NEW r \in Runs, CancelRun(r)
      PROVE  [Lease!Next]_(Lease!leaseVars)
  BY <1>3 DEF CancelRun, Lease!Next, Lease!Cancel, Lease!Moves, Live
<1>4. ASSUME NEW w \in Runners, ClaimAbandons(w)
      PROVE  [Lease!Next]_(Lease!leaseVars)
  <2>1. PICK r \in Runs : ClaimAbandons(w)!2!(r)
    BY <1>4 DEF ClaimAbandons
  <2>2. attempt[r] = MaxAttempts
    BY <2>1, RunsAssumption DEF HasAttemptLeft
  <2>3. Lease!Abandon(r)
    BY <2>1, <2>2, <1>4 DEF ClaimAbandons, Lease!Abandon, Lease!Moves, IsOldest, Candidates, Claimable
  <2>4. QED
    BY <2>3 DEF Lease!Next
<1>5. ASSUME NEW w \in Runners, ClaimRun(w)
      PROVE  [Lease!Next]_(Lease!leaseVars)
  <2>1. PICK r \in Runs : ClaimRun(w)!2!(r)
    BY <1>5 DEF ClaimRun
  <2>2. Lease!Grant(r)
    BY <2>1, <1>5 DEF ClaimRun, Lease!Grant, Lease!Moves, IsOldest, Candidates, Claimable,
       HasAttemptLeft, IndexRefuses, SourceBusy
  <2>3. QED
    BY <2>2 DEF Lease!Next
<1>6. ASSUME NEW w \in Runners, EndRun(w)
      PROVE  [Lease!Next]_(Lease!leaseVars)
  <2>1. run[w] \in Runs /\ state[run[w]] = "running"
    BY <1>6 DEF EndRun, MayWrite, Owns
  <2>2. Lease!End(run[w])
    BY <2>1, <1>6 DEF EndRun, Lease!End, Lease!Moves
  <2>3. QED
    BY <2>1, <2>2 DEF Lease!Next
<1>7. ASSUME NEW w \in Runners, PruneRuns(w)
      PROVE  [Lease!Next]_(Lease!leaseVars)
  <2>1. state' \in [Runs -> {"none", "queued", "running", "gone"} \cup Ended]
    BY <1>7 DEF PruneRuns, States, Live
  <2>2. Lease!Prune
    BY <2>1, <1>7 DEF PruneRuns, Lease!Prune
  <2>3. QED
    BY <2>2 DEF Lease!Next
<1>8. ASSUME NEW w \in Runners, HandBackInFlight(w)
      PROVE  [Lease!Next]_(Lease!leaseVars)
  BY <1>8, ReleaseIsReturn DEF HandBackInFlight, TryRelease
<1>9. ASSUME NEW w \in Runners, HandBackUnprocessed(w)
      PROVE  [Lease!Next]_(Lease!leaseVars)
  BY <1>9, ReleaseIsReturn DEF HandBackUnprocessed, TryRelease
<1>10. ASSUME NEW w \in Runners, CommitTransaction(w)
      PROVE  [Lease!Next]_(Lease!leaseVars)
  <2>1. Owns(w) /\ run[w] \in Runs /\ ownAttempt[w] = attempt[run[w]]
    BY <1>10 DEF CommitTransaction, TransactionOwns, ClaimsCounted, RunningToken, Owns, Holds
  <2>2. Lease!Work(run[w])
    BY <2>1, <1>10 DEF CommitTransaction, Lease!Work, Owns
  <2>3. QED
    BY <2>1, <2>2 DEF Lease!Next
<1>11. CASE UNCHANGED <<state, source, attempt, log>>
  BY <1>11
<1>12. QED
  BY <1>2, <1>3, <1>4, <1>5, <1>6, <1>7, <1>8, <1>9, <1>10, <1>11, LeaseSteps

\* The table and its runners implement the lease: processes, tokens, locks and
\* heartbeats together grant a source to one attempt of one run at a time, and
\* every commit is made under the attempt that holds it.
THEOREM Refinement == Spec => ImplementsLease
<1>1. Init => Lease!Init
  BY DEF Init, Lease!Init
<1>2. Inv /\ [Next]_vars => [Lease!Next]_(Lease!leaseVars)
  BY LeaseStep
<1>3. QED
  BY <1>1, <1>2, Invariance, PTL DEF Spec, ImplementsLease, Lease!Spec

=============================================================================
