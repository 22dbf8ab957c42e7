-------------------------- MODULE SchedulerLeader --------------------------
(***************************************************************************)
(* Which server process runs the periodic tasks:                           *)
(*   apps/server/src/index.ts          (elections, terms, task chains)     *)
(*   apps/server/src/lib/redisLock.ts  (the lock, three Redis commands)    *)
(*                                                                         *)
(* A process that holds the lock in Redis begins a term: an interval that  *)
(* renews the lock, and one chain of timers per task, each of which renews *)
(* the lock once more before its task starts.  A command is executed when  *)
(* it is sent (the client keeps the order of its commands) and its reply   *)
(* is handled later, when anything may have happened to the lock, to the   *)
(* term and to the process.                                                *)
(***************************************************************************)
EXTENDS Integers, FiniteSets

CONSTANTS
  Processes,  \* the primary processes, one per host
  Tasks,      \* the periodic tasks of startScheduledTasks
  TTL,        \* SCHEDULER_LOCK_TTL, in ticks
  Latency,    \* ticks for which the answer to a task's renewal may be under way
  Terms,      \* bound: terms of a process that still have something going on
  Calls       \* bound: elections of a process, and renewals of a term, at once

Free == "free"          \* no value at scheduler:leader
Left == "left"          \* the value of a process that is gone: no identity is used twice
NoTerm == "no term"

LeaderAssumption ==
  /\ TTL \in Nat \ {0}
  /\ Latency \in Nat
  /\ Latency < TTL
  /\ Processes \cap {Free, Left} = {}
  /\ NoTerm \notin Terms

VARIABLES
  lock,      \* the value at scheduler:leader
  ttl,       \* ticks until it expires
  life,      \* life[p]: "up", "stopping" (isStopping) or "down"
  election,  \* election[p][c]: a tryBecomeScheduler that is waiting or under way
  current,   \* current[p]: currentTerm
  active,    \* active[p]: the terms with isActive
  beating,   \* beating[p]: the terms whose renewInterval is set
  beat,      \* beat[p][n][c]: a renewal by the interval
  chain,     \* chain[p][n][t]: where the chain of a task stands
  age        \* age[p][n][t]: how old the granted renewal of a chain is

termVars == <<current, active, beating, beat, chain, age>>
vars == <<lock, ttl, life, election, current, active, beating, beat, chain, age>>

Elections == {"none", "waiting", "taken", "refused", "renewed", "lost"}
Beats == {"none", "yes", "no"}
Stages == {"none", "timer", "granted", "refused", "running"}

NoElection == [c \in Calls |-> "none"]
NoBeats == [n \in Terms |-> [c \in Calls |-> "none"]]
NoChains == [n \in Terms |-> [t \in Tasks |-> "none"]]
NoAges == [n \in Terms |-> [t \in Tasks |-> 0]]

Init ==
  /\ lock = Free
  /\ ttl = 0
  /\ life = [p \in Processes |-> "up"]
  /\ election \in [Processes -> {[NoElection EXCEPT ![c] = "waiting"] : c \in Calls}]
  /\ current = [p \in Processes |-> NoTerm]
  /\ active = [p \in Processes |-> {}]
  /\ beating = [p \in Processes |-> {}]
  /\ beat = [p \in Processes |-> NoBeats]
  /\ chain = [p \in Processes |-> NoChains]
  /\ age = [p \in Processes |-> NoAges]

-----------------------------------------------------------------------------
(* The lock.  A command that fails is answered "no" by the catch of its     *)
(* caller, whether or not Redis executed it.                                *)

\* acquireRedisLock: SET with NX and EX.
Acquire(p, answer) ==
  \/ /\ lock = Free /\ lock' = p /\ ttl' = TTL
     /\ answer \in BOOLEAN
  \/ /\ answer = FALSE
     /\ UNCHANGED <<lock, ttl>>

\* refreshOwnedRedisLock: EXPIRE if the value is ours.
Renew(p, answer) ==
  \/ /\ lock = p /\ ttl' = TTL
     /\ answer \in BOOLEAN
     /\ UNCHANGED lock
  \/ /\ answer = FALSE
     /\ UNCHANGED <<lock, ttl>>

\* releaseOwnedRedisLock: DEL if the value is ours.
Release(p) ==
  \/ /\ lock = p /\ lock' = Free /\ ttl' = 0
  \/ UNCHANGED <<lock, ttl>>

\* A tick passes.  No answer to the renewal of a task takes more than Latency.
Tick ==
  /\ lock # Free
  /\ \A p \in Processes, n \in Terms, t \in Tasks :
       chain[p][n][t] = "granted" => age[p][n][t] < Latency
  /\ age' = [p \in Processes |-> [n \in Terms |-> [t \in Tasks |->
               IF chain[p][n][t] = "granted" THEN age[p][n][t] + 1 ELSE 0]]]
  /\ ttl' = ttl - 1
  /\ lock' = IF ttl = 1 THEN Free ELSE lock
  /\ UNCHANGED <<life, election, current, active, beating, beat, chain>>

-----------------------------------------------------------------------------
(* Elections *)

\* retryElectionLater: one more timer.
RetryElectionLater(p) ==
  \E c \in Calls :
    /\ election[p][c] = "none"
    /\ election' = [election EXCEPT ![p][c] = "waiting"]

\* The timer fires, in a process that is not stopping.
TryBecomeScheduler(p, c) ==
  /\ life[p] = "up"
  /\ election[p][c] = "waiting"
  /\ \E answer \in BOOLEAN :
       /\ Acquire(p, answer)
       /\ election' = [election EXCEPT ![p][c] = IF answer THEN "taken" ELSE "refused"]
  /\ UNCHANGED <<life, termVars>>

\* The timer fires in a process that is stopping.
GiveUpElection(p, c) ==
  /\ life[p] = "stopping"
  /\ election[p][c] = "waiting"
  /\ election' = [election EXCEPT ![p][c] = "none"]
  /\ UNCHANGED <<lock, ttl, life, termVars>>

\* The lock was refused, or its answer was lost: maybe it is ours all the same.
RenewInElection(p, c) ==
  /\ election[p][c] = "refused"
  /\ \E answer \in BOOLEAN :
       /\ Renew(p, answer)
       /\ election' = [election EXCEPT ![p][c] = IF answer THEN "renewed" ELSE "lost"]
  /\ UNCHANGED <<life, termVars>>

\* Another process has the lock: wait.
LoseElection(p, c) ==
  /\ election[p][c] = "lost"
  /\ election' = [election EXCEPT ![p][c] = "waiting"]
  /\ UNCHANGED <<lock, ttl, life, termVars>>

\* No timer, renewal or task of the term is left.
IsOver(p, n) ==
  /\ n \notin active[p] \cup beating[p]
  /\ \A c \in Calls : beat[p][n][c] = "none"
  /\ \A t \in Tasks : chain[p][n][t] = "none"

\* runAsScheduler: a term with its interval and the first timer of each task.
\* Nothing asks whether the process was told to stop meanwhile.
RunAsScheduler(p, c) ==
  /\ election[p][c] \in {"taken", "renewed"}
  /\ election' = [election EXCEPT ![p][c] = "none"]
  /\ \E n \in {m \in Terms : IsOver(p, m)} :
       /\ current' = [current EXCEPT ![p] = n]
       /\ active' = [active EXCEPT ![p] = @ \cup {n}]
       /\ beating' = [beating EXCEPT ![p] = @ \cup {n}]
       /\ chain' = [chain EXCEPT ![p][n] = [t \in Tasks |-> "timer"]]
  /\ UNCHANGED <<lock, ttl, life, beat, age>>

-----------------------------------------------------------------------------
(* A term *)

\* endSchedulerTerm: the timers go, what is under way does not.
Untimed(p, n) == [t \in Tasks |-> IF chain[p][n][t] = "timer" THEN "none" ELSE chain[p][n][t]]

EndSchedulerTerm(p, n) ==
  /\ active' = [active EXCEPT ![p] = @ \ {n}]
  /\ chain' = [chain EXCEPT ![p][n] = Untimed(p, n)]

\* The interval fires, although its last renewal may be unanswered.
Beat(p, n, c) ==
  /\ n \in beating[p]
  /\ beat[p][n][c] = "none"
  /\ \E answer \in BOOLEAN :
       /\ Renew(p, answer)
       /\ beat' = [beat EXCEPT ![p][n][c] = IF answer THEN "yes" ELSE "no"]
  /\ UNCHANGED <<life, election, current, active, beating, chain, age>>

\* Whether an answer to the interval ends the term.
LosesTerm(p, n, c) == beat[p][n][c] = "no" /\ n \in active[p]

BeatAnswered(p, n, c) ==
  /\ beat[p][n][c] # "none"
  /\ ~LosesTerm(p, n, c)
  /\ beat' = [beat EXCEPT ![p][n][c] = "none"]
  /\ UNCHANGED <<lock, ttl, life, election, current, active, beating, chain, age>>

LoseTerm(p, n, c) ==
  /\ beat[p][n][c] # "none"
  /\ LosesTerm(p, n, c)
  /\ beat' = [beat EXCEPT ![p][n][c] = "none"]
  /\ beating' = [beating EXCEPT ![p] = @ \ {n}]
  /\ EndSchedulerTerm(p, n)
  /\ RetryElectionLater(p)
  /\ UNCHANGED <<lock, ttl, life, current, age>>

\* The timer of a task fires and the lock is renewed.
FireTask(p, n, t) ==
  /\ chain[p][n][t] = "timer"
  /\ \E answer \in BOOLEAN :
       /\ Renew(p, answer)
       /\ chain' = [chain EXCEPT ![p][n][t] = IF answer THEN "granted" ELSE "refused"]
  /\ UNCHANGED <<life, election, current, active, beating, beat, age>>

\* Mutant: the answer alone decides.
IsLeaderByAnswer(p, n, t) == chain[p][n][t] = "granted"

\* isLeader: the lock was renewed, and the term is active after the await.
IsLeader(p, n, t) == chain[p][n][t] = "granted" /\ n \in active[p]

StartTask(p, n, t) ==
  /\ IsLeader(p, n, t)
  /\ chain' = [chain EXCEPT ![p][n][t] = "running"]
  /\ age' = [age EXCEPT ![p][n][t] = 0]
  /\ UNCHANGED <<lock, ttl, life, election, current, active, beating, beat>>

\* runLater: a term that is over gets no more timers.
RunLater(p, n) == IF n \in active[p] THEN "timer" ELSE "none"

\* Mutant: a task that was skipped is not tried again.
SkipTaskForGood(p, n, t) ==
  /\ chain[p][n][t] \in {"granted", "refused"}
  /\ ~IsLeader(p, n, t)
  /\ chain' = [chain EXCEPT ![p][n][t] = "none"]
  /\ age' = [age EXCEPT ![p][n][t] = 0]
  /\ UNCHANGED <<lock, ttl, life, election, current, active, beating, beat>>

\* The lock could not be renewed, or the term has ended: the task waits for its
\* next timer.
SkipTask(p, n, t) ==
  /\ chain[p][n][t] \in {"granted", "refused"}
  /\ ~IsLeader(p, n, t)
  /\ chain' = [chain EXCEPT ![p][n][t] = RunLater(p, n)]
  /\ age' = [age EXCEPT ![p][n][t] = 0]
  /\ UNCHANGED <<lock, ttl, life, election, current, active, beating, beat>>

\* The task ends, or fails and is logged.
EndTask(p, n, t) ==
  /\ chain[p][n][t] = "running"
  /\ chain' = [chain EXCEPT ![p][n][t] = RunLater(p, n)]
  /\ UNCHANGED <<lock, ttl, life, election, current, active, beating, beat, age>>

-----------------------------------------------------------------------------
(* The process *)

\* stop: isStopping, then resignAsScheduler.  The workers are drained next,
\* and meanwhile everything that is under way goes on.
Stop(p) ==
  /\ life[p] = "up"
  /\ life' = [life EXCEPT ![p] = "stopping"]
  /\ IF current[p] = NoTerm
       THEN UNCHANGED <<active, chain>>
       ELSE EndSchedulerTerm(p, current[p])
  /\ Release(p)
  /\ UNCHANGED <<election, current, beating, beat, age>>

\* process.exit at the end of stop, or a crash at any time.
Exit(p) ==
  /\ life[p] # "down"
  /\ life' = [life EXCEPT ![p] = "down"]
  /\ lock' = IF lock = p THEN Left ELSE lock
  /\ election' = [election EXCEPT ![p] = NoElection]
  /\ current' = [current EXCEPT ![p] = NoTerm]
  /\ active' = [active EXCEPT ![p] = {}]
  /\ beating' = [beating EXCEPT ![p] = {}]
  /\ beat' = [beat EXCEPT ![p] = NoBeats]
  /\ chain' = [chain EXCEPT ![p] = NoChains]
  /\ age' = [age EXCEPT ![p] = NoAges]
  /\ UNCHANGED ttl

\* The supervisor starts the process again, with another identity.
Restart(p) ==
  /\ life[p] = "down"
  /\ life' = [life EXCEPT ![p] = "up"]
  /\ RetryElectionLater(p)
  /\ UNCHANGED <<lock, ttl, termVars>>

Next ==
  \/ Tick
  \/ \E p \in Processes :
       \/ Stop(p)
       \/ Exit(p)
       \/ Restart(p)
       \/ \E c \in Calls :
            \/ TryBecomeScheduler(p, c)
            \/ GiveUpElection(p, c)
            \/ RenewInElection(p, c)
            \/ LoseElection(p, c)
            \/ RunAsScheduler(p, c)
       \/ \E n \in Terms, c \in Calls :
            \/ Beat(p, n, c)
            \/ BeatAnswered(p, n, c)
            \/ LoseTerm(p, n, c)
       \/ \E n \in Terms, t \in Tasks :
            \/ FireTask(p, n, t)
            \/ StartTask(p, n, t)
            \/ SkipTask(p, n, t)
            \/ EndTask(p, n, t)

Spec == Init /\ [][Next]_vars

-----------------------------------------------------------------------------
(* Fairness: time passes, a process that is down is started again, timers  *)
(* fire, answers arrive and tasks end.  A process may crash or be stopped   *)
(* at any moment but not before every step it tries, and Redis does not    *)
(* refuse every command: those steps are strongly fair.                    *)

TakesLock(p, c) == TryBecomeScheduler(p, c) /\ election'[p][c] = "taken"
FindsLock(p, c) == RenewInElection(p, c) /\ election'[p][c] = "renewed"
KeepsLock(p, n, t) == FireTask(p, n, t) /\ chain'[p][n][t] = "granted"

ElectionStep(p, c) == TryBecomeScheduler(p, c) \/ RenewInElection(p, c) \/ LoseElection(p, c)
BeatStep(p, n, c) == Beat(p, n, c) \/ BeatAnswered(p, n, c) \/ LoseTerm(p, n, c)
TaskStep(p, n, t) == FireTask(p, n, t) \/ StartTask(p, n, t) \/ SkipTask(p, n, t) \/ EndTask(p, n, t)

Fairness ==
  /\ WF_vars(Tick)
  /\ \A p \in Processes :
       /\ WF_vars(Restart(p))
       /\ WF_vars(life[p] = "stopping" /\ Exit(p))
       /\ \A c \in Calls :
            /\ SF_vars(TakesLock(p, c))
            /\ SF_vars(FindsLock(p, c))
            /\ SF_vars(RunAsScheduler(p, c))
            /\ WF_vars(ElectionStep(p, c))
            /\ \A n \in Terms : SF_vars(BeatStep(p, n, c))
       /\ \A n \in Terms, t \in Tasks :
            /\ SF_vars(KeepsLock(p, n, t))
            /\ SF_vars(TaskStep(p, n, t))

FairSpec == Spec /\ Fairness

-----------------------------------------------------------------------------
(* Properties *)

TypeOK ==
  /\ lock \in Processes \cup {Free, Left}
  /\ ttl \in 0 .. TTL
  /\ life \in [Processes -> {"up", "stopping", "down"}]
  /\ election \in [Processes -> [Calls -> Elections]]
  /\ current \in [Processes -> Terms \cup {NoTerm}]
  /\ active \in [Processes -> SUBSET Terms]
  /\ beating \in [Processes -> SUBSET Terms]
  /\ beat \in [Processes -> [Terms -> [Calls -> Beats]]]
  /\ chain \in [Processes -> [Terms -> [Tasks -> Stages]]]
  /\ age \in [Processes -> [Terms -> [Tasks -> 0 .. Latency]]]

\* A process is in one election or in one term and never in two, so that no
\* task gets a second chain, and only the running chains of a term that is over
\* are left of it: no timer survives that would start a task in an old term.
OneTerm ==
  \A p \in Processes :
    /\ Cardinality({c \in Calls : election[p][c] # "none"}) + Cardinality(active[p]) <= 1
    /\ \A n \in Terms, t \in Tasks : chain[p][n][t] = "timer" => n \in active[p]

\* A task starts in the one term of the process that holds the lock at that
\* moment, although its renewal was answered before: a term that was resigned
\* meanwhile, which frees the lock for another process, starts none.
TasksStartUnderLock ==
  /\ [](TypeOK /\ OneTerm)
  /\ [][\A p \in Processes, n \in Terms, t \in Tasks :
          (chain[p][n][t] # "running" /\ chain'[p][n][t] = "running") => lock = p]_vars

\* Some process becomes the scheduler again after every crash, stop or loss;
\* a process that stays up and whose lock is gone notices it and ends its term;
\* and the tasks of a term go on: each runs again, or the term ends.
SchedulerGoesOn ==
  /\ []<>(\E p \in Processes : active[p] # {})
  /\ \A p \in Processes, n \in Terms :
       /\ (n \in active[p] /\ lock # p) ~> (n \notin active[p] \/ lock = p)
       /\ \A t \in Tasks : n \in active[p] ~> (chain[p][n][t] = "running" \/ n \notin active[p])

=============================================================================
