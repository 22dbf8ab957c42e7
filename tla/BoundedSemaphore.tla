-------------------------- MODULE BoundedSemaphore --------------------------
(***************************************************************************)
(* lib/async/boundedSemaphore.ts: at most "limit" tasks at a time, at most *)
(* "maxWaiters" in the queue, and a signal that may abort a task at any    *)
(* time.  A step is what the event loop runs without a break: the promise  *)
(* of a waiter that was handed a permit is resolved, and the waiter goes   *)
(* on in a later step, so that an abort may come in between.               *)
(***************************************************************************)
EXTENDS Integers, Sequences, FiniteSets, SequencesExt

CONSTANTS
    Tasks,       \* calls of run()
    Limit,       \* tasks at a time
    MaxWaiters   \* length of the queue

SemaphoreAssumption == Limit \in Nat \ {0} /\ MaxWaiters \in Nat

VARIABLES
    active,   \* this.active
    waiters,  \* this.waiters
    pc,       \* where each call of run() is
    aborted   \* tasks whose signal is aborted

vars == <<active, waiters, pc, aborted>>

Ended == {"returned", "thrown"}
Places == {"new", "waiting", "granted", "working"} \cup Ended

TypeOK ==
    /\ active \in 0..Limit
    /\ waiters \in Seq(Tasks) /\ Len(waiters) <= MaxWaiters
    /\ pc \in [Tasks -> Places]
    /\ aborted \subseteq Tasks

Init ==
    /\ active = 0
    /\ waiters = << >>
    /\ pc = [t \in Tasks |-> "new"]
    /\ aborted = {}

-----------------------------------------------------------------------------
\* acquire: refused, granted at once, refused by a full queue, or queued
AcquireAborted(t) ==
    /\ pc[t] = "new" /\ t \in aborted
    /\ pc' = [pc EXCEPT ![t] = "thrown"]
    /\ UNCHANGED <<active, waiters, aborted>>

AcquireFree(t) ==
    /\ pc[t] = "new" /\ t \notin aborted
    /\ active < Limit
    /\ active' = active + 1
    /\ pc' = [pc EXCEPT ![t] = "granted"]
    /\ UNCHANGED <<waiters, aborted>>

AcquireFull(t) ==
    /\ pc[t] = "new" /\ t \notin aborted
    /\ active >= Limit /\ Len(waiters) >= MaxWaiters
    /\ pc' = [pc EXCEPT ![t] = "thrown"]
    /\ UNCHANGED <<active, waiters, aborted>>

Enqueue(t) ==
    /\ pc[t] = "new" /\ t \notin aborted
    /\ active >= Limit /\ Len(waiters) < MaxWaiters
    /\ waiters' = Append(waiters, t)
    /\ pc' = [pc EXCEPT ![t] = "waiting"]
    /\ UNCHANGED <<active, aborted>>

\* The signal of a task is aborted; the listener of a waiter takes it out of the queue.
Abort(t) ==
    /\ t \notin aborted /\ pc[t] \notin Ended
    /\ aborted' = aborted \cup {t}
    /\ \/ /\ \E i \in 1..Len(waiters) : waiters[i] = t /\ waiters' = RemoveAt(waiters, i)
          /\ pc' = [pc EXCEPT ![t] = "thrown"]
       \/ t \notin ToSet(waiters) /\ UNCHANGED <<waiters, pc>>
    /\ UNCHANGED active

\* release: the permit goes to the first waiter, or is free.
Release(t, end) ==
    IF waiters = << >>
    THEN /\ active' = active - 1
         /\ pc' = [pc EXCEPT ![t] = end]
         /\ UNCHANGED waiters
    ELSE /\ waiters' = Tail(waiters)
         /\ pc' = [pc EXCEPT ![t] = end, ![Head(waiters)] = "granted"]
         /\ UNCHANGED active

\* Mutant: a task that was aborted after it got its permit goes without giving it back.
ResumeAbortedLeaks(t) ==
    /\ pc[t] = "granted" /\ t \in aborted
    /\ pc' = [pc EXCEPT ![t] = "thrown"]
    /\ UNCHANGED <<active, waiters, aborted>>

\* run goes on with its permit: the task starts, or is found to be aborted.
ResumeAborted(t) ==
    /\ pc[t] = "granted" /\ t \in aborted
    /\ Release(t, "thrown")
    /\ UNCHANGED aborted

Resume(t) ==
    /\ pc[t] = "granted" /\ t \notin aborted
    /\ pc' = [pc EXCEPT ![t] = "working"]
    /\ UNCHANGED <<active, waiters, aborted>>

\* The task ends; it may fail, and an abort meanwhile is an error too.
EndTask(t) ==
    /\ pc[t] = "working"
    /\ \E end \in Ended : (t \in aborted => end = "thrown") /\ Release(t, end)
    /\ UNCHANGED aborted

-----------------------------------------------------------------------------
Next ==
    \E t \in Tasks :
        \/ AcquireAborted(t) \/ AcquireFree(t) \/ AcquireFull(t) \/ Enqueue(t) \/ Abort(t)
        \/ ResumeAborted(t) \/ Resume(t) \/ EndTask(t)

Spec == Init /\ [][Next]_vars

-----------------------------------------------------------------------------
Holders == {t \in Tasks : pc[t] \in {"granted", "working"}}

\* The semaphore hands out permits as a pool of Limit permits does: none is lost when a waiter is aborted,
\* before or after it was handed one, none is given twice, and nobody waits while a permit is free (acquire,
\* release and the abort listener).
Pool == INSTANCE PermitPool WITH holders <- Holders, free <- Limit - active, waiting <- ToSet(waiters)
ImplementsPool == []TypeOK /\ Pool!Spec
=============================================================================
