--------------------------- MODULE ServiceProofs ---------------------------
(***************************************************************************)
(* Theorems about what processes and requests work on at once, by their    *)
(* instances in Services, and about one key of the shared cache.           *)
(*                                                                         *)
(* Semaphore  The semaphore implements the pool of permits.  PoolInv ties  *)
(*   the queue to the places of the tasks and the counter to the holders:  *)
(*   the counter is how many tasks have a permit, also between the         *)
(*   hand-over of one and the step of the task that it was handed to.      *)
(* Leader  A task starts under the lock, for any times with Latency below  *)
(*   TTL.  LeaderInv says how old the renewal is that a chain was granted: *)
(*   with the ticks that are left of the lock, its age is at least TTL, so *)
(*   that the lock is still there when the answer is handled, unless the   *)
(*   term was given up.                                                    *)
(* The cache  CacheInv adds to CacheIsSound which calls are given the      *)
(*   lock, and that under the lock a loaded value is not older than        *)
(*   anything that has been in the cache.                                  *)
(* Watches  No event about a watched station is lost.  WatchInv counts:    *)
(*   what a call may still retry and what its user has closed make up for  *)
(*   each other.                                                           *)
(* Grants  The grants of a user fit its role.  GrantsInv says that what a  *)
(*   request remembered of a user may be stale, and that no grant it may   *)
(*   take away was made since.                                             *)
(***************************************************************************)
EXTENDS StaleCache, Services, Integers, Sequences, FiniteSets, SequenceTheorems, FiniteSetTheorems, TLAPS

-----------------------------------------------------------------------------
(* The semaphore.                                                          *)

\* No task is in a queue twice.
NoTwice(s) == \A i, j \in 1..Len(s) : s[i] = s[j] => i = j

\* The queue holds the tasks that wait, each once.
QueueHoldsWaiting ==
    /\ NoTwice(waiters)
    /\ \A t \in Tasks : t \in Semaphore!ToSet(waiters) <=> task[t] = "waiting"

\* A task waits only while no permit is free.
WaitsForPermit == waiters # << >> => permits = Limit

\* The counter is the number of tasks that have a permit.
CountsHolders == IsFiniteSet(Semaphore!Holders) /\ permits = Cardinality(Semaphore!Holders)

PoolInv ==
    /\ Semaphore!TypeOK
    /\ QueueHoldsWaiting
    /\ WaitsForPermit
    /\ CountsHolders

-----------------------------------------------------------------------------
\* What is in a sequence, by its places.
LEMMA InSequence ==
    ASSUME NEW S, NEW s \in Seq(S)
    PROVE  \A x : x \in Semaphore!ToSet(s) <=> \E i \in 1..Len(s) : s[i] = x
<1>1. DOMAIN s = 1..Len(s)
  BY LenProperties
<1>2. QED
  BY <1>1 DEF Semaphore!ToSet

\* Who joins the queue is its last.
LEMMA Joined ==
    ASSUME NEW S, NEW s \in Seq(S), NEW t \in S, NoTwice(s), t \notin Semaphore!ToSet(s)
    PROVE  /\ Append(s, t) \in Seq(S) /\ Len(Append(s, t)) = Len(s) + 1
           /\ NoTwice(Append(s, t))
           /\ Semaphore!ToSet(Append(s, t)) = Semaphore!ToSet(s) \cup {t}
<1> DEFINE r == Append(s, t)
<1>1. /\ r \in Seq(S) /\ Len(r) = Len(s) + 1 /\ Len(s) \in Nat
      /\ \A i \in 1..Len(s) : r[i] = s[i]
      /\ r[Len(s) + 1] = t
  BY AppendProperties, LenProperties
<1>2. \A i \in 1..Len(s) : s[i] # t
  BY InSequence
<1> HIDE DEF r
<1>3. NoTwice(r)
  <2> SUFFICES ASSUME NEW i \in 1..Len(r), NEW j \in 1..Len(r), r[i] = r[j] PROVE i = j
    BY DEF NoTwice
  <2>1. CASE i \in 1..Len(s) /\ j \in 1..Len(s)
    BY <1>1, <2>1 DEF NoTwice
  <2>2. CASE i = Len(s) + 1 \/ j = Len(s) + 1
    BY <1>1, <1>2, <2>2
  <2>3. QED
    BY <1>1, <2>1, <2>2
<1>4. \A x : x \in Semaphore!ToSet(r) <=> x \in Semaphore!ToSet(s) \cup {t}
  <2> SUFFICES ASSUME NEW x PROVE x \in Semaphore!ToSet(r) <=> x \in Semaphore!ToSet(s) \cup {t}
    OBVIOUS
  <2>1. x \in Semaphore!ToSet(r) <=> \E i \in 1..Len(r) : r[i] = x
    BY <1>1, InSequence
  <2>2. x \in Semaphore!ToSet(s) <=> \E i \in 1..Len(s) : s[i] = x
    BY InSequence
  <2>3. Len(s) + 1 \in 1..Len(r) /\ \A i \in 1..Len(s) : i \in 1..Len(r)
    BY <1>1
  <2>4. \A i \in 1..Len(r) : i \in 1..Len(s) \/ i = Len(s) + 1
    BY <1>1
  <2>5. QED
    BY <1>1, <2>1, <2>2, <2>3, <2>4
<1>5. QED
  BY <1>1, <1>3, <1>4 DEF r

\* A sequence that skips one place of another.
Skips(r, s, k) ==
    /\ Len(r) = Len(s) - 1
    /\ \A i \in 1..Len(r) : r[i] = (IF i < k THEN s[i] ELSE s[i + 1])

\* It has everything else of it.
LEMMA Skipped ==
    ASSUME NEW S, NEW s \in Seq(S), NEW r \in Seq(S), NEW k \in 1..Len(s), NoTwice(s), Skips(r, s, k)
    PROVE  NoTwice(r) /\ Semaphore!ToSet(r) = Semaphore!ToSet(s) \ {s[k]}
<1>0. /\ Len(s) \in Nat /\ Len(r) \in Nat /\ Len(r) = Len(s) - 1
      /\ \A i \in 1..Len(r) : r[i] = (IF i < k THEN s[i] ELSE s[i + 1])
  BY LenProperties DEF Skips
<1> DEFINE from(i) == IF i < k THEN i ELSE i + 1
<1>1. \A i \in 1..Len(r) : from(i) \in 1..Len(s) /\ from(i) # k /\ r[i] = s[from(i)]
  BY <1>0
<1>2. \A i, j \in 1..Len(r) : from(i) = from(j) => i = j
  BY <1>0
<1>3. \A j \in 1..Len(s) : j # k => \E i \in 1..Len(r) : from(i) = j
  <2> SUFFICES ASSUME NEW j \in 1..Len(s), j # k PROVE \E i \in 1..Len(r) : from(i) = j
    OBVIOUS
  <2>1. CASE j < k
    <3>1. j \in 1..Len(r) /\ from(j) = j
      BY <1>0, <2>1
    <3>2. QED
      BY <3>1
  <2>2. CASE j > k
    <3>1. j - 1 \in 1..Len(r) /\ from(j - 1) = j
      BY <1>0, <2>2
    <3>2. QED
      BY <3>1
  <2>3. QED
    BY <1>0, <2>1, <2>2
<1> HIDE DEF from
<1>4. NoTwice(r)
  BY <1>1, <1>2 DEF NoTwice
<1>5. \A x : x \in Semaphore!ToSet(r) <=> x \in Semaphore!ToSet(s) \ {s[k]}
  <2> SUFFICES ASSUME NEW x PROVE x \in Semaphore!ToSet(r) <=> x \in Semaphore!ToSet(s) \ {s[k]}
    OBVIOUS
  <2>1. x \in Semaphore!ToSet(r) <=> \E i \in 1..Len(r) : r[i] = x
    BY InSequence
  <2>2. x \in Semaphore!ToSet(s) <=> \E i \in 1..Len(s) : s[i] = x
    BY InSequence
  <2>3. \A j \in 1..Len(s) : s[j] = s[k] <=> j = k
    BY DEF NoTwice
  <2>4. ASSUME NEW i \in 1..Len(r), r[i] = x PROVE x \in Semaphore!ToSet(s) \ {s[k]}
    BY <1>1, <2>2, <2>3, <2>4
  <2>5. ASSUME NEW j \in 1..Len(s), s[j] = x, x # s[k] PROVE \E i \in 1..Len(r) : r[i] = x
    BY <1>1, <1>3, <2>5
  <2>6. QED
    BY <2>1, <2>2, <2>4, <2>5
<1>6. QED
  BY <1>4, <1>5

\* Who leaves the queue, from wherever it was, leaves the others in it.
LEMMA Left ==
    ASSUME NEW S, NEW s \in Seq(S), NEW k \in 1..Len(s), NoTwice(s)
    PROVE  /\ Semaphore!RemoveAt(s, k) \in Seq(S) /\ Len(Semaphore!RemoveAt(s, k)) = Len(s) - 1
           /\ NoTwice(Semaphore!RemoveAt(s, k))
           /\ Semaphore!ToSet(Semaphore!RemoveAt(s, k)) = Semaphore!ToSet(s) \ {s[k]}
<1> DEFINE front == SubSeq(s, 1, k - 1)
           back == SubSeq(s, k + 1, Len(s))
           r == front \o back
<1>0. Len(s) \in Nat /\ k \in Nat
  BY LenProperties
<1>1. /\ front \in Seq(S) /\ Len(front) = k - 1
      /\ \A i \in 1..(k - 1) : front[i] = s[i]
  BY <1>0, SubSeqProperties
<1>2. /\ back \in Seq(S) /\ Len(back) = Len(s) - k
      /\ \A i \in 1..(Len(s) - k) : back[i] = s[k + i]
  BY <1>0, SubSeqProperties
<1> HIDE DEF front, back
<1>3. /\ r \in Seq(S) /\ Len(r) = Len(front) + Len(back)
      /\ \A i \in 1..Len(r) : r[i] = (IF i <= Len(front) THEN front[i] ELSE back[i - Len(front)])
  <2>1. Len(front) \in Nat /\ Len(back) \in Nat
    BY <1>1, <1>2, LenProperties
  <2>2. r \in Seq(S) /\ Len(r) = Len(front) + Len(back)
    BY <1>1, <1>2, ConcatProperties
  <2>3. \A i \in 1..(Len(front) + Len(back)) :
            r[i] = (IF i <= Len(front) THEN front[i] ELSE back[i - Len(front)])
    BY <1>1, <1>2, ConcatProperties
  <2>4. QED
    BY <2>2, <2>3, Zenon
<1> HIDE DEF r
<1>4. Len(r) = Len(s) - 1
  BY <1>0, <1>1, <1>2, <1>3
<1>5. \A i \in 1..Len(r) : r[i] = (IF i < k THEN s[i] ELSE s[i + 1])
  <2> SUFFICES ASSUME NEW i \in 1..Len(r) PROVE r[i] = (IF i < k THEN s[i] ELSE s[i + 1])
    OBVIOUS
  <2>1. CASE i < k
    <3>1. i \in 1..(k - 1) /\ i <= Len(front)
      BY <1>0, <1>1, <1>4, <2>1
    <3>2. r[i] = front[i] /\ front[i] = s[i]
      BY <1>1, <1>3, <3>1
    <3>3. QED
      BY <2>1, <3>2
  <2>2. CASE ~(i < k)
    <3>1. i - (k - 1) \in 1..(Len(s) - k) /\ k + (i - (k - 1)) = i + 1
      BY <1>0, <1>4, <2>2
    <3>2. r[i] = back[i - (k - 1)]
      BY <1>0, <1>1, <1>3, <2>2
    <3>3. QED
      BY <1>2, <2>2, <3>1, <3>2
  <2>3. QED
    BY <2>1, <2>2
<1>6. NoTwice(r) /\ Semaphore!ToSet(r) = Semaphore!ToSet(s) \ {s[k]}
  <2>1. r \in Seq(S) /\ Skips(r, s, k)
    BY <1>3, <1>4, <1>5 DEF Skips
  <2>2. QED
    BY <2>1, Skipped
<1>7. QED
  BY <1>3, <1>4, <1>6 DEF Semaphore!RemoveAt, r, front, back

\* The first of the queue leaves it.
LEMMA FirstLeft ==
    ASSUME NEW S, NEW s \in Seq(S), s # << >>, NoTwice(s)
    PROVE  /\ Tail(s) \in Seq(S) /\ Len(Tail(s)) = Len(s) - 1
           /\ NoTwice(Tail(s))
           /\ Head(s) \in Semaphore!ToSet(s) /\ Head(s) \in S
           /\ Semaphore!ToSet(Tail(s)) = Semaphore!ToSet(s) \ {Head(s)}
<1>1. /\ Tail(s) \in Seq(S) /\ Len(Tail(s)) = Len(s) - 1 /\ Head(s) \in S
      /\ \A i \in 1..Len(Tail(s)) : Tail(s)[i] = s[i + 1]
  BY HeadTailProperties
<1>2. Len(s) \in Nat /\ 1 \in 1..Len(s) /\ Head(s) = s[1]
  BY LenProperties, EmptySeq
<1>3. NoTwice(Tail(s)) /\ Semaphore!ToSet(Tail(s)) = Semaphore!ToSet(s) \ {s[1]}
  <2>1. Semaphore!RemoveAt(s, 1) = << >> \o Tail(s)
    <3>1. SubSeq(s, 1, 1 - 1) = << >>
      BY SubSeqEmpty
    <3>2. SubSeq(s, 1 + 1, Len(s)) = Tail(s)
      BY TailIsSubSeq
    <3>3. QED
      BY <3>1, <3>2 DEF Semaphore!RemoveAt
  <2>2. Semaphore!RemoveAt(s, 1) = Tail(s)
    BY <1>1, <2>1, ConcatEmptySeq
  <2>3. QED
    BY <1>2, <2>2, Left
<1>4. QED
  BY <1>1, <1>2, <1>3, InSequence

-----------------------------------------------------------------------------
\* What a step of the semaphore is for the pool.
PoolStep == Semaphore!Pool!Next \/ UNCHANGED Semaphore!Pool!vars

\* A call that is refused changes nothing for the pool, and neither does the
\* start of a task that has its permit.
LEMMA RefuseStep ==
    ASSUME Semaphore!SemaphoreAssumption, PoolInv, NEW t \in Tasks,
           Semaphore!AcquireAborted(t) \/ Semaphore!AcquireFull(t) \/ Semaphore!Resume(t)
    PROVE  PoolInv' /\ PoolStep
<1>1. PICK place \in Semaphore!Places :
          /\ task' = [task EXCEPT ![t] = place]
          /\ task[t] \in {"granted", "working"} <=> place \in {"granted", "working"}
          /\ task[t] # "waiting" /\ place # "waiting"
  BY DEF Semaphore!AcquireAborted, Semaphore!AcquireFull, Semaphore!Resume, Semaphore!Places, Semaphore!Ended
<1>2. UNCHANGED <<permits, waiters, aborted>>
  BY DEF Semaphore!AcquireAborted, Semaphore!AcquireFull, Semaphore!Resume
<1>3. Semaphore!Holders' = Semaphore!Holders
  BY <1>1 DEF Semaphore!Holders, PoolInv, Semaphore!TypeOK
<1>4. Semaphore!TypeOK'
  BY <1>1, <1>2 DEF PoolInv, Semaphore!TypeOK
<1>5. QueueHoldsWaiting'
  BY <1>1, <1>2 DEF PoolInv, QueueHoldsWaiting, Semaphore!TypeOK
<1>6. WaitsForPermit' /\ CountsHolders'
  BY <1>2, <1>3 DEF PoolInv, WaitsForPermit, CountsHolders
<1>7. PoolStep
  BY <1>2, <1>3 DEF PoolStep, Semaphore!Pool!vars
<1>8. QED
  BY <1>4, <1>5, <1>6, <1>7 DEF PoolInv

\* A call takes a free permit.
LEMMA TakeStep ==
    ASSUME Semaphore!SemaphoreAssumption, PoolInv, NEW t \in Tasks, Semaphore!AcquireFree(t)
    PROVE  PoolInv' /\ PoolStep
<1>1. /\ task[t] = "new" /\ permits < Limit /\ permits' = permits + 1
      /\ task' = [task EXCEPT ![t] = "granted"]
      /\ UNCHANGED <<waiters, aborted>>
  BY DEF Semaphore!AcquireFree
<1>2. permits \in Nat /\ Limit \in Nat
  BY DEF PoolInv, Semaphore!TypeOK, Semaphore!SemaphoreAssumption
<1>3. Semaphore!Holders' = Semaphore!Holders \cup {t} /\ t \notin Semaphore!Holders
  BY <1>1 DEF Semaphore!Holders, PoolInv, Semaphore!TypeOK
<1>4. Semaphore!TypeOK'
  <2>1. permits' \in 0..Limit
    BY <1>1, <1>2
  <2>2. QED
    BY <1>1, <2>1 DEF PoolInv, Semaphore!TypeOK, Semaphore!Places
<1>5. QueueHoldsWaiting'
  BY <1>1 DEF PoolInv, QueueHoldsWaiting, Semaphore!TypeOK
<1>6. WaitsForPermit'
  BY <1>1, <1>2 DEF PoolInv, WaitsForPermit
<1>7. CountsHolders'
  BY <1>1, <1>3, FS_AddElement DEF PoolInv, CountsHolders
<1>8. Semaphore!Pool!Take(t)
  <2>1. t \notin Semaphore!ToSet(waiters)
    BY <1>1 DEF PoolInv, QueueHoldsWaiting
  <2>2. Limit - permits > 0 /\ Limit - permits' = (Limit - permits) - 1
    BY <1>1, <1>2
  <2>3. QED
    BY <1>1, <1>3, <2>1, <2>2 DEF Semaphore!Pool!Take
<1>9. QED
  BY <1>4, <1>5, <1>6, <1>7, <1>8 DEF PoolInv, PoolStep, Semaphore!Pool!Next

\* A call joins the queue while no permit is free.
LEMMA WaitStep ==
    ASSUME Semaphore!SemaphoreAssumption, PoolInv, NEW t \in Tasks, Semaphore!Enqueue(t)
    PROVE  PoolInv' /\ PoolStep
<1>1. /\ task[t] = "new" /\ permits >= Limit /\ Len(waiters) < MaxWaiters
      /\ waiters' = Append(waiters, t)
      /\ task' = [task EXCEPT ![t] = "waiting"]
      /\ UNCHANGED <<permits, aborted>>
  BY DEF Semaphore!Enqueue
<1>2. permits \in 0..Limit /\ Limit \in Nat /\ MaxWaiters \in Nat /\ waiters \in Seq(Tasks)
  BY DEF PoolInv, Semaphore!TypeOK, Semaphore!SemaphoreAssumption
<1>3. permits = Limit
  BY <1>1, <1>2
<1>4. t \notin Semaphore!ToSet(waiters)
  BY <1>1 DEF PoolInv, QueueHoldsWaiting
<1>5. /\ waiters' \in Seq(Tasks) /\ Len(waiters') = Len(waiters) + 1 /\ NoTwice(waiters')
      /\ Semaphore!ToSet(waiters') = Semaphore!ToSet(waiters) \cup {t}
  BY <1>1, <1>2, <1>4, Joined DEF PoolInv, QueueHoldsWaiting
<1>6. Semaphore!Holders' = Semaphore!Holders /\ t \notin Semaphore!Holders
  BY <1>1 DEF Semaphore!Holders, PoolInv, Semaphore!TypeOK
<1>7. Semaphore!TypeOK'
  <2>1. Len(waiters') <= MaxWaiters
    BY <1>1, <1>2, <1>5, LenProperties
  <2>2. QED
    BY <1>1, <1>5, <2>1 DEF PoolInv, Semaphore!TypeOK, Semaphore!Places
<1>8. QueueHoldsWaiting'
  BY <1>1, <1>5 DEF PoolInv, QueueHoldsWaiting, Semaphore!TypeOK
<1>9. WaitsForPermit' /\ CountsHolders'
  BY <1>1, <1>3, <1>6 DEF PoolInv, WaitsForPermit, CountsHolders
<1>10. Semaphore!Pool!Wait(t)
  <2>1. Limit - permits = 0
    BY <1>2, <1>3
  <2>2. QED
    BY <1>1, <1>4, <1>5, <1>6, <2>1 DEF Semaphore!Pool!Wait
<1>11. QED
  BY <1>7, <1>8, <1>9, <1>10 DEF PoolInv, PoolStep, Semaphore!Pool!Next

\* The signal of a task takes it out of the queue, if it is still there.
LEMMA AbortStep ==
    ASSUME Semaphore!SemaphoreAssumption, PoolInv, NEW t \in Tasks, Semaphore!Abort(t)
    PROVE  PoolInv' /\ PoolStep
<1>1. aborted' = aborted \cup {t} /\ permits' = permits
  BY DEF Semaphore!Abort
<1>2. CASE UNCHANGED <<waiters, task>>
  <2>1. Semaphore!Holders' = Semaphore!Holders
    BY <1>2 DEF Semaphore!Holders
  <2>2. PoolInv'
    BY <1>1, <1>2, <2>1 DEF PoolInv, Semaphore!TypeOK, QueueHoldsWaiting, WaitsForPermit, CountsHolders
  <2>3. PoolStep
    BY <1>1, <1>2, <2>1 DEF PoolStep, Semaphore!Pool!vars
  <2>4. QED
    BY <2>2, <2>3
<1>3. ASSUME NEW i \in 1..Len(waiters), waiters[i] = t, waiters' = Semaphore!RemoveAt(waiters, i),
             task' = [task EXCEPT ![t] = "thrown"]
      PROVE  PoolInv' /\ PoolStep
  <2>0. waiters \in Seq(Tasks) /\ NoTwice(waiters) /\ Len(waiters) \in Nat /\ MaxWaiters \in Nat
    BY LenProperties DEF PoolInv, Semaphore!TypeOK, QueueHoldsWaiting, Semaphore!SemaphoreAssumption
  <2>1. /\ waiters' \in Seq(Tasks) /\ Len(waiters') = Len(waiters) - 1 /\ NoTwice(waiters')
        /\ Semaphore!ToSet(waiters') = Semaphore!ToSet(waiters) \ {t}
    BY <1>3, <2>0, Left
  <2>2. t \in Semaphore!ToSet(waiters) /\ waiters # << >>
    BY <1>3, <2>0, InSequence, EmptySeq
  <2>3. task[t] = "waiting" /\ permits = Limit
    BY <2>2 DEF PoolInv, QueueHoldsWaiting, WaitsForPermit
  <2>4. Semaphore!Holders' = Semaphore!Holders
    BY <1>3, <2>3 DEF Semaphore!Holders, PoolInv, Semaphore!TypeOK
  <2>5. Semaphore!TypeOK'
    <3>1. Len(waiters') <= MaxWaiters
      BY <2>0, <2>1 DEF PoolInv, Semaphore!TypeOK
    <3>2. QED
      BY <1>1, <1>3, <2>1, <3>1 DEF PoolInv, Semaphore!TypeOK, Semaphore!Places, Semaphore!Ended
  <2>6. QueueHoldsWaiting'
    BY <1>3, <2>1 DEF PoolInv, QueueHoldsWaiting, Semaphore!TypeOK
  <2>7. WaitsForPermit' /\ CountsHolders'
    BY <1>1, <2>3, <2>4 DEF PoolInv, WaitsForPermit, CountsHolders
  <2>8. Semaphore!Pool!LeaveQueue(t)
    BY <1>1, <2>1, <2>2, <2>4 DEF Semaphore!Pool!LeaveQueue
  <2>9. QED
    BY <2>5, <2>6, <2>7, <2>8 DEF PoolInv, PoolStep, Semaphore!Pool!Next
<1>4. QED
  BY <1>2, <1>3 DEF Semaphore!Abort

\* A permit that is given back goes to the first who waits, or is free again.
LEMMA ReleaseStep ==
    ASSUME Semaphore!SemaphoreAssumption, PoolInv, NEW t \in Tasks, NEW end \in Semaphore!Ended,
           task[t] \in {"granted", "working"}, Semaphore!Release(t, end), UNCHANGED aborted
    PROVE  PoolInv' /\ PoolStep
<1>0. /\ Semaphore!TypeOK /\ QueueHoldsWaiting /\ WaitsForPermit /\ CountsHolders
      /\ permits \in Nat /\ Limit \in Nat /\ waiters \in Seq(Tasks)
      /\ end \in Semaphore!Places /\ end \notin {"granted", "working", "waiting"}
      /\ t \in Semaphore!Holders
  BY DEF PoolInv, Semaphore!TypeOK, Semaphore!SemaphoreAssumption, Semaphore!Ended, Semaphore!Places, Semaphore!Holders
<1>1. CASE waiters = << >>
  <2>1. permits' = permits - 1 /\ task' = [task EXCEPT ![t] = end] /\ waiters' = waiters
    BY <1>1 DEF Semaphore!Release
  <2>2. Semaphore!Holders' = Semaphore!Holders \ {t}
    BY <1>0, <2>1 DEF Semaphore!Holders, Semaphore!TypeOK
  <2>3. CountsHolders' /\ permits > 0
    <3>1. Cardinality(Semaphore!Holders) # 0
      BY <1>0, FS_EmptySet DEF CountsHolders
    <3>2. permits > 0
      BY <1>0, <3>1 DEF CountsHolders
    <3>3. CountsHolders'
      BY <1>0, <2>1, <2>2, FS_RemoveElement DEF CountsHolders
    <3>4. QED
      BY <3>2, <3>3
  <2>4. Semaphore!TypeOK'
    <3>1. permits' \in 0..Limit
      BY <1>0, <2>1, <2>3 DEF Semaphore!TypeOK
    <3>2. QED
      BY <1>0, <2>1, <3>1 DEF Semaphore!TypeOK
  <2>5. QueueHoldsWaiting'
    BY <1>0, <2>1 DEF QueueHoldsWaiting, Semaphore!TypeOK
  <2>6. WaitsForPermit'
    BY <1>1, <2>1 DEF WaitsForPermit
  <2>7. Semaphore!Pool!Give(t)
    <3>1. Semaphore!ToSet(waiters) = {}
      BY <1>1 DEF Semaphore!ToSet
    <3>2. Limit - permits' = (Limit - permits) + 1
      BY <1>0, <2>1
    <3>3. QED
      BY <1>0, <2>1, <2>2, <3>1, <3>2 DEF Semaphore!Pool!Give
  <2>8. QED
    BY <2>3, <2>4, <2>5, <2>6, <2>7 DEF PoolInv, PoolStep, Semaphore!Pool!Next
<1>2. CASE waiters # << >>
  <2> DEFINE u == Head(waiters)
  <2>1. /\ waiters' = Tail(waiters) /\ permits' = permits
        /\ task' = [task EXCEPT ![t] = end, ![u] = "granted"]
    BY <1>2 DEF Semaphore!Release
  <2>2. /\ waiters' \in Seq(Tasks) /\ Len(waiters') = Len(waiters) - 1 /\ NoTwice(waiters')
        /\ Semaphore!ToSet(waiters') = Semaphore!ToSet(waiters) \ {u}
        /\ u \in Semaphore!ToSet(waiters) /\ u \in Tasks
    BY <1>0, <1>2, <2>1, FirstLeft DEF QueueHoldsWaiting
  <2> HIDE DEF u
  <2>3. task[u] = "waiting" /\ u # t /\ permits = Limit /\ u \notin Semaphore!Holders
    BY <1>0, <1>2, <2>2 DEF QueueHoldsWaiting, WaitsForPermit, Semaphore!Holders
  <2>4. Semaphore!Holders' = (Semaphore!Holders \ {t}) \cup {u}
    BY <1>0, <2>1, <2>2, <2>3 DEF Semaphore!Holders, Semaphore!TypeOK
  <2>5. CountsHolders'
    <3>1. /\ IsFiniteSet(Semaphore!Holders \ {t}) /\ Cardinality(Semaphore!Holders \ {t}) = Cardinality(Semaphore!Holders) - 1
      BY <1>0, FS_RemoveElement DEF CountsHolders
    <3>2. /\ IsFiniteSet(Semaphore!Holders')
          /\ Cardinality(Semaphore!Holders') = Cardinality(Semaphore!Holders \ {t}) + 1
      BY <2>3, <2>4, <3>1, FS_AddElement
    <3>3. QED
      BY <1>0, <2>1, <3>1, <3>2 DEF CountsHolders
  <2>6. Semaphore!TypeOK'
    <3>1. Len(waiters') <= MaxWaiters
      BY <1>0, <2>2, LenProperties DEF Semaphore!TypeOK, Semaphore!SemaphoreAssumption
    <3>2. QED
      BY <1>0, <2>1, <2>2, <3>1 DEF Semaphore!TypeOK, Semaphore!Places
  <2>7. QueueHoldsWaiting'
    BY <1>0, <2>1, <2>2, <2>3 DEF QueueHoldsWaiting, Semaphore!TypeOK
  <2>8. WaitsForPermit'
    BY <2>1, <2>3 DEF WaitsForPermit
  <2>9. Semaphore!Pool!HandOver(t, u)
    BY <1>0, <2>1, <2>2, <2>4 DEF Semaphore!Pool!HandOver
  <2>10. QED
    BY <2>2, <2>5, <2>6, <2>7, <2>8, <2>9 DEF PoolInv, PoolStep, Semaphore!Pool!Next
<1>3. QED
  BY <1>1, <1>2

-----------------------------------------------------------------------------
\* At first nobody has called, and the pool is full.
LEMMA PoolInit == Semaphore!SemaphoreAssumption /\ Semaphore!Init => PoolInv /\ Semaphore!Pool!Init
<1> SUFFICES ASSUME Semaphore!SemaphoreAssumption, Semaphore!Init PROVE PoolInv /\ Semaphore!Pool!Init
  OBVIOUS
<1>1. Semaphore!Holders = {}
  BY DEF Semaphore!Init, Semaphore!Holders
<1>2. Semaphore!ToSet(waiters) = {}
  BY DEF Semaphore!Init, Semaphore!ToSet
<1>3. Semaphore!TypeOK
  BY EmptySeq DEF Semaphore!Init, Semaphore!TypeOK, Semaphore!SemaphoreAssumption, Semaphore!Places
<1>4. QueueHoldsWaiting
  BY <1>2 DEF Semaphore!Init, QueueHoldsWaiting, NoTwice
<1>5. WaitsForPermit /\ CountsHolders
  BY <1>1, FS_EmptySet DEF Semaphore!Init, WaitsForPermit, CountsHolders
<1>6. Semaphore!Pool!Init
  BY <1>1, <1>2 DEF Semaphore!Init, Semaphore!Pool!Init, Semaphore!SemaphoreAssumption
<1>7. QED
  BY <1>3, <1>4, <1>5, <1>6 DEF PoolInv

\* Every step of the semaphore keeps the invariant and is a step of the pool,
\* or changes nothing in it.
LEMMA PoolInductive == Semaphore!SemaphoreAssumption /\ PoolInv /\ [Semaphore!Next]_(Semaphore!vars) => PoolInv' /\ [Semaphore!Pool!Next]_(Semaphore!Pool!vars)
<1> SUFFICES ASSUME Semaphore!SemaphoreAssumption, PoolInv, [Semaphore!Next]_(Semaphore!vars) PROVE PoolInv' /\ PoolStep
  BY DEF PoolStep
<1>1. CASE UNCHANGED Semaphore!vars
  <2>1. Semaphore!Holders' = Semaphore!Holders
    BY <1>1 DEF Semaphore!vars, Semaphore!Holders
  <2>2. PoolInv'
    BY <1>1, <2>1 DEF Semaphore!vars, PoolInv, Semaphore!TypeOK, QueueHoldsWaiting, WaitsForPermit, CountsHolders
  <2>3. PoolStep
    BY <1>1, <2>1 DEF Semaphore!vars, PoolStep, Semaphore!Pool!vars
  <2>4. QED
    BY <2>2, <2>3
<1>2. ASSUME NEW t \in Tasks, Semaphore!ResumeAborted(t) \/ Semaphore!EndTask(t) PROVE PoolInv' /\ PoolStep
  <2>1. PICK end \in Semaphore!Ended : task[t] \in {"granted", "working"} /\ Semaphore!Release(t, end) /\ UNCHANGED aborted
    BY <1>2 DEF Semaphore!ResumeAborted, Semaphore!EndTask, Semaphore!Ended
  <2>2. QED
    BY <2>1, ReleaseStep
<1>3. QED
  BY <1>1, <1>2, RefuseStep, TakeStep, WaitStep, AbortStep DEF Semaphore!Next

\* The semaphore implements the pool: whatever the order of calls, ends and
\* aborts, no permit is lost or given twice, and nobody waits while one is free
\* (acquire, release and the abort listener).
THEOREM SemaphoreImplementsPool ==
    ASSUME Semaphore!SemaphoreAssumption
    PROVE  Semaphore!Spec => ImplementsPool
<1>1. PoolInv => Semaphore!TypeOK
  BY DEF PoolInv
<1>2. QED
  BY <1>1, PoolInit, PoolInductive, PTL
  DEF Semaphore!Spec, ImplementsPool, Semaphore!ImplementsPool, Semaphore!Pool!Spec

-----------------------------------------------------------------------------
(* The leader of the scheduler.                                            *)

\* A lock in Redis has time left.
LockHasTime == leaderLock # Leader!Free => ttl > 0

\* A process is in one election or in its current term.
OneThing ==
  \A p \in Hosts :
    /\ \A c, d \in Renewals : election[p][c] # "none" /\ election[p][d] # "none" => c = d
    /\ active[p] \subseteq {current[p]}
    /\ (\E c \in Renewals : election[p][c] # "none") => active[p] = {}

\* A process that is down does nothing.
DownIsIdle ==
  \A p \in Hosts :
    life[p] = "down" => active[p] = {} /\ \A c \in Renewals : election[p][c] = "none"

\* A timer is one of a term that goes on.
TimersInTerm ==
  \A p \in Hosts, n \in Terms, t \in PeriodicTasks :
    chain[p][n][t] = "timer" => n \in active[p]

\* Only a granted renewal has an age.
AgesOfGrants ==
  \A p \in Hosts, n \in Terms, t \in PeriodicTasks :
    chain[p][n][t] # "granted" => age[p][n][t] = 0

\* What was granted in a term that goes on is still held.
GrantedHolds ==
  \A p \in Hosts, n \in Terms, t \in PeriodicTasks :
    chain[p][n][t] = "granted" /\ n \in active[p] => leaderLock = p /\ ttl + age[p][n][t] >= TTL

LeaderInv ==
  /\ Leader!TypeOK
  /\ LockHasTime
  /\ OneThing
  /\ DownIsIdle
  /\ TimersInTerm
  /\ AgesOfGrants
  /\ GrantedHolds

\* A task starts only in the process that has the lock.
StartsUnderLock ==
  \A p \in Hosts, n \in Terms, t \in PeriodicTasks :
    (chain[p][n][t] # "running" /\ chain'[p][n][t] = "running") => leaderLock = p

-----------------------------------------------------------------------------
(* What the three commands do to the lock of a process that has it.        *)

\* Nobody takes the lock of another, and its time does not get shorter.
LockKept ==
  /\ leaderLock' \in Hosts \cup {Leader!Free, Leader!Left} /\ ttl' \in 0 .. TTL
  /\ leaderLock' # Leader!Free => ttl' > 0
  /\ leaderLock # Leader!Free => leaderLock' = leaderLock /\ ttl' >= ttl

\* A command that takes or renews the lock leaves it to who has it.
LEMMA CommandKeepsLock ==
  ASSUME Leader!LeaderAssumption, LeaderInv, NEW p \in Hosts, NEW reply \in BOOLEAN,
         Leader!Acquire(p, reply) \/ Leader!Renew(p, reply)
  PROVE  LockKept
<1>1. TTL \in Nat /\ TTL > 0 /\ p # Leader!Free /\ ttl \in Nat /\ ttl <= TTL
  BY DEF Leader!LeaderAssumption, LeaderInv, Leader!TypeOK
<1>2. leaderLock \in Hosts \cup {Leader!Free, Leader!Left} /\ (leaderLock # Leader!Free => ttl > 0)
  BY DEF LeaderInv, Leader!TypeOK, LockHasTime
<1>3. CASE Leader!Acquire(p, reply)
  BY <1>1, <1>2, <1>3 DEF Leader!Acquire, LockKept
<1>4. CASE Leader!Renew(p, reply)
  BY <1>1, <1>2, <1>4 DEF Leader!Renew, LockKept
<1>5. QED
  BY <1>3, <1>4

\* What was granted is still held as long as the lock is kept.
LEMMA KeptIsHeld ==
  ASSUME Leader!LeaderAssumption, LeaderInv, LockKept,
         NEW p \in Hosts, NEW n \in Terms, NEW t \in PeriodicTasks,
         chain[p][n][t] = "granted", n \in active[p]
  PROVE  leaderLock' = p /\ ttl' + age[p][n][t] >= TTL
<1>1. /\ leaderLock = p /\ ttl + age[p][n][t] >= TTL /\ p # Leader!Free
      /\ ttl \in Nat /\ TTL \in Nat /\ age[p][n][t] \in Nat
  BY DEF LeaderInv, GrantedHolds, Leader!TypeOK, Leader!LeaderAssumption
<1>2. leaderLock' = leaderLock /\ ttl' >= ttl /\ ttl' \in Nat
  BY <1>1 DEF LockKept, Leader!LeaderAssumption
<1>3. QED
  BY <1>1, <1>2

-----------------------------------------------------------------------------
\* An election goes on, or is given up.
LEMMA ElectionStep ==
  ASSUME Leader!LeaderAssumption, LeaderInv, NEW p \in Hosts, NEW c \in Renewals,
         \/ Leader!TryBecomeScheduler(p, c) \/ Leader!GiveUpElection(p, c)
         \/ Leader!RenewInElection(p, c) \/ Leader!LoseElection(p, c)
  PROVE  LeaderInv' /\ StartsUnderLock
<1>1. PICK e \in Leader!Elections :
        election' = [election EXCEPT ![p][c] = e] /\ election[p][c] # "none"
  BY DEF Leader!TryBecomeScheduler, Leader!GiveUpElection, Leader!RenewInElection, Leader!LoseElection, Leader!Elections
<1>2. LockKept
  <2>1. CASE UNCHANGED <<leaderLock, ttl>>
    BY <2>1 DEF LockKept, LeaderInv, Leader!TypeOK, LockHasTime, Leader!LeaderAssumption
  <2>2. CASE \E reply \in BOOLEAN : Leader!Acquire(p, reply) \/ Leader!Renew(p, reply)
    BY <2>2, CommandKeepsLock
  <2>3. QED
    BY <2>1, <2>2 DEF Leader!TryBecomeScheduler, Leader!GiveUpElection, Leader!RenewInElection, Leader!LoseElection
<1>3. UNCHANGED <<life, Leader!termVars>>
  BY DEF Leader!TryBecomeScheduler, Leader!GiveUpElection, Leader!RenewInElection, Leader!LoseElection
<1>4. UNCHANGED <<life, current, active, beating, beat, chain, age>>
  BY <1>3 DEF Leader!termVars
<1>5. Leader!TypeOK'
  BY <1>1, <1>2, <1>4 DEF LeaderInv, Leader!TypeOK, LockKept
<1>6. \A q \in Hosts, d \in Renewals : election'[q][d] # "none" => election[q][d] # "none"
  BY <1>1 DEF LeaderInv, Leader!TypeOK
<1>7. OneThing' /\ DownIsIdle'
  BY <1>4, <1>6 DEF LeaderInv, OneThing, DownIsIdle
<1>8. LockHasTime' /\ TimersInTerm' /\ AgesOfGrants'
  BY <1>2, <1>4 DEF LeaderInv, LockHasTime, LockKept, TimersInTerm, AgesOfGrants
<1>9. GrantedHolds'
  BY <1>2, <1>4, KeptIsHeld DEF GrantedHolds
<1>10. QED
  BY <1>4, <1>5, <1>7, <1>8, <1>9 DEF LeaderInv, StartsUnderLock

\* The interval renews the lock and goes on.
LEMMA BeatStep ==
  ASSUME Leader!LeaderAssumption, LeaderInv, NEW p \in Hosts, NEW n \in Terms, NEW c \in Renewals,
         Leader!Beat(p, n, c) \/ Leader!BeatAnswered(p, n, c)
  PROVE  LeaderInv' /\ StartsUnderLock
<1>1. PICK b \in Leader!Beats : beat' = [beat EXCEPT ![p][n][c] = b]
  BY DEF Leader!Beat, Leader!BeatAnswered, Leader!Beats
<1>2. LockKept
  <2>1. CASE UNCHANGED <<leaderLock, ttl>>
    BY <2>1 DEF LockKept, LeaderInv, Leader!TypeOK, LockHasTime, Leader!LeaderAssumption
  <2>2. CASE \E reply \in BOOLEAN : Leader!Renew(p, reply)
    BY <2>2, CommandKeepsLock
  <2>3. QED
    BY <2>1, <2>2 DEF Leader!Beat, Leader!BeatAnswered
<1>3. UNCHANGED <<life, election, current, active, beating, chain, age>>
  BY DEF Leader!Beat, Leader!BeatAnswered
<1>4. Leader!TypeOK'
  BY <1>1, <1>2, <1>3 DEF LeaderInv, Leader!TypeOK, LockKept
<1>5. OneThing' /\ DownIsIdle' /\ TimersInTerm' /\ AgesOfGrants'
  BY <1>3 DEF LeaderInv, OneThing, DownIsIdle, TimersInTerm, AgesOfGrants
<1>6. LockHasTime'
  BY <1>2 DEF LockHasTime, LockKept
<1>7. GrantedHolds'
  BY <1>2, <1>3, KeptIsHeld DEF GrantedHolds
<1>8. QED
  BY <1>3, <1>4, <1>5, <1>6, <1>7 DEF LeaderInv, StartsUnderLock

\* The timer of a task fires: a granted renewal is as new as the lock.
LEMMA FireStep ==
  ASSUME Leader!LeaderAssumption, LeaderInv, NEW p \in Hosts, NEW n \in Terms, NEW t \in PeriodicTasks,
         Leader!FireTask(p, n, t)
  PROVE  LeaderInv' /\ StartsUnderLock
<1>1. PICK reply \in BOOLEAN :
        /\ Leader!Renew(p, reply)
        /\ chain' = [chain EXCEPT ![p][n][t] = IF reply THEN "granted" ELSE "refused"]
  BY DEF Leader!FireTask
<1>2. /\ chain[p][n][t] = "timer"
      /\ UNCHANGED <<life, election, current, active, beating, beat, age>>
  BY DEF Leader!FireTask
<1>3. LockKept
  BY <1>1, CommandKeepsLock
<1>4. /\ chain'[p][n][t] \in {"granted", "refused"}
      /\ \A q \in Hosts, m \in Terms, u \in PeriodicTasks :
           (q # p \/ m # n \/ u # t) => chain'[q][m][u] = chain[q][m][u]
      /\ chain' \in [Hosts -> [Terms -> [PeriodicTasks -> Leader!Stages]]]
  BY <1>1 DEF LeaderInv, Leader!TypeOK, Leader!Stages
<1>5. Leader!TypeOK'
  BY <1>2, <1>3, <1>4 DEF LeaderInv, Leader!TypeOK, LockKept
<1>6. LockHasTime' /\ OneThing' /\ DownIsIdle'
  BY <1>2, <1>3 DEF LeaderInv, OneThing, DownIsIdle, LockHasTime, LockKept
<1>7. TimersInTerm' /\ AgesOfGrants'
  <2> SUFFICES ASSUME NEW q \in Hosts, NEW m \in Terms, NEW u \in PeriodicTasks
               PROVE  /\ chain'[q][m][u] = "timer" => m \in active'[q]
                      /\ chain'[q][m][u] # "granted" => age'[q][m][u] = 0
    BY DEF TimersInTerm, AgesOfGrants
  <2>1. /\ chain[q][m][u] = "timer" => m \in active[q]
        /\ chain[q][m][u] # "granted" => age[q][m][u] = 0
    BY DEF LeaderInv, TimersInTerm, AgesOfGrants
  <2>2. CASE q = p /\ m = n /\ u = t
    BY <1>2, <1>4, <2>1, <2>2
  <2>3. CASE q # p \/ m # n \/ u # t
    BY <1>2, <1>4, <2>1, <2>3
  <2>4. QED
    BY <2>2, <2>3
<1>8. GrantedHolds'
  <2> SUFFICES ASSUME NEW q \in Hosts, NEW m \in Terms, NEW u \in PeriodicTasks,
                      chain'[q][m][u] = "granted", m \in active'[q]
               PROVE  leaderLock' = q /\ ttl' + age'[q][m][u] >= TTL
    BY DEF GrantedHolds
  <2>1. CASE q = p /\ m = n /\ u = t
    <3>1. reply
      BY <1>1, <2>1 DEF LeaderInv, Leader!TypeOK
    <3>2. leaderLock' = p /\ ttl' = TTL
      BY <1>1, <3>1 DEF Leader!Renew
    <3>3. age'[p][n][t] = 0 /\ TTL \in Nat
      BY <1>2 DEF LeaderInv, AgesOfGrants, Leader!LeaderAssumption
    <3>4. QED
      BY <2>1, <3>2, <3>3
  <2>2. CASE q # p \/ m # n \/ u # t
    BY <1>2, <1>3, <1>4, <2>2, KeptIsHeld
  <2>3. QED
    BY <2>1, <2>2
<1>9. StartsUnderLock
  BY <1>4 DEF StartsUnderLock
<1>10. QED
  BY <1>5, <1>6, <1>7, <1>8, <1>9 DEF LeaderInv

\* A task starts, is skipped or ends, and its next timer is one of a term that
\* goes on.
LEMMA TaskStep ==
  ASSUME Leader!LeaderAssumption, LeaderInv, NEW p \in Hosts, NEW n \in Terms, NEW t \in PeriodicTasks,
         Leader!StartTask(p, n, t) \/ Leader!SkipTask(p, n, t) \/ Leader!EndTask(p, n, t)
  PROVE  LeaderInv' /\ StartsUnderLock
<1>1. PICK s \in {"running", "timer", "none"} :
        /\ chain' = [chain EXCEPT ![p][n][t] = s]
        /\ s = "timer" => n \in active[p]
        /\ s = "running" => chain[p][n][t] = "granted" /\ n \in active[p]
  BY DEF Leader!StartTask, Leader!SkipTask, Leader!EndTask, Leader!IsLeader, Leader!RunLater
<1>2. UNCHANGED <<leaderLock, ttl, life, election, current, active, beating, beat>>
  BY DEF Leader!StartTask, Leader!SkipTask, Leader!EndTask
<1>3. /\ chain'[p][n][t] = s
      /\ \A q \in Hosts, m \in Terms, u \in PeriodicTasks :
           (q # p \/ m # n \/ u # t) => chain'[q][m][u] = chain[q][m][u]
      /\ chain' \in [Hosts -> [Terms -> [PeriodicTasks -> Leader!Stages]]]
  BY <1>1 DEF LeaderInv, Leader!TypeOK, Leader!Stages
<1>4. /\ age' \in [Hosts -> [Terms -> [PeriodicTasks -> 0 .. Latency]]]
      /\ age'[p][n][t] = 0
      /\ \A q \in Hosts, m \in Terms, u \in PeriodicTasks :
           (q # p \/ m # n \/ u # t) => age'[q][m][u] = age[q][m][u]
  <2>1. CASE age' = [age EXCEPT ![p][n][t] = 0]
    BY <2>1 DEF LeaderInv, Leader!TypeOK, Leader!LeaderAssumption
  <2>2. CASE UNCHANGED age /\ chain[p][n][t] = "running"
    BY <2>2 DEF LeaderInv, Leader!TypeOK, AgesOfGrants
  <2>3. QED
    BY <2>1, <2>2 DEF Leader!StartTask, Leader!SkipTask, Leader!EndTask
<1>5. Leader!TypeOK'
  BY <1>2, <1>3, <1>4 DEF LeaderInv, Leader!TypeOK
<1>6. LockHasTime' /\ OneThing' /\ DownIsIdle'
  BY <1>2 DEF LeaderInv, OneThing, DownIsIdle, LockHasTime
<1>7. TimersInTerm' /\ AgesOfGrants'
  <2> SUFFICES ASSUME NEW q \in Hosts, NEW m \in Terms, NEW u \in PeriodicTasks
               PROVE  /\ chain'[q][m][u] = "timer" => m \in active'[q]
                      /\ chain'[q][m][u] # "granted" => age'[q][m][u] = 0
    BY DEF TimersInTerm, AgesOfGrants
  <2>1. /\ chain[q][m][u] = "timer" => m \in active[q]
        /\ chain[q][m][u] # "granted" => age[q][m][u] = 0
    BY DEF LeaderInv, TimersInTerm, AgesOfGrants
  <2>2. CASE q = p /\ m = n /\ u = t
    BY <1>1, <1>2, <1>3, <1>4, <2>2
  <2>3. CASE q # p \/ m # n \/ u # t
    BY <1>2, <1>3, <1>4, <2>1, <2>3
  <2>4. QED
    BY <2>2, <2>3
<1>8. GrantedHolds'
  <2> SUFFICES ASSUME NEW q \in Hosts, NEW m \in Terms, NEW u \in PeriodicTasks,
                      chain'[q][m][u] = "granted", m \in active'[q]
               PROVE  leaderLock' = q /\ ttl' + age'[q][m][u] >= TTL
    BY DEF GrantedHolds
  <2>1. chain[q][m][u] = "granted" /\ m \in active[q] => leaderLock = q /\ ttl + age[q][m][u] >= TTL
    BY DEF LeaderInv, GrantedHolds
  <2>2. q # p \/ m # n \/ u # t
    BY <1>1, <1>3
  <2>3. QED
    BY <1>2, <1>3, <1>4, <2>1, <2>2
<1>9. StartsUnderLock
  BY <1>1, <1>3 DEF LeaderInv, StartsUnderLock, GrantedHolds
<1>10. QED
  BY <1>5, <1>6, <1>7, <1>8, <1>9 DEF LeaderInv

-----------------------------------------------------------------------------
\* A term begins, with timers only.
LEMMA BeginStep ==
  ASSUME Leader!LeaderAssumption, LeaderInv, NEW p \in Hosts, NEW c \in Renewals, Leader!RunAsScheduler(p, c)
  PROVE  LeaderInv' /\ StartsUnderLock
<1>1. PICK n \in Terms :
        /\ Leader!IsOver(p, n)
        /\ current' = [current EXCEPT ![p] = n]
        /\ active' = [active EXCEPT ![p] = @ \cup {n}]
        /\ beating' = [beating EXCEPT ![p] = @ \cup {n}]
        /\ chain' = [chain EXCEPT ![p][n] = [t \in PeriodicTasks |-> "timer"]]
  BY DEF Leader!RunAsScheduler
<1>2. /\ election[p][c] # "none"
      /\ election' = [election EXCEPT ![p][c] = "none"]
      /\ UNCHANGED <<leaderLock, ttl, life, beat, age>>
  BY DEF Leader!RunAsScheduler
<1>3. active[p] = {} /\ \A d \in Renewals : d # c => election[p][d] = "none"
  BY <1>2 DEF LeaderInv, OneThing
<1>4. /\ election' \in [Hosts -> [Renewals -> Leader!Elections]]
      /\ \A d \in Renewals : election'[p][d] = "none"
      /\ \A q \in Hosts : q # p => election'[q] = election[q]
  BY <1>2, <1>3 DEF LeaderInv, Leader!TypeOK, Leader!Elections
<1>5. /\ current' \in [Hosts -> Terms \cup {Leader!NoTerm}]
      /\ active' \in [Hosts -> SUBSET Terms] /\ beating' \in [Hosts -> SUBSET Terms]
      /\ current'[p] = n /\ active'[p] = {n}
      /\ \A q \in Hosts : q # p => current'[q] = current[q] /\ active'[q] = active[q]
  BY <1>1, <1>3 DEF LeaderInv, Leader!TypeOK
<1>6. /\ chain' \in [Hosts -> [Terms -> [PeriodicTasks -> Leader!Stages]]]
      /\ \A t \in PeriodicTasks : chain'[p][n][t] = "timer"
      /\ \A q \in Hosts, m \in Terms, t \in PeriodicTasks :
           (q # p \/ m # n) => chain'[q][m][t] = chain[q][m][t]
  BY <1>1 DEF LeaderInv, Leader!TypeOK, Leader!Stages
<1>7. Leader!TypeOK'
  BY <1>2, <1>4, <1>5, <1>6 DEF LeaderInv, Leader!TypeOK
<1>8. LockHasTime' /\ OneThing'
  BY <1>2, <1>4, <1>5 DEF LeaderInv, LockHasTime, OneThing
<1>9. DownIsIdle'
  BY <1>2, <1>4, <1>5 DEF LeaderInv, DownIsIdle
<1>10. TimersInTerm' /\ AgesOfGrants'
  <2> SUFFICES ASSUME NEW q \in Hosts, NEW m \in Terms, NEW u \in PeriodicTasks
               PROVE  /\ chain'[q][m][u] = "timer" => m \in active'[q]
                      /\ chain'[q][m][u] # "granted" => age'[q][m][u] = 0
    BY DEF TimersInTerm, AgesOfGrants
  <2>1. /\ chain[q][m][u] = "timer" => m \in active[q]
        /\ chain[q][m][u] # "granted" => age[q][m][u] = 0
    BY DEF LeaderInv, TimersInTerm, AgesOfGrants
  <2>2. CASE q = p /\ m = n
    <3>1. age[q][m][u] = 0
      BY <1>1, <2>1, <2>2 DEF Leader!IsOver
    <3>2. QED
      BY <1>2, <1>5, <2>2, <3>1
  <2>3. CASE q = p /\ m # n
    BY <1>2, <1>3, <1>6, <2>1, <2>3
  <2>4. CASE q # p
    BY <1>2, <1>5, <1>6, <2>1, <2>4
  <2>5. QED
    BY <2>2, <2>3, <2>4
<1>11. GrantedHolds'
  <2> SUFFICES ASSUME NEW q \in Hosts, NEW m \in Terms, NEW u \in PeriodicTasks,
                      chain'[q][m][u] = "granted", m \in active'[q]
               PROVE  leaderLock' = q /\ ttl' + age'[q][m][u] >= TTL
    BY DEF GrantedHolds
  <2>1. chain[q][m][u] = "granted" /\ m \in active[q] => leaderLock = q /\ ttl + age[q][m][u] >= TTL
    BY DEF LeaderInv, GrantedHolds
  <2>2. q # p
    BY <1>5, <1>6
  <2>3. QED
    BY <1>2, <1>5, <1>6, <2>1, <2>2
<1>12. StartsUnderLock
  BY <1>6 DEF StartsUnderLock
<1>13. QED
  BY <1>7, <1>8, <1>9, <1>10, <1>11, <1>12 DEF LeaderInv

\* The end of a term leaves no timer of it.
LEMMA EndedTerm ==
  ASSUME LeaderInv, NEW p \in Hosts, NEW n \in Terms, Leader!EndSchedulerTerm(p, n)
  PROVE  /\ active' \in [Hosts -> SUBSET Terms]
         /\ active'[p] = active[p] \ {n}
         /\ \A q \in Hosts : q # p => active'[q] = active[q]
         /\ chain' \in [Hosts -> [Terms -> [PeriodicTasks -> Leader!Stages]]]
         /\ \A q \in Hosts, m \in Terms, t \in PeriodicTasks :
              \/ chain'[q][m][t] = chain[q][m][t] /\ (q = p /\ m = n => chain[q][m][t] # "timer")
              \/ chain'[q][m][t] = "none" /\ chain[q][m][t] = "timer"
<1>1. Leader!Untimed(p, n) \in [PeriodicTasks -> Leader!Stages]
  BY DEF LeaderInv, Leader!TypeOK, Leader!Untimed, Leader!Stages
<1>2. /\ active' = [active EXCEPT ![p] = @ \ {n}]
      /\ chain' = [chain EXCEPT ![p][n] = Leader!Untimed(p, n)]
  BY DEF Leader!EndSchedulerTerm
<1>3. chain' \in [Hosts -> [Terms -> [PeriodicTasks -> Leader!Stages]]]
  BY <1>1, <1>2 DEF LeaderInv, Leader!TypeOK
<1>4. ASSUME NEW q \in Hosts, NEW m \in Terms, NEW t \in PeriodicTasks
      PROVE  \/ chain'[q][m][t] = chain[q][m][t] /\ (q = p /\ m = n => chain[q][m][t] # "timer")
             \/ chain'[q][m][t] = "none" /\ chain[q][m][t] = "timer"
  <2>1. CASE q = p /\ m = n
    BY <1>2, <2>1 DEF LeaderInv, Leader!TypeOK, Leader!Untimed
  <2>2. CASE ~(q = p /\ m = n)
    BY <1>2, <2>2 DEF LeaderInv, Leader!TypeOK
  <2>3. QED
    BY <2>1, <2>2
<1>5. QED
  BY <1>2, <1>3, <1>4 DEF LeaderInv, Leader!TypeOK

\* A process that has nothing going on waits for an election.
LEMMA Retried ==
  ASSUME LeaderInv, NEW p \in Hosts, Leader!RetryElectionLater(p),
         \A c \in Renewals : election[p][c] = "none"
  PROVE  /\ election' \in [Hosts -> [Renewals -> Leader!Elections]]
         /\ \A c, d \in Renewals : election'[p][c] # "none" /\ election'[p][d] # "none" => c = d
         /\ \A q \in Hosts : q # p => election'[q] = election[q]
<1>1. PICK c \in Renewals : election' = [election EXCEPT ![p][c] = "waiting"]
  BY DEF Leader!RetryElectionLater
<1>2. QED
  BY <1>1 DEF LeaderInv, Leader!TypeOK, Leader!Elections

\* A term ends because its lock is gone.
LEMMA LoseStep ==
  ASSUME Leader!LeaderAssumption, LeaderInv, NEW p \in Hosts, NEW n \in Terms, NEW c \in Renewals,
         Leader!LoseTerm(p, n, c)
  PROVE  LeaderInv' /\ StartsUnderLock
<1>1. /\ n \in active[p] /\ Leader!EndSchedulerTerm(p, n) /\ Leader!RetryElectionLater(p)
      /\ beat' = [beat EXCEPT ![p][n][c] = "none"]
      /\ beating' = [beating EXCEPT ![p] = @ \ {n}]
      /\ UNCHANGED <<leaderLock, ttl, life, current, age>>
  BY DEF Leader!LoseTerm, Leader!LosesTerm
<1>2. active[p] = {n} /\ \A d \in Renewals : election[p][d] = "none"
  BY <1>1 DEF LeaderInv, OneThing
<1>3. /\ active' \in [Hosts -> SUBSET Terms] /\ active'[p] = {}
      /\ \A q \in Hosts : q # p => active'[q] = active[q]
  <2>1. active'[p] = active[p] \ {n}
    BY <1>1, EndedTerm
  <2>2. /\ active' \in [Hosts -> SUBSET Terms]
        /\ \A q \in Hosts : q # p => active'[q] = active[q]
    BY <1>1, EndedTerm
  <2>3. QED
    BY <1>2, <2>1, <2>2
<1>4. /\ chain' \in [Hosts -> [Terms -> [PeriodicTasks -> Leader!Stages]]]
      /\ \A q \in Hosts, m \in Terms, t \in PeriodicTasks :
           \/ chain'[q][m][t] = chain[q][m][t] /\ (q = p /\ m = n => chain[q][m][t] # "timer")
           \/ chain'[q][m][t] = "none" /\ chain[q][m][t] = "timer"
  BY <1>1, EndedTerm
<1>5. /\ election' \in [Hosts -> [Renewals -> Leader!Elections]]
      /\ \A d, e \in Renewals : election'[p][d] # "none" /\ election'[p][e] # "none" => d = e
      /\ \A q \in Hosts : q # p => election'[q] = election[q]
  BY <1>1, <1>2, Retried
<1>6. Leader!TypeOK'
  <2>1. /\ beat' \in [Hosts -> [Terms -> [Renewals -> Leader!Beats]]]
        /\ beating' \in [Hosts -> SUBSET Terms]
    BY <1>1 DEF LeaderInv, Leader!TypeOK, Leader!Beats
  <2>2. QED
    BY <1>1, <1>3, <1>4, <1>5, <2>1 DEF LeaderInv, Leader!TypeOK
<1>7. LockHasTime' /\ OneThing'
  BY <1>1, <1>3, <1>5 DEF LeaderInv, LockHasTime, OneThing
<1>8. DownIsIdle'
  BY <1>1, <1>3, <1>5 DEF LeaderInv, DownIsIdle
<1>9. TimersInTerm' /\ AgesOfGrants'
  <2> SUFFICES ASSUME NEW q \in Hosts, NEW m \in Terms, NEW u \in PeriodicTasks
               PROVE  /\ chain'[q][m][u] = "timer" => m \in active'[q]
                      /\ chain'[q][m][u] # "granted" => age'[q][m][u] = 0
    BY DEF TimersInTerm, AgesOfGrants
  <2>1. /\ chain[q][m][u] = "timer" => m \in active[q]
        /\ chain[q][m][u] # "granted" => age[q][m][u] = 0
    BY DEF LeaderInv, TimersInTerm, AgesOfGrants
  <2>2. CASE q = p
    BY <1>1, <1>2, <1>4, <2>1, <2>2
  <2>3. CASE q # p
    BY <1>1, <1>3, <1>4, <2>1, <2>3
  <2>4. QED
    BY <2>2, <2>3
<1>10. GrantedHolds'
  <2> SUFFICES ASSUME NEW q \in Hosts, NEW m \in Terms, NEW u \in PeriodicTasks,
                      chain'[q][m][u] = "granted", m \in active'[q]
               PROVE  leaderLock' = q /\ ttl' + age'[q][m][u] >= TTL
    BY DEF GrantedHolds
  <2>1. chain[q][m][u] = "granted" /\ m \in active[q] => leaderLock = q /\ ttl + age[q][m][u] >= TTL
    BY DEF LeaderInv, GrantedHolds
  <2>2. q # p /\ chain[q][m][u] = "granted"
    BY <1>3, <1>4
  <2>3. QED
    BY <1>1, <1>3, <2>1, <2>2
<1>11. StartsUnderLock
  BY <1>4 DEF StartsUnderLock
<1>12. QED
  BY <1>6, <1>7, <1>8, <1>9, <1>10, <1>11 DEF LeaderInv

-----------------------------------------------------------------------------
\* A process is told to stop: its term ends before the lock is given up.
LEMMA StopStep ==
  ASSUME Leader!LeaderAssumption, LeaderInv, NEW p \in Hosts, Leader!Stop(p)
  PROVE  LeaderInv' /\ StartsUnderLock
<1>1. /\ life[p] = "up" /\ life' = [life EXCEPT ![p] = "stopping"] /\ Leader!Release(p)
      /\ UNCHANGED <<election, current, beating, beat, age>>
  BY DEF Leader!Stop
<1>2. /\ active' \in [Hosts -> SUBSET Terms] /\ active'[p] = {}
      /\ \A q \in Hosts : q # p => active'[q] = active[q]
      /\ chain' \in [Hosts -> [Terms -> [PeriodicTasks -> Leader!Stages]]]
      /\ \A q \in Hosts, m \in Terms, t \in PeriodicTasks :
           \/ chain'[q][m][t] = chain[q][m][t] /\ (q = p => chain[q][m][t] # "timer")
           \/ chain'[q][m][t] = "none" /\ chain[q][m][t] = "timer"
  <2>1. CASE current[p] = Leader!NoTerm
    <3>1. active[p] = {} /\ UNCHANGED <<active, chain>>
      BY <2>1 DEF LeaderInv, OneThing, Leader!TypeOK, Leader!LeaderAssumption, Leader!Stop
    <3>2. QED
      BY <3>1 DEF LeaderInv, Leader!TypeOK, TimersInTerm
  <2>2. CASE current[p] # Leader!NoTerm
    <3>1. current[p] \in Terms /\ Leader!EndSchedulerTerm(p, current[p]) /\ active[p] \subseteq {current[p]}
      BY <2>2 DEF LeaderInv, OneThing, Leader!TypeOK, Leader!Stop
    <3>2. \A m \in Terms, t \in PeriodicTasks : chain[p][m][t] = "timer" => m = current[p]
      BY <3>1 DEF LeaderInv, TimersInTerm
    <3>3. QED
      BY <3>1, <3>2, EndedTerm
  <2>3. QED
    BY <2>1, <2>2
<1>3. /\ leaderLock' \in Hosts \cup {Leader!Free, Leader!Left} /\ ttl' \in 0 .. TTL
      /\ leaderLock' # Leader!Free => ttl' > 0
      /\ \A q \in Hosts : q # p /\ leaderLock = q => leaderLock' = leaderLock /\ ttl' = ttl
  BY <1>1 DEF Leader!Release, LeaderInv, Leader!TypeOK, LockHasTime, Leader!LeaderAssumption
<1>4. Leader!TypeOK'
  BY <1>1, <1>2, <1>3 DEF LeaderInv, Leader!TypeOK
<1>5. LockHasTime' /\ OneThing'
  <2>1. LockHasTime'
    BY <1>3 DEF LockHasTime
  <2>2. \A q \in Hosts : active'[q] \subseteq active[q]
    BY <1>2
  <2>3. QED
    BY <1>1, <2>1, <2>2 DEF LeaderInv, OneThing
<1>6. DownIsIdle'
  BY <1>1, <1>2 DEF LeaderInv, DownIsIdle, Leader!TypeOK
<1>7. TimersInTerm' /\ AgesOfGrants'
  <2> SUFFICES ASSUME NEW q \in Hosts, NEW m \in Terms, NEW u \in PeriodicTasks
               PROVE  /\ chain'[q][m][u] = "timer" => m \in active'[q]
                      /\ chain'[q][m][u] # "granted" => age'[q][m][u] = 0
    BY DEF TimersInTerm, AgesOfGrants
  <2>1. /\ chain[q][m][u] = "timer" => m \in active[q]
        /\ chain[q][m][u] # "granted" => age[q][m][u] = 0
    BY DEF LeaderInv, TimersInTerm, AgesOfGrants
  <2>2. CASE q = p
    BY <1>1, <1>2, <2>1, <2>2
  <2>3. CASE q # p
    BY <1>1, <1>2, <2>1, <2>3
  <2>4. QED
    BY <2>2, <2>3
<1>8. GrantedHolds'
  <2> SUFFICES ASSUME NEW q \in Hosts, NEW m \in Terms, NEW u \in PeriodicTasks,
                      chain'[q][m][u] = "granted", m \in active'[q]
               PROVE  leaderLock' = q /\ ttl' + age'[q][m][u] >= TTL
    BY DEF GrantedHolds
  <2>1. chain[q][m][u] = "granted" /\ m \in active[q] => leaderLock = q /\ ttl + age[q][m][u] >= TTL
    BY DEF LeaderInv, GrantedHolds
  <2>2. q # p /\ chain[q][m][u] = "granted"
    BY <1>2
  <2>3. QED
    BY <1>1, <1>2, <1>3, <2>1, <2>2
<1>9. StartsUnderLock
  BY <1>2 DEF StartsUnderLock
<1>10. QED
  BY <1>4, <1>5, <1>6, <1>7, <1>8, <1>9 DEF LeaderInv

\* A process is gone, with its timers and answers; its lock runs out.
LEMMA ExitStep ==
  ASSUME Leader!LeaderAssumption, LeaderInv, NEW p \in Hosts, Leader!Exit(p)
  PROVE  LeaderInv' /\ StartsUnderLock
<1>1. /\ life' = [life EXCEPT ![p] = "down"]
      /\ leaderLock' = (IF leaderLock = p THEN Leader!Left ELSE leaderLock) /\ ttl' = ttl
      /\ election' = [election EXCEPT ![p] = Leader!NoElection]
      /\ current' = [current EXCEPT ![p] = Leader!NoTerm]
      /\ active' = [active EXCEPT ![p] = {}]
      /\ beating' = [beating EXCEPT ![p] = {}]
      /\ beat' = [beat EXCEPT ![p] = Leader!NoBeats]
      /\ chain' = [chain EXCEPT ![p] = Leader!NoChains]
      /\ age' = [age EXCEPT ![p] = Leader!NoAges]
  BY DEF Leader!Exit
<1>2. /\ Leader!NoElection \in [Renewals -> Leader!Elections] /\ Leader!NoBeats \in [Terms -> [Renewals -> Leader!Beats]]
      /\ Leader!NoChains \in [Terms -> [PeriodicTasks -> Leader!Stages]]
      /\ Leader!NoAges \in [Terms -> [PeriodicTasks -> 0 .. Latency]]
  BY DEF Leader!NoElection, Leader!NoBeats, Leader!NoChains, Leader!NoAges, Leader!Elections, Leader!Beats, Leader!Stages, Leader!LeaderAssumption
<1>3. /\ election'[p] = Leader!NoElection /\ active'[p] = {} /\ chain'[p] = Leader!NoChains /\ age'[p] = Leader!NoAges
      /\ \A q \in Hosts :
           q # p => /\ election'[q] = election[q] /\ active'[q] = active[q] /\ current'[q] = current[q]
                    /\ chain'[q] = chain[q] /\ age'[q] = age[q] /\ life'[q] = life[q]
  BY <1>1 DEF LeaderInv, Leader!TypeOK
<1>4. Leader!TypeOK'
  BY <1>1, <1>2 DEF LeaderInv, Leader!TypeOK
<1>5. LockHasTime'
  BY <1>1 DEF LeaderInv, LockHasTime, Leader!LeaderAssumption
<1>6. OneThing' /\ DownIsIdle'
  BY <1>3 DEF LeaderInv, OneThing, DownIsIdle, Leader!NoElection
<1>7. TimersInTerm' /\ AgesOfGrants'
  BY <1>3 DEF LeaderInv, TimersInTerm, AgesOfGrants, Leader!NoChains, Leader!NoAges
<1>8. GrantedHolds'
  BY <1>1, <1>3 DEF LeaderInv, GrantedHolds
<1>9. StartsUnderLock
  BY <1>3 DEF StartsUnderLock, Leader!NoChains
<1>10. QED
  BY <1>4, <1>5, <1>6, <1>7, <1>8, <1>9 DEF LeaderInv

\* A process that is started again waits for an election.
LEMMA RestartStep ==
  ASSUME Leader!LeaderAssumption, LeaderInv, NEW p \in Hosts, Leader!Restart(p)
  PROVE  LeaderInv' /\ StartsUnderLock
<1>1. /\ life[p] = "down" /\ life' = [life EXCEPT ![p] = "up"] /\ Leader!RetryElectionLater(p)
      /\ UNCHANGED <<leaderLock, ttl, current, active, beating, beat, chain, age>>
  BY DEF Leader!Restart, Leader!termVars
<1>2. active[p] = {} /\ \A c \in Renewals : election[p][c] = "none"
  BY <1>1 DEF LeaderInv, DownIsIdle
<1>3. /\ election' \in [Hosts -> [Renewals -> Leader!Elections]]
      /\ \A d, e \in Renewals : election'[p][d] # "none" /\ election'[p][e] # "none" => d = e
      /\ \A q \in Hosts : q # p => election'[q] = election[q]
  BY <1>1, <1>2, Retried
<1>4. Leader!TypeOK'
  BY <1>1, <1>3 DEF LeaderInv, Leader!TypeOK
<1>5. OneThing' /\ LockHasTime'
  BY <1>1, <1>2, <1>3 DEF LeaderInv, OneThing, LockHasTime
<1>6. DownIsIdle'
  BY <1>1, <1>3 DEF LeaderInv, DownIsIdle, Leader!TypeOK
<1>7. TimersInTerm' /\ AgesOfGrants' /\ GrantedHolds' /\ StartsUnderLock
  BY <1>1 DEF LeaderInv, TimersInTerm, AgesOfGrants, GrantedHolds, StartsUnderLock
<1>8. QED
  BY <1>4, <1>5, <1>6, <1>7 DEF LeaderInv

\* A tick makes every answer older and the lock's time shorter by one, and no
\* answer is so old that the lock runs out before it is handled.
LEMMA TickStep ==
  ASSUME Leader!LeaderAssumption, LeaderInv, Leader!Tick
  PROVE  LeaderInv' /\ StartsUnderLock
<1>1. /\ leaderLock # Leader!Free /\ ttl' = ttl - 1 /\ leaderLock' = (IF ttl = 1 THEN Leader!Free ELSE leaderLock)
      /\ UNCHANGED <<life, election, current, active, beating, beat, chain>>
      /\ \A p \in Hosts, n \in Terms, t \in PeriodicTasks :
           chain[p][n][t] = "granted" => age[p][n][t] < Latency
      /\ age' = [p \in Hosts |-> [n \in Terms |-> [t \in PeriodicTasks |->
                   IF chain[p][n][t] = "granted" THEN age[p][n][t] + 1 ELSE 0]]]
  BY DEF Leader!Tick
<1>2. TTL \in Nat /\ Latency \in Nat /\ Latency < TTL /\ ttl \in Nat /\ ttl > 0 /\ ttl <= TTL
  BY <1>1 DEF Leader!LeaderAssumption, LeaderInv, Leader!TypeOK, LockHasTime
<1>3. \A p \in Hosts, n \in Terms, t \in PeriodicTasks :
        /\ age[p][n][t] \in 0 .. Latency /\ age[p][n][t] \in Nat
        /\ age'[p][n][t] = (IF chain[p][n][t] = "granted" THEN age[p][n][t] + 1 ELSE 0)
  BY <1>1, <1>2 DEF LeaderInv, Leader!TypeOK
<1>4. \A p \in Hosts, n \in Terms, t \in PeriodicTasks : age'[p][n][t] \in 0 .. Latency
  BY <1>1, <1>2, <1>3
<1>5. Leader!TypeOK'
  <2>1. age' \in [Hosts -> [Terms -> [PeriodicTasks -> 0 .. Latency]]]
    <3> DEFINE older(p, n, t) == IF chain[p][n][t] = "granted" THEN age[p][n][t] + 1 ELSE 0
    <3>1. \A p \in Hosts, n \in Terms, t \in PeriodicTasks : older(p, n, t) \in 0 .. Latency
      BY <1>3, <1>4
    <3>2. age' = [p \in Hosts |-> [n \in Terms |-> [t \in PeriodicTasks |-> older(p, n, t)]]]
      BY <1>1
    <3> HIDE DEF older
    <3>3. QED
      BY <3>1, <3>2
  <2>2. ttl' \in 0 .. TTL /\ leaderLock' \in Hosts \cup {Leader!Free, Leader!Left}
    BY <1>1, <1>2 DEF LeaderInv, Leader!TypeOK
  <2>3. QED
    BY <1>1, <2>1, <2>2 DEF LeaderInv, Leader!TypeOK
<1>6. LockHasTime'
  BY <1>1, <1>2 DEF LockHasTime
<1>7. OneThing' /\ DownIsIdle' /\ TimersInTerm' /\ StartsUnderLock
  BY <1>1 DEF LeaderInv, OneThing, DownIsIdle, TimersInTerm, StartsUnderLock
<1>8. AgesOfGrants'
  BY <1>1, <1>3 DEF AgesOfGrants
<1>9. GrantedHolds'
  <2> SUFFICES ASSUME NEW p \in Hosts, NEW n \in Terms, NEW t \in PeriodicTasks,
                      chain[p][n][t] = "granted", n \in active[p]
               PROVE  leaderLock' = p /\ ttl' + age'[p][n][t] >= TTL
    BY <1>1 DEF GrantedHolds
  <2>1. leaderLock = p /\ ttl + age[p][n][t] >= TTL
    BY DEF LeaderInv, GrantedHolds
  <2>2. age[p][n][t] < Latency /\ age'[p][n][t] = age[p][n][t] + 1 /\ age[p][n][t] \in Nat
    BY <1>1, <1>3
  <2>3. QED
    BY <1>1, <1>2, <2>1, <2>2
<1>10. QED
  BY <1>5, <1>6, <1>7, <1>8, <1>9 DEF LeaderInv

-----------------------------------------------------------------------------
\* At first every process waits for its first election.
LEMMA LeaderInit == Leader!LeaderAssumption /\ Leader!Init => LeaderInv
<1> SUFFICES ASSUME Leader!LeaderAssumption, Leader!Init PROVE LeaderInv
  OBVIOUS
<1>1. /\ election \in [Hosts -> [Renewals -> Leader!Elections]]
      /\ \A p \in Hosts : \E c \in Renewals : election[p] = [Leader!NoElection EXCEPT ![c] = "waiting"]
  <2>1. \A c \in Renewals : [Leader!NoElection EXCEPT ![c] = "waiting"] \in [Renewals -> Leader!Elections]
    BY DEF Leader!NoElection, Leader!Elections
  <2>2. QED
    BY <2>1 DEF Leader!Init
<1>2. /\ Leader!NoBeats \in [Terms -> [Renewals -> Leader!Beats]]
      /\ Leader!NoChains \in [Terms -> [PeriodicTasks -> Leader!Stages]]
      /\ Leader!NoAges \in [Terms -> [PeriodicTasks -> 0 .. Latency]]
  BY DEF Leader!NoBeats, Leader!NoChains, Leader!NoAges, Leader!Beats, Leader!Stages, Leader!LeaderAssumption
<1>3. Leader!TypeOK
  BY <1>1, <1>2 DEF Leader!Init, Leader!TypeOK, Leader!LeaderAssumption
<1>4. OneThing
  BY <1>1 DEF Leader!Init, OneThing, Leader!NoElection
<1>5. LockHasTime /\ DownIsIdle
  BY DEF Leader!Init, LockHasTime, DownIsIdle
<1>6. TimersInTerm /\ AgesOfGrants /\ GrantedHolds
  BY DEF Leader!Init, TimersInTerm, AgesOfGrants, GrantedHolds, Leader!NoChains, Leader!NoAges
<1>7. QED
  BY <1>3, <1>4, <1>5, <1>6 DEF LeaderInv

\* Every step keeps the invariant, and starts tasks under the lock.
LEMMA LeaderInductive == Leader!LeaderAssumption /\ LeaderInv /\ [Leader!Next]_(Leader!vars) => LeaderInv' /\ StartsUnderLock
<1> SUFFICES ASSUME Leader!LeaderAssumption, LeaderInv, [Leader!Next]_(Leader!vars) PROVE LeaderInv' /\ StartsUnderLock
  OBVIOUS
<1>1. CASE UNCHANGED Leader!vars
  <2>1. Leader!TypeOK'
    BY <1>1 DEF LeaderInv, Leader!TypeOK, Leader!vars
  <2>2. QED
    BY <1>1, <2>1 DEF LeaderInv, LockHasTime, OneThing, DownIsIdle, TimersInTerm, AgesOfGrants, GrantedHolds,
                      StartsUnderLock, Leader!vars
<1>2. QED
  BY <1>1, ElectionStep, BeatStep, FireStep, TaskStep, BeginStep, LoseStep, StopStep, ExitStep,
     RestartStep, TickStep DEF Leader!Next

\* The invariant has what is said of terms and timers.
LEMMA LeaderIsOneTerm == LeaderInv => Leader!TypeOK /\ Leader!OneTerm
<1>0. \A S : Leader!Cardinality(S) = Cardinality(S)
  BY DEF Leader!Cardinality, Cardinality
<1> SUFFICES ASSUME LeaderInv, NEW p \in Hosts
             PROVE  Cardinality({c \in Renewals : election[p][c] # "none"}) + Cardinality(active[p]) <= 1
  BY <1>0 DEF LeaderInv, Leader!OneTerm, TimersInTerm
<1> DEFINE E == {c \in Renewals : election[p][c] # "none"}
<1>1. CASE E = {}
  <2>1. active[p] = {} \/ active[p] = {current[p]}
    BY DEF LeaderInv, OneThing
  <2>2. Cardinality(active[p]) \in {0, 1}
    BY <2>1, FS_EmptySet, FS_Singleton
  <2>3. Cardinality(E) = 0
    BY <1>1, FS_EmptySet
  <2>4. QED
    BY <2>2, <2>3
<1>2. CASE E # {}
  <2>1. PICK c \in Renewals : E = {c}
    BY <1>2 DEF LeaderInv, OneThing
  <2>2. active[p] = {}
    BY <1>2 DEF LeaderInv, OneThing
  <2>3. Cardinality(E) = 1 /\ Cardinality(active[p]) = 0
    BY <2>1, <2>2, FS_EmptySet, FS_Singleton
  <2>4. QED
    BY <2>3
<1>3. QED
  BY <1>1, <1>2

\* A process is in one election or one term, and a task starts only while the
\* process of its term has the lock, although the answer that allows it is up
\* to Latency ticks old (tryBecomeScheduler, runAsScheduler, isLeader and
\* resignAsScheduler).
THEOREM TasksUnderLock ==
  ASSUME Leader!LeaderAssumption
  PROVE  Leader!Spec => TasksStartUnderLock
<1>1. LeaderInv /\ [Leader!Next]_(Leader!vars) =>
        [\A p \in Hosts, n \in Terms, t \in PeriodicTasks :
           (chain[p][n][t] # "running" /\ chain'[p][n][t] = "running") => leaderLock = p]_(Leader!vars)
  BY LeaderInductive DEF StartsUnderLock
<1>2. QED
  BY <1>1, LeaderInit, LeaderInductive, LeaderIsOneTerm, PTL
  DEF Leader!Spec, TasksStartUnderLock, Leader!TasksStartUnderLock

-----------------------------------------------------------------------------
(* One key of the shared cache.                                            *)

\* The lock is free, or has one token.
LockIsOne == lock = {} \/ \E c \in Calls : lock = {c}

\* A call is given the lock before it loads and gives it up at its end; who
\* loads without it has waited until its deadline.
LoadsUnderLock ==
  \A c \in Calls :
    /\ owns[c] => pc[c] \in {"load", "write", "release"}
    /\ pc[c] \in {"load", "write"} => owns[c] \/ late[c]

\* A call has no answer before it ends.
AnswersAtTheEnd ==
  \A c \in Calls : pc[c] \notin {"release", "end"} => answer[c] = "none"

\* No lock has expired under a call, and nobody has waited for too long.
Undisturbed == expired = {} /\ \A c \in Calls : ~late[c]

\* What was loaded and what was in the cache was in the source before, and a value that is about
\* to be written is as new as what has been in the cache.
NewestWrites ==
  /\ newest <= source
  /\ \A c \in Calls : value[c] <= source
  /\ Undisturbed => \A c \in Calls : pc[c] = "write" => newest <= value[c]

CacheInv ==
  /\ CacheIsSound
  /\ LockIsOne
  /\ LoadsUnderLock
  /\ AnswersAtTheEnd
  /\ NewestWrites

-----------------------------------------------------------------------------
\* Every step keeps the types of the source, the copy and the calls.
LEMMA TypesStep ==
  ASSUME TypeOK, LockIsOne, [Next]_vars
  PROVE  TypeOK' /\ LockIsOne'
<1> USE DEF TypeOK, callVars, ghostVars
<1>a. source \in Nat /\ copy \in Nat /\ newest \in Nat
  BY ConstantsAssumption
<1>1. ASSUME LockIsOne' PROVE lock' \subseteq Calls /\ Cardinality(lock') <= 1
  <2>1. CASE lock' = {}
    BY <2>1, FS_EmptySet
  <2>2. CASE lock' # {}
    <3>1. PICK c \in Calls : lock' = {c}
      BY <1>1, <2>2 DEF LockIsOne
    <3>2. Cardinality(lock') = 1
      BY <3>1, FS_Singleton
    <3>3. QED
      BY <3>1, <3>2
  <2>3. QED
    BY <2>1, <2>2
<1>2. ASSUME NEW c \in Calls, Read(c) \/ Poll(c) \/ WaitOver(c) \/ Deadline(c)
      PROVE  TypeOK' /\ LockIsOne'
  BY <1>2 DEF Read, Poll, WaitOver, Deadline, Answer, Goto, LockIsOne
<1>3. ASSUME NEW c \in Calls, TryLock(c) PROVE TypeOK' /\ LockIsOne'
  <2>1. LockIsOne'
    BY <1>3 DEF TryLock, LockIsOne
  <2>2. QED
    BY <1>1, <1>3, <2>1 DEF TryLock, Answer, Goto
<1>4. ASSUME NEW c \in Calls, Load(c) PROVE TypeOK' /\ LockIsOne'
  BY <1>a, <1>4 DEF Load, Instead, Answer, Goto, LockIsOne
<1>5. ASSUME NEW c \in Calls, Write(c) PROVE TypeOK' /\ LockIsOne'
  <2>1. copy' \in 0 .. MaxVersion /\ newest' \in 0 .. MaxVersion
    BY <1>5 DEF Write
  <2>2. fresh' \in BOOLEAN
    BY <1>5 DEF Write
  <2>3. QED
    BY <1>5, <2>1, <2>2 DEF Write, Instead, Answer, Goto, LockIsOne
<1>6. ASSUME NEW c \in Calls, Release(c) PROVE TypeOK' /\ LockIsOne'
  <2>1. LockIsOne'
    BY <1>6 DEF Release, WithoutLockOf, LockIsOne
  <2>2. QED
    BY <1>1, <1>6, <2>1 DEF Release, Goto
<1>7. ASSUME NEW c \in Calls, Unavailable(c) PROVE TypeOK' /\ LockIsOne'
  <2>1. LockIsOne'
    BY <1>7 DEF Unavailable, LockIsOne
  <2>2. QED
    BY <1>1, <1>7, <2>1 DEF Unavailable, Answer, Goto
<1>8. CASE Change \/ Age \/ Forget
  <2>1. source' \in 1 .. MaxVersion
    BY <1>8, ConstantsAssumption DEF Change, Age, Forget
  <2>2. copy' \in 0 .. MaxVersion
    BY <1>8, ConstantsAssumption DEF Change, Age, Forget
  <2>3. fresh' \in BOOLEAN
    BY <1>8 DEF Change, Age, Forget
  <2>4. QED
    BY <1>8, <2>1, <2>2, <2>3 DEF Change, Age, Forget, LockIsOne
<1>9. CASE LockExpires
  <2>1. LockIsOne'
    BY <1>9 DEF LockExpires, LockIsOne
  <2>2. QED
    BY <1>1, <1>9, <2>1 DEF LockExpires
<1>10. CASE UNCHANGED vars
  BY <1>10 DEF vars, LockIsOne
<1>11. QED
  BY <1>2, <1>3, <1>4, <1>5, <1>6, <1>7, <1>8, <1>9, <1>10 DEF Next, Step

\* A call loads under the lock or after its deadline, and answers at its end.
LEMMA CallsStep ==
  ASSUME TypeOK, LoadsUnderLock, AnswersAtTheEnd, [Next]_vars
  PROVE  LoadsUnderLock' /\ AnswersAtTheEnd'
<1> USE DEF TypeOK, LoadsUnderLock, AnswersAtTheEnd, Answer, Goto, callVars, ghostVars
<1>1. ASSUME NEW c \in Calls, Step(c) PROVE LoadsUnderLock' /\ AnswersAtTheEnd'
  <2>1. CASE Read(c) \/ Poll(c) \/ WaitOver(c)
    BY <2>1 DEF Read, Poll, WaitOver
  <2>2. CASE TryLock(c)
    BY <2>2 DEF TryLock
  <2>3. CASE Load(c)
    BY <2>3 DEF Load, Instead
  <2>4. CASE Write(c)
    BY <2>4 DEF Write, Instead
  <2>5. CASE Release(c)
    BY <2>5 DEF Release
  <2>6. QED
    BY <1>1, <2>1, <2>2, <2>3, <2>4, <2>5 DEF Step
<1>2. ASSUME NEW c \in Calls, Deadline(c) \/ Unavailable(c)
      PROVE  LoadsUnderLock' /\ AnswersAtTheEnd'
  BY <1>2 DEF Deadline, Unavailable
<1>3. CASE Change \/ Age \/ Forget \/ LockExpires \/ UNCHANGED vars
  BY <1>3 DEF Change, Age, Forget, LockExpires, vars
<1>4. QED
  BY <1>1, <1>2, <1>3 DEF Next

\* A call that was given the lock has it until it gives it up or it expires.
LEMMA LockStep ==
  ASSUME TypeOK, LoadsUnderLock, UnexpiredLockHeld, [Next]_vars
  PROVE  UnexpiredLockHeld'
<1> USE DEF TypeOK, UnexpiredLockHeld, Goto, callVars, ghostVars
<1>1. ASSUME NEW c \in Calls, TryLock(c) PROVE UnexpiredLockHeld'
  BY <1>1 DEF TryLock, Answer
<1>2. ASSUME NEW c \in Calls, Release(c) PROVE UnexpiredLockHeld'
  BY <1>2 DEF Release, WithoutLockOf
<1>3. ASSUME NEW c \in Calls, Unavailable(c) PROVE UnexpiredLockHeld'
  BY <1>3 DEF Unavailable, Answer, LoadsUnderLock
<1>4. CASE LockExpires
  BY <1>4 DEF LockExpires, LoadsUnderLock
<1>5. ASSUME NEW c \in Calls,
             Read(c) \/ Poll(c) \/ WaitOver(c) \/ Load(c) \/ Write(c) \/ Deadline(c)
      PROVE  UnexpiredLockHeld'
  BY <1>5 DEF Read, Poll, WaitOver, Load, Write, Deadline
<1>6. CASE Change \/ Age \/ Forget \/ UNCHANGED vars
  BY <1>6 DEF Change, Age, Forget, vars
<1>7. QED
  BY <1>1, <1>2, <1>3, <1>4, <1>5, <1>6 DEF Next, Step

\* A call that throws has found no copy.
LEMMA ThrownStep ==
  ASSUME TypeOK, AnswersAtTheEnd, [Next]_vars,
         \A c \in Calls : answer[c] = "thrown" => cached[c] = 0
  PROVE  \A c \in Calls : answer'[c] = "thrown" => cached'[c] = 0
<1> USE DEF TypeOK, Answer, Goto, callVars, ghostVars
<1>1. ASSUME NEW c \in Calls, Read(c)
      PROVE  \A d \in Calls : answer'[d] = "thrown" => cached'[d] = 0
  BY <1>1 DEF Read, AnswersAtTheEnd
<1>2. ASSUME NEW c \in Calls,
             TryLock(c) \/ Poll(c) \/ WaitOver(c) \/ Release(c) \/ Deadline(c) \/ Unavailable(c)
      PROVE  \A d \in Calls : answer'[d] = "thrown" => cached'[d] = 0
  BY <1>2 DEF TryLock, Poll, WaitOver, Release, Deadline, Unavailable
<1>3. ASSUME NEW c \in Calls, Load(c) \/ Write(c)
      PROVE  \A d \in Calls : answer'[d] = "thrown" => cached'[d] = 0
  BY <1>3 DEF Load, Write, Instead
<1>4. CASE Change \/ Age \/ Forget \/ LockExpires \/ UNCHANGED vars
  BY <1>4 DEF Change, Age, Forget, LockExpires, vars
<1>5. QED
  BY <1>1, <1>2, <1>3, <1>4 DEF Next, Step

\* What disturbs the cache once disturbs it for ever.
LEMMA DisturbedStays == ASSUME TypeOK, [Next]_vars, Undisturbed' PROVE Undisturbed
<1> USE DEF TypeOK, Undisturbed, callVars, ghostVars
<1>1. ASSUME NEW c \in Calls, Deadline(c) PROVE FALSE
  BY <1>1 DEF Deadline
<1>2. CASE LockExpires
  BY <1>2 DEF LockExpires
<1>3. ASSUME NEW c \in Calls, Step(c) \/ Unavailable(c) PROVE UNCHANGED <<expired, late>>
  BY <1>3 DEF Step, Read, TryLock, Poll, WaitOver, Load, Write, Release, Unavailable
<1>4. CASE Change \/ Age \/ Forget \/ UNCHANGED vars
  BY <1>4 DEF Change, Age, Forget, vars
<1>5. QED
  BY <1>1, <1>2, <1>3, <1>4 DEF Next

\* Who writes, undisturbed, has the lock, and nobody else writes.
LEMMA OneWriter ==
  ASSUME CacheInv, Undisturbed, NEW c \in Calls, NEW d \in Calls, pc[c] = "write", pc[d] = "write"
  PROVE  c = d
<1>1. owns[c] /\ owns[d]
  BY DEF CacheInv, LoadsUnderLock, Undisturbed
<1>2. lock = {c} /\ lock = {d}
  BY <1>1 DEF CacheInv, CacheIsSound, UnexpiredLockHeld, Undisturbed
<1>3. QED
  BY <1>2

\* Undisturbed, a copy is the newest that there has been.
LEMMA CopyStep ==
  ASSUME CacheInv, [Next]_vars
  PROVE  NewestWrites' /\ (Undisturbed' => copy' \in {0, newest'})
<1> DEFINE Goal == NewestWrites' /\ (Undisturbed' => copy' \in {0, newest'})
<1>a. TypeOK /\ NewestWrites /\ (Undisturbed => copy \in {0, newest})
  BY DEF CacheInv, CacheIsSound, CopiesServeAndStay, Undisturbed
<1>b. source \in Nat /\ newest \in Nat /\ \A c \in Calls : value[c] \in Nat
  BY <1>a, ConstantsAssumption DEF TypeOK
<1>c. Undisturbed' => Undisturbed
  BY <1>a, DisturbedStays
<1>1. ASSUME NEW c \in Calls, Load(c) PROVE Goal
  <2>1. UNCHANGED <<source, copy, newest>>
    BY <1>1 DEF Load, ghostVars
  <2>2. CASE value' = [value EXCEPT ![c] = source] /\ pc' = [pc EXCEPT ![c] = "write"]
    BY <1>a, <1>b, <1>c, <2>1, <2>2 DEF NewestWrites, TypeOK
  <2>3. CASE value' = value /\ \E l \in {"release", "end"} : pc' = [pc EXCEPT ![c] = l]
    BY <1>a, <1>b, <1>c, <2>1, <2>3 DEF NewestWrites, TypeOK
  <2>4. QED
    BY <1>1, <2>2, <2>3 DEF Load, Instead, Answer, Goto
<1>2. ASSUME NEW c \in Calls, Write(c) PROVE Goal
  <2>1. /\ UNCHANGED <<source, value>> /\ pc[c] = "write"
        /\ \E l \in {"release", "end"} : pc' = [pc EXCEPT ![c] = l]
    BY <1>2 DEF Write, Instead, Answer, Goto
  <2>2. CASE copy' = value[c] /\ newest' = (IF value[c] > newest THEN value[c] ELSE newest)
    <3>1. newest' <= source' /\ \A d \in Calls : value'[d] <= source'
      BY <1>a, <1>b, <2>1, <2>2 DEF NewestWrites
    <3>2. ASSUME Undisturbed' PROVE \A d \in Calls : pc'[d] # "write"
      <4>1. \A d \in Calls : pc[d] = "write" => d = c
        BY <1>c, <2>1, <3>2, OneWriter
      <4>2. QED
        BY <1>a, <2>1, <4>1 DEF TypeOK
    <3>3. ASSUME Undisturbed' PROVE copy' = newest'
      <4>1. newest <= value[c]
        BY <1>a, <1>c, <2>1, <3>3 DEF NewestWrites
      <4>2. QED
        BY <1>b, <2>2, <4>1
    <3>4. QED
      BY <3>1, <3>2, <3>3 DEF NewestWrites
  <2>3. CASE UNCHANGED <<copy, newest>>
    BY <1>a, <1>b, <1>c, <2>1, <2>3 DEF NewestWrites, TypeOK
  <2>4. QED
    BY <1>2, <2>2, <2>3 DEF Write
<1>3. ASSUME NEW c \in Calls,
             Read(c) \/ TryLock(c) \/ Poll(c) \/ WaitOver(c) \/ Release(c) \/ Deadline(c) \/ Unavailable(c)
      PROVE  Goal
  <2>1. UNCHANGED <<source, copy, newest, value>>
    BY <1>3 DEF Read, TryLock, Poll, WaitOver, Release, Deadline, Unavailable, ghostVars
  <2>2. \A d \in Calls : pc'[d] = "write" => pc[d] = "write"
    BY <1>a, <1>3 DEF Read, TryLock, Poll, WaitOver, Release, Deadline, Unavailable, Answer, Goto, TypeOK
  <2>3. QED
    BY <1>a, <1>c, <2>1, <2>2 DEF NewestWrites
<1>4. CASE Change
  <2>1. source' = source + 1 /\ UNCHANGED <<copy, newest, value, pc>>
    BY <1>4 DEF Change, callVars, ghostVars
  <2>2. newest' <= source' /\ \A d \in Calls : value'[d] <= source'
    BY <1>a, <1>b, <2>1 DEF NewestWrites
  <2>3. QED
    BY <1>a, <1>c, <2>1, <2>2 DEF NewestWrites
<1>5. CASE Age \/ Forget \/ LockExpires \/ UNCHANGED vars
  <2>1. UNCHANGED <<source, newest, value, pc>> /\ copy' \in {copy, 0}
    BY <1>5 DEF Age, Forget, LockExpires, vars, callVars, ghostVars
  <2>2. QED
    BY <1>a, <1>c, <2>1 DEF NewestWrites
<1>6. QED
  BY <1>1, <1>2, <1>3, <1>4, <1>5 DEF Next, Step

-----------------------------------------------------------------------------
\* At first nobody has called.
LEMMA InvInit == Init => CacheInv
<1> SUFFICES ASSUME Init PROVE CacheInv
  OBVIOUS
<1>1. TypeOK
  <2>1. Cardinality(lock) <= 1
    BY FS_EmptySet DEF Init
  <2>2. 1 \in 1 .. MaxVersion /\ 0 \in 0 .. MaxVersion
    BY ConstantsAssumption
  <2>3. QED
    BY <2>1, <2>2 DEF Init, TypeOK
<1>2. UnexpiredLockHeld /\ CopiesServeAndStay
  BY DEF Init, UnexpiredLockHeld, CopiesServeAndStay
<1>3. LockIsOne /\ LoadsUnderLock /\ AnswersAtTheEnd /\ NewestWrites
  BY DEF Init, LockIsOne, LoadsUnderLock, AnswersAtTheEnd, NewestWrites
<1>4. QED
  BY <1>1, <1>2, <1>3 DEF CacheInv, CacheIsSound

\* Every step of a call and of the world around it keeps the invariant.
LEMMA InvInductive == CacheInv /\ [Next]_vars => CacheInv'
<1> SUFFICES ASSUME CacheInv, [Next]_vars PROVE CacheInv'
  OBVIOUS
<1>1. /\ TypeOK /\ LockIsOne /\ UnexpiredLockHeld /\ LoadsUnderLock /\ AnswersAtTheEnd
      /\ \A c \in Calls : answer[c] = "thrown" => cached[c] = 0
  BY DEF CacheInv, CacheIsSound, CopiesServeAndStay
<1>2. TypeOK' /\ LockIsOne'
  BY <1>1, TypesStep
<1>3. LoadsUnderLock' /\ AnswersAtTheEnd'
  BY <1>1, CallsStep
<1>4. UnexpiredLockHeld'
  BY <1>1, LockStep
<1>5. \A c \in Calls : answer'[c] = "thrown" => cached'[c] = 0
  BY <1>1, ThrownStep
<1>6. NewestWrites' /\ (Undisturbed' => copy' \in {0, newest'})
  BY CopyStep
<1>7. CopiesServeAndStay'
  BY <1>5, <1>6 DEF CopiesServeAndStay, Undisturbed
<1>8. QED
  BY <1>2, <1>3, <1>4, <1>6, <1>7 DEF CacheInv, CacheIsSound

\* Loads run under a lock that is theirs until it expires, a late release does
\* not end another's lock, a copy stands in for a failed load, and the cache
\* does not go back to an older version (staleCache's lock, release and
\* fallbacks).
THEOREM CacheSound == Spec => []CacheIsSound
<1>1. CacheInv => CacheIsSound
  BY DEF CacheInv
<1>2. QED
  BY <1>1, InvInit, InvInductive, PTL DEF Spec

-----------------------------------------------------------------------------
(* The notifications of watchers.                                          *)

\* A notification is made by the call of the event that names it, as the last
\* thing it does.
OwnNotice == \A e \in Events : call[e] # "done" => row[e].state = "none"

\* A call has read a notification of its own user.
SeenIsOwn == \A e \in Events : \A r \in seen[e].row : UserOf[r] = UserOf[e]

\* Every retry that is gone, and every notification that a call expects and
\* does not find, is one that the user has closed since the call began.
ClosesPayForRetries ==
  \A e \in Events :
    /\ call[e] \in {"start", "select", "update"} => closes[e] + retries[e] >= 1
    /\ call[e] \in {"select", "update"} => now[e] > 0
    /\ call[e] = "select" =>
         \/ \E r \in Events : UserOf[r] = UserOf[e] /\ row[r].state = "unread"
         \/ closes[e] + retries[e] >= 2
    /\ call[e] = "update" =>
         \A r \in seen[e].row : row[r].state = "unread" \/ closes[e] + retries[e] >= 2
    /\ call[e] = "failed" => closes[e] >= 2

\* The metadata of a notification count the events merged into it, and so do those
\* that a call has read and not yet written: the events excepted that were merged
\* while another call had read them.
CountedAll == \A r \in Events : row[r].merged \ raced \subseteq row[r].counted
WritersKnow ==
  \A e \in Events : \A r \in seen[e].row :
    row[r].state # "none" /\ row[r].merged \ raced \subseteq seen[e].counted

\* A delivery has every event of a notification that it has in hand, these
\* excepted and those that were merged into it since.
HandKnowsEvents ==
  \A d \in Pushers : \A b \in batch[d] :
    row[b.row].state # "none" /\ row[b.row].merged \ (lateEvents \union raced) \subseteq b.counted

\* What is marked next has been told, and what is marked was.
PushedIsTold ==
  \A d \in Pushers : \A r \in ok[d] : \E b \in batch[d] : b.row = r /\ b.counted \subseteq told
SentIsTold == \A r \in Events : row[r].sent => row[r].merged \ (lateEvents \union raced) \subseteq told

WatchInv ==
  /\ Watches!TypeOK
  /\ OwnNotice
  /\ SeenIsOwn
  /\ ClosesPayForRetries
  /\ CountedAll
  /\ WritersKnow
  /\ HandKnowsEvents
  /\ PushedIsTold
  /\ SentIsTold

\* What is in the row of a notification.
NoticeRecords ==
  [state : {"none", "unread", "read", "deleted"}, counted : SUBSET Events, merged : SUBSET Events,
   queuedAt : Nat, sent : BOOLEAN]

\* A row that is marked as sent.
LEMMA MarkedRow ==
  ASSUME NEW x \in NoticeRecords, NEW y, y = [x EXCEPT !.sent = TRUE]
  PROVE  y \in NoticeRecords /\ y.state = x.state /\ y.merged = x.merged /\ y.counted = x.counted
  <1>1. y \in NoticeRecords
    BY DEF NoticeRecords
  <1>2. y.state = x.state /\ y.merged = x.merged /\ y.counted = x.counted
    BY DEF NoticeRecords
  <1>3. QED
    BY <1>1, <1>2

\* The notifications of a user that are unread.
LEMMA UnreadOf ==
  \A u : Watches!Unread(u) = {} <=> ~ \E r \in Events : UserOf[r] = u /\ row[r].state = "unread"
  BY DEF Watches!Unread

\* At first there are no notifications.
LEMMA WatchInit == Watches!NotificationsAssumption /\ Watches!Init => WatchInv
<1> SUFFICES ASSUME Watches!NotificationsAssumption, Watches!Init PROVE WatchInv
  OBVIOUS
<1>1. Watches!TypeOK
  BY DEF Watches!Init, Watches!TypeOK, Watches!NoRow, Watches!NothingSeen, Watches!COALESCE_RETRIES
<1>2. OwnNotice /\ SeenIsOwn /\ CountedAll /\ WritersKnow /\ HandKnowsEvents /\ PushedIsTold /\ SentIsTold
  BY DEF Watches!Init, OwnNotice, SeenIsOwn, CountedAll, WritersKnow, HandKnowsEvents, PushedIsTold,
         SentIsTold, Watches!NoRow, Watches!NothingSeen
<1>3. ClosesPayForRetries
  BY DEF Watches!Init, ClosesPayForRetries, Watches!COALESCE_RETRIES
<1>4. QED
  BY <1>1, <1>2, <1>3 DEF WatchInv

\* The call of an event tries to insert its notification.
LEMMA InsertStep ==
  ASSUME WatchInv, NEW e \in Events, Watches!Insert(e)
  PROVE  WatchInv'
<1>0. /\ row \in [Events -> NoticeRecords] /\ clock \in Nat /\ now \in [Events -> Nat]
      /\ call \in [Events -> {"start", "select", "update", "done", "failed"}]
  BY DEF WatchInv, Watches!TypeOK, NoticeRecords
<1>1. /\ call[e] = "start" /\ clock' = clock + 1 /\ now' = [now EXCEPT ![e] = clock + 1]
      /\ UNCHANGED <<retries, seen, batch, ok, told, lateEvents, raced, closes>>
  BY DEF Watches!Insert, Watches!deliveryVars, Watches!ghosts
<1>2. CASE /\ call' = [call EXCEPT ![e] = "done"]
           /\ row' = [row EXCEPT ![e] = [state |-> "unread", counted |-> {e}, merged |-> {e},
                                               queuedAt |-> clock + 1, sent |-> FALSE]]
  <2>1. /\ row' \in [Events -> NoticeRecords] /\ row'[e].state = "unread" /\ ~row'[e].sent
        /\ row'[e].merged = {e} /\ row'[e].counted = {e}
        /\ \A r \in Events : r # e => row'[r] = row[r]
    BY <1>0, <1>2 DEF NoticeRecords
  <2>2. Watches!TypeOK'
    BY <1>0, <1>1, <1>2, <2>1 DEF WatchInv, Watches!TypeOK, NoticeRecords
  <2>3. OwnNotice' /\ SeenIsOwn' /\ CountedAll' /\ PushedIsTold' /\ SentIsTold'
    BY <1>0, <1>1, <1>2, <2>1 DEF WatchInv, OwnNotice, SeenIsOwn, CountedAll, PushedIsTold, SentIsTold
  <2>4. HandKnowsEvents' /\ WritersKnow'
    <3>1. row[e].state = "none"
      BY <1>1 DEF WatchInv, OwnNotice
    <3>2. \A d \in Pushers : \A b \in batch[d] : b.row \in Events /\ b.row # e
      BY <3>1 DEF WatchInv, HandKnowsEvents, Watches!TypeOK
    <3>3. \A f \in Events : \A r \in seen[f].row : r \in Events /\ r # e
      BY <3>1 DEF WatchInv, WritersKnow, Watches!TypeOK
    <3>4. QED
      BY <1>1, <2>1, <3>2, <3>3 DEF WatchInv, HandKnowsEvents, WritersKnow
  <2>5. ClosesPayForRetries'
    <3>1. \A r \in Events : row[r].state = "unread" => row'[r].state = "unread"
      BY <2>1
    <3>2. \A f \in Events : f # e => call'[f] = call[f] /\ now'[f] = now[f]
      BY <1>0, <1>1, <1>2
    <3>3. call'[e] = "done"
      BY <1>0, <1>2
    <3>4. \A f \in Events : seen[f].row \subseteq Events
      BY DEF WatchInv, Watches!TypeOK
    <3>5. QED
      BY <1>1, <3>1, <3>2, <3>3, <3>4 DEF WatchInv, ClosesPayForRetries
  <2>6. QED
    BY <2>2, <2>3, <2>4, <2>5 DEF WatchInv
<1>3. CASE call' = [call EXCEPT ![e] = "select"] /\ row' = row /\ Watches!Unread(UserOf[e]) # {}
  <2>1. Watches!TypeOK'
    BY <1>0, <1>1, <1>3 DEF WatchInv, Watches!TypeOK
  <2>2. /\ OwnNotice' /\ SeenIsOwn' /\ CountedAll' /\ WritersKnow'
        /\ HandKnowsEvents' /\ PushedIsTold' /\ SentIsTold'
    BY <1>0, <1>1, <1>3 DEF WatchInv, OwnNotice, SeenIsOwn, CountedAll, WritersKnow, HandKnowsEvents,
                            PushedIsTold, SentIsTold
  <2>3. ClosesPayForRetries'
    <3>1. \A f \in Events : f # e => call'[f] = call[f] /\ now'[f] = now[f]
      BY <1>0, <1>1, <1>3
    <3>2. call'[e] = "select" /\ now'[e] > 0
      BY <1>0, <1>1, <1>3
    <3>3. \E r \in Events : UserOf[r] = UserOf[e] /\ row[r].state = "unread"
      BY <1>3, UnreadOf
    <3>4. closes[e] + retries[e] >= 1
      BY <1>1 DEF WatchInv, ClosesPayForRetries
    <3>5. QED
      BY <1>1, <1>3, <3>1, <3>2, <3>3, <3>4 DEF WatchInv, ClosesPayForRetries
  <2>4. QED
    BY <2>1, <2>2, <2>3 DEF WatchInv
<1>4. QED
  BY <1>1, <1>2, <1>3 DEF Watches!Insert

\* A call that finds its notification gone tries again, or gives up.
LEMMA AgainStep ==
  ASSUME WatchInv, NEW e \in Events, call[e] \in {"select", "update"},
         Watches!Again(e), closes[e] + retries[e] >= 2,
         seen' = seen \/ seen' = [seen EXCEPT ![e] = Watches!NothingSeen],
         UNCHANGED <<row, now, clock, batch, ok, told, lateEvents, raced, closes>>
  PROVE  WatchInv'
<1>0. /\ call \in [Events -> {"start", "select", "update", "done", "failed"}]
      /\ retries \in [Events -> 0 .. 1] /\ closes \in [Events -> Nat]
      /\ seen \in [Events -> [row : SUBSET Events, counted : SUBSET Events]]
  BY DEF WatchInv, Watches!TypeOK, Watches!COALESCE_RETRIES
<1>1. PICK a \in {"start", "failed"} :
        /\ call' = [call EXCEPT ![e] = a] /\ retries' \in [Events -> 0 .. 1]
        /\ \A f \in Events : f # e => retries'[f] = retries[f]
        /\ a = "start" => closes[e] + retries'[e] >= 1
        /\ a = "failed" => closes[e] >= 2
  <2>1. CASE retries[e] > 0
    BY <1>0, <2>1 DEF Watches!Again
  <2>2. CASE ~(retries[e] > 0)
    BY <1>0, <2>2 DEF Watches!Again
  <2>3. QED
    BY <2>1, <2>2
<1>2. /\ seen' \in [Events -> [row : SUBSET Events, counted : SUBSET Events]]
      /\ \A f \in Events : seen'[f].row \subseteq seen[f].row
      /\ \A f \in Events : seen'[f] = seen[f] \/ seen'[f].row = {}
  <2>1. CASE seen' = seen
    BY <1>0, <2>1
  <2>2. CASE seen' = [seen EXCEPT ![e] = Watches!NothingSeen]
    <3>1. /\ Watches!NothingSeen \in [row : SUBSET Events, counted : SUBSET Events]
          /\ Watches!NothingSeen.row = {}
      BY DEF Watches!NothingSeen
    <3>2. /\ seen'[e] = Watches!NothingSeen
          /\ \A f \in Events : f # e => seen'[f] = seen[f]
      BY <1>0, <2>2
    <3>3. seen' \in [Events -> [row : SUBSET Events, counted : SUBSET Events]]
      BY <1>0, <2>2, <3>1
    <3>4. QED
      BY <3>1, <3>2, <3>3
  <2>3. QED
    BY <2>1, <2>2
<1>3. Watches!TypeOK'
  BY <1>0, <1>1, <1>2 DEF WatchInv, Watches!TypeOK, Watches!COALESCE_RETRIES
<1>4. OwnNotice' /\ SeenIsOwn'
  BY <1>0, <1>1, <1>2 DEF WatchInv, OwnNotice, SeenIsOwn
<1>5. CountedAll' /\ WritersKnow' /\ HandKnowsEvents' /\ PushedIsTold' /\ SentIsTold'
  BY <1>2 DEF WatchInv, CountedAll, WritersKnow, HandKnowsEvents, PushedIsTold, SentIsTold
<1>6. ClosesPayForRetries'
  <2>1. \A f \in Events : f # e => call'[f] = call[f]
    BY <1>0, <1>1
  <2>2. call'[e] = a
    BY <1>0, <1>1
  <2>3. QED
    BY <1>1, <1>2, <2>1, <2>2 DEF WatchInv, ClosesPayForRetries
<1>7. QED
  BY <1>3, <1>4, <1>5, <1>6 DEF WatchInv

\* A call reads the unread notification of its user.
LEMMA SelectStep ==
  ASSUME WatchInv, NEW e \in Events, Watches!Select(e)
  PROVE  WatchInv'
<1>0. /\ call \in [Events -> {"start", "select", "update", "done", "failed"}]
      /\ seen \in [Events -> [row : SUBSET Events, counted : SUBSET Events]]
      /\ row \in [Events -> NoticeRecords]
  BY DEF WatchInv, Watches!TypeOK, NoticeRecords
<1>1. call[e] = "select" /\ UNCHANGED <<row, now, clock, batch, ok, told, lateEvents, raced, closes>>
  BY DEF Watches!Select, Watches!deliveryVars, Watches!ghosts
<1>2. ASSUME NEW r \in Watches!Unread(UserOf[e]),
             seen' = [seen EXCEPT ![e] = [row |-> {r}, counted |-> row[r].counted]],
             call' = [call EXCEPT ![e] = "update"], retries' = retries
      PROVE  WatchInv'
  <2>1. r \in Events /\ UserOf[r] = UserOf[e] /\ row[r].state = "unread"
    BY <1>2 DEF Watches!Unread
  <2>2. /\ seen' \in [Events -> [row : SUBSET Events, counted : SUBSET Events]]
        /\ seen'[e].row = {r} /\ seen'[e].counted = row[r].counted
        /\ \A f \in Events : f # e => seen'[f] = seen[f]
    BY <1>0, <1>2, <2>1 DEF NoticeRecords
  <2>3. Watches!TypeOK'
    BY <1>0, <1>1, <1>2, <2>2 DEF WatchInv, Watches!TypeOK
  <2>4. OwnNotice' /\ SeenIsOwn'
    BY <1>0, <1>1, <1>2, <2>1, <2>2 DEF WatchInv, OwnNotice, SeenIsOwn
  <2>5. CountedAll' /\ WritersKnow' /\ HandKnowsEvents' /\ PushedIsTold' /\ SentIsTold'
    BY <1>1, <2>1, <2>2 DEF WatchInv, CountedAll, WritersKnow, HandKnowsEvents, PushedIsTold, SentIsTold
  <2>6. ClosesPayForRetries'
    <3>1. call'[e] = "update" /\ \A f \in Events : f # e => call'[f] = call[f]
      BY <1>0, <1>2
    <3>2. closes[e] + retries[e] >= 1 /\ now[e] > 0
      BY <1>1 DEF WatchInv, ClosesPayForRetries
    <3>3. QED
      BY <1>1, <1>2, <2>1, <2>2, <3>1, <3>2 DEF WatchInv, ClosesPayForRetries
  <2>7. QED
    BY <2>3, <2>4, <2>5, <2>6 DEF WatchInv
<1>3. CASE Watches!Unread(UserOf[e]) = {} /\ Watches!Again(e) /\ seen' = seen
  <2>1. closes[e] + retries[e] >= 2
    BY <1>1, <1>3, UnreadOf DEF WatchInv, ClosesPayForRetries
  <2>2. QED
    BY <1>1, <1>3, <2>1, AgainStep
<1>4. QED
  BY <1>2, <1>3 DEF Watches!Select

\* A call writes into the notification that it has read, if it is unread.
LEMMA UpdateStep ==
  ASSUME WatchInv, NEW e \in Events, Watches!Update(e)
  PROVE  WatchInv'
<1>0. /\ call \in [Events -> {"start", "select", "update", "done", "failed"}]
      /\ seen \in [Events -> [row : SUBSET Events, counted : SUBSET Events]]
      /\ row \in [Events -> NoticeRecords] /\ now \in [Events -> Nat]
  BY DEF WatchInv, Watches!TypeOK, NoticeRecords
<1>1. /\ call[e] = "update" /\ seen' = [seen EXCEPT ![e] = Watches!NothingSeen]
      /\ UNCHANGED <<now, clock, batch, ok, told, closes>>
  BY DEF Watches!Update, Watches!deliveryVars
<1>2. PICK r \in seen[e].row :
        \/ /\ row[r].state = "unread"
           /\ row' = [row EXCEPT ![r] = Watches!Merged(e, r)]
           /\ call' = [call EXCEPT ![e] = "done"]
           /\ lateEvents' = (IF Watches!InHand(r) THEN lateEvents \union {e} ELSE lateEvents)
           /\ raced' = (IF Watches!Writers(r) \ {e} # {} THEN raced \union {e} ELSE raced)
           /\ UNCHANGED retries
        \/ /\ row[r].state # "unread"
           /\ Watches!Again(e)
           /\ UNCHANGED <<row, lateEvents, raced>>
  BY DEF Watches!Update
<1>3. r \in Events
  BY <1>0
<1>4. CASE /\ row[r].state = "unread"
           /\ row' = [row EXCEPT ![r] = Watches!Merged(e, r)]
           /\ call' = [call EXCEPT ![e] = "done"]
           /\ lateEvents' = (IF Watches!InHand(r) THEN lateEvents \union {e} ELSE lateEvents)
           /\ raced' = (IF Watches!Writers(r) \ {e} # {} THEN raced \union {e} ELSE raced)
           /\ UNCHANGED retries
  <2>1. /\ row' \in [Events -> NoticeRecords]
        /\ row'[r].state = "unread" /\ ~row'[r].sent
        /\ row'[r].merged = row[r].merged \union {e}
        /\ row'[r].counted = seen[e].counted \union {e}
        /\ \A q \in Events : q # r => row'[q] = row[q]
    <3>1. /\ Watches!Merged(e, r) \in NoticeRecords
          /\ Watches!Merged(e, r).state = row[r].state /\ ~Watches!Merged(e, r).sent
          /\ Watches!Merged(e, r).merged = row[r].merged \union {e}
          /\ Watches!Merged(e, r).counted = seen[e].counted \union {e}
      <4>1. /\ row[r] \in NoticeRecords /\ now[e] \in Nat /\ seen[e].counted \in SUBSET Events
        BY <1>0, <1>3
      <4>2. seen[e].counted \union {e} \in SUBSET Events /\ row[r].merged \union {e} \in SUBSET Events
        BY <4>1 DEF NoticeRecords
      <4>3. Watches!Merged(e, r) =
              [row[r] EXCEPT !.counted = seen[e].counted \union {e},
                                !.merged = row[r].merged \union {e},
                                !.queuedAt = now[e], !.sent = FALSE]
        BY Zenon DEF Watches!Merged
      <4>4. QED
        <5>1. PICK x \in NoticeRecords, c \in SUBSET Events, m \in SUBSET Events, q \in Nat :
                x = row[r] /\ c = seen[e].counted \union {e} /\ m = row[r].merged \union {e} /\ q = now[e]
          BY <4>1, <4>2
        <5>2. PICK y : y = Watches!Merged(e, r)
          OBVIOUS
        <5>3. y = [x EXCEPT !.counted = c, !.merged = m, !.queuedAt = q, !.sent = FALSE]
          BY <4>3, <5>1, <5>2, Zenon
        <5>4. y \in NoticeRecords
          BY <5>3 DEF NoticeRecords
        <5>5. y.state = x.state /\ y.merged = m /\ y.counted = c /\ ~y.sent
          BY <5>3 DEF NoticeRecords
        <5>6. QED
          BY <5>1, <5>2, <5>4, <5>5, Zenon
    <3>2. QED
      BY <1>0, <1>3, <1>4, <3>1
  <2>2. /\ seen' \in [Events -> [row : SUBSET Events, counted : SUBSET Events]]
        /\ \A f \in Events : seen'[f].row \subseteq seen[f].row
        /\ seen'[e].row = {} /\ \A f \in Events : f # e => seen'[f] = seen[f]
        /\ call'[e] = "done" /\ \A f \in Events : f # e => call'[f] = call[f]
    BY <1>0, <1>1, <1>4 DEF Watches!NothingSeen
  <2>3. /\ lateEvents \subseteq lateEvents' /\ lateEvents' \subseteq Events /\ (Watches!InHand(r) => e \in lateEvents')
        /\ raced \subseteq raced' /\ raced' \subseteq Events /\ (Watches!Writers(r) \ {e} # {} => e \in raced')
    BY <1>4 DEF WatchInv, Watches!TypeOK
  <2>4. Watches!TypeOK'
    BY <1>0, <1>1, <1>4, <2>1, <2>2, <2>3 DEF WatchInv, Watches!TypeOK, NoticeRecords
  <2>5. OwnNotice' /\ SeenIsOwn'
    <3>1. \A f \in Events : call'[f] # "done" => f # r
      BY <1>4, <2>2 DEF WatchInv, OwnNotice
    <3>2. QED
      BY <2>1, <2>2, <3>1 DEF WatchInv, OwnNotice, SeenIsOwn
  <2>6. HandKnowsEvents'
    <3> SUFFICES ASSUME NEW d \in Pushers, NEW b \in batch[d]
                 PROVE  row'[b.row].state # "none" /\ row'[b.row].merged \ (lateEvents' \union raced') \subseteq b.counted
      BY <1>1 DEF HandKnowsEvents
    <3>1. b.row \in Events /\ row[b.row].state # "none" /\ row[b.row].merged \ (lateEvents \union raced) \subseteq b.counted
      BY DEF WatchInv, HandKnowsEvents, Watches!TypeOK
    <3>2. CASE b.row = r
      <4>1. e \in lateEvents'
        BY <2>3, <3>2 DEF Watches!InHand
      <4>2. QED
        BY <2>1, <2>3, <3>1, <3>2, <4>1
    <3>3. CASE b.row # r
      BY <2>1, <2>3, <3>1, <3>3
    <3>4. QED
      BY <3>2, <3>3
  <2>7. PushedIsTold' /\ SentIsTold'
    BY <1>1, <2>1, <2>3 DEF WatchInv, PushedIsTold, SentIsTold
  <2>8. ClosesPayForRetries'
    <3>1. \A q \in Events : row[q].state = "unread" => row'[q].state = "unread"
      BY <2>1
    <3>2. \A f \in Events : seen[f].row \subseteq Events
      BY <1>0
    <3>3. QED
      BY <1>1, <1>4, <2>2, <3>1, <3>2 DEF WatchInv, ClosesPayForRetries
  <2>9. CountedAll' /\ WritersKnow'
    <3>1. row[r].merged \ raced \subseteq seen[e].counted
      BY DEF WatchInv, WritersKnow
    <3>2. CountedAll'
      BY <1>3, <2>1, <2>3, <3>1 DEF WatchInv, CountedAll
    <3>3. ASSUME NEW f \in Events, NEW q \in seen'[f].row
          PROVE  row'[q].state # "none" /\ row'[q].merged \ raced' \subseteq seen'[f].counted
      <4>1. f # e /\ seen'[f] = seen[f] /\ q \in Events
        BY <1>0, <2>2, <3>3
      <4>2. row[q].state # "none" /\ row[q].merged \ raced \subseteq seen[f].counted
        BY <3>3, <4>1 DEF WatchInv, WritersKnow
      <4>3. CASE q # r
        BY <2>1, <2>3, <4>1, <4>2, <4>3
      <4>4. CASE q = r
        <5>1. f \in Watches!Writers(r) \ {e}
          BY <3>3, <4>1, <4>4 DEF Watches!Writers
        <5>2. e \in raced'
          BY <2>3, <5>1
        <5>3. QED
          BY <2>1, <2>3, <4>1, <4>2, <4>4, <5>2
      <4>5. QED
        BY <4>3, <4>4
    <3>4. QED
      BY <3>2, <3>3 DEF WritersKnow
  <2>10. QED
    BY <2>4, <2>5, <2>6, <2>7, <2>8, <2>9 DEF WatchInv
<1>5. CASE row[r].state # "unread" /\ Watches!Again(e) /\ UNCHANGED <<row, lateEvents, raced>>
  <2>1. closes[e] + retries[e] >= 2
    BY <1>1, <1>2, <1>5 DEF WatchInv, ClosesPayForRetries
  <2>2. QED
    BY <1>1, <1>5, <2>1, AgainStep
<1>6. QED
  BY <1>2, <1>4, <1>5

\* The user closes a notification: every call that expects it is paid for.
LEMMA CloseStep ==
  ASSUME WatchInv, NEW r \in Events, Watches!MarkRead(r) \/ Watches!Delete(r)
  PROVE  WatchInv'
<1>0. row \in [Events -> NoticeRecords] /\ closes \in [Events -> Nat] /\ retries \in [Events -> 0 .. 1]
  BY DEF WatchInv, Watches!TypeOK, NoticeRecords, Watches!COALESCE_RETRIES
<1>1. PICK state \in {"read", "deleted"} :
        /\ row[r].state \in {"unread", "read"}
        /\ row' = [row EXCEPT ![r].state = state]
        /\ closes' = [e \in Events |->
                       IF row[r].state = "unread" /\ UserOf[e] = UserOf[r] /\ now[e] > 0
                       THEN closes[e] + 1 ELSE closes[e]]
        /\ UNCHANGED <<Watches!callVars, Watches!deliveryVars, told, lateEvents, raced>>
  BY DEF Watches!MarkRead, Watches!Delete, Watches!Close
<1>2. UNCHANGED <<call, retries, seen, now, clock, batch, ok, told, lateEvents, raced>>
  BY <1>1 DEF Watches!callVars, Watches!deliveryVars
<1>3. /\ row' \in [Events -> NoticeRecords] /\ row'[r].state # "none"
      /\ \A q \in Events : q # r => row'[q] = row[q]
      /\ row'[r].merged = row[r].merged /\ row'[r].counted = row[r].counted /\ row'[r].sent = row[r].sent
  BY <1>0, <1>1 DEF NoticeRecords
<1>4. /\ closes' \in [Events -> Nat] /\ \A e \in Events : closes'[e] >= closes[e]
      /\ \A e \in Events : row[r].state = "unread" /\ UserOf[e] = UserOf[r] /\ now[e] > 0 =>
                             closes'[e] = closes[e] + 1
  BY <1>0, <1>1
<1>5. Watches!TypeOK'
  BY <1>2, <1>3, <1>4 DEF WatchInv, Watches!TypeOK, NoticeRecords
<1>6. OwnNotice' /\ SeenIsOwn'
  <2>1. call[r] = "done"
    BY <1>1 DEF WatchInv, OwnNotice
  <2>2. QED
    BY <1>2, <1>3, <2>1 DEF WatchInv, OwnNotice, SeenIsOwn
<1>7. HandKnowsEvents' /\ WritersKnow' /\ CountedAll'
  <2>1. \A d \in Pushers : \A b \in batch[d] : b.row \in Events
    BY DEF WatchInv, Watches!TypeOK
  <2>2. \A e \in Events : seen[e].row \subseteq Events
    BY DEF WatchInv, Watches!TypeOK
  <2>3. QED
    BY <1>2, <1>3, <2>1, <2>2 DEF WatchInv, HandKnowsEvents, WritersKnow, CountedAll
<1>8. PushedIsTold' /\ SentIsTold'
  BY <1>2, <1>3 DEF WatchInv, PushedIsTold, SentIsTold
<1>9. ClosesPayForRetries'
  <2> SUFFICES ASSUME NEW e \in Events
               PROVE  /\ call[e] \in {"start", "select", "update"} => closes'[e] + retries[e] >= 1
                      /\ call[e] \in {"select", "update"} => now[e] > 0
                      /\ call[e] = "select" =>
                           \/ \E q \in Events : UserOf[q] = UserOf[e] /\ row'[q].state = "unread"
                           \/ closes'[e] + retries[e] >= 2
                      /\ call[e] = "update" =>
                           \A q \in seen[e].row : row'[q].state = "unread" \/ closes'[e] + retries[e] >= 2
                      /\ call[e] = "failed" => closes'[e] >= 2
    BY <1>2 DEF ClosesPayForRetries
  <2>1. /\ call[e] \in {"start", "select", "update"} => closes[e] + retries[e] >= 1
        /\ call[e] \in {"select", "update"} => now[e] > 0
        /\ call[e] = "select" =>
             \/ \E q \in Events : UserOf[q] = UserOf[e] /\ row[q].state = "unread"
             \/ closes[e] + retries[e] >= 2
        /\ call[e] = "update" =>
             \A q \in seen[e].row : row[q].state = "unread" \/ closes[e] + retries[e] >= 2
        /\ call[e] = "failed" => closes[e] >= 2
    BY DEF WatchInv, ClosesPayForRetries
  <2>2. closes[e] \in Nat /\ closes'[e] \in Nat /\ retries[e] \in Nat /\ closes'[e] >= closes[e]
    BY <1>0, <1>4
  <2>3. ASSUME NEW q \in Events, UserOf[q] = UserOf[e], row[q].state = "unread", call[e] \in {"select", "update"}
        PROVE  row'[q].state = "unread" \/ closes'[e] + retries[e] >= 2
    <3>1. CASE q # r
      BY <1>3, <2>3, <3>1
    <3>2. CASE q = r
      <4>1. closes'[e] = closes[e] + 1
        BY <1>4, <2>1, <2>3, <3>2
      <4>2. QED
        BY <2>1, <2>2, <2>3, <4>1
    <3>3. QED
      BY <3>1, <3>2
  <2>4. \A q \in seen[e].row : q \in Events /\ UserOf[q] = UserOf[e]
    BY DEF WatchInv, Watches!TypeOK, SeenIsOwn
  <2>5. call[e] \in {"start", "select", "update"} => closes'[e] + retries[e] >= 1
    BY <2>1, <2>2
  <2>6. closes[e] + retries[e] >= 2 => closes'[e] + retries[e] >= 2
    BY <2>2
  <2>7. call[e] = "failed" => closes'[e] >= 2
    BY <2>1, <2>2
  <2>8. QED
    BY <2>1, <2>3, <2>4, <2>5, <2>6, <2>7
<1>10. QED
  BY <1>5, <1>6, <1>7, <1>8, <1>9 DEF WatchInv

\* A delivery takes notifications, pushes them and marks them, or dies.
LEMMA DeliverStep ==
  ASSUME WatchInv, NEW d \in Pushers, Watches!Deliver(d) \/ Watches!Crash(d)
  PROVE  WatchInv'
<1>0. /\ row \in [Events -> NoticeRecords] /\ told \subseteq Events
      /\ batch \in [Pushers -> SUBSET [row : Events, counted : SUBSET Events]]
      /\ ok \in [Pushers -> SUBSET Events]
  BY DEF WatchInv, Watches!TypeOK, NoticeRecords
<1>1. UNCHANGED <<call, retries, seen, now, clock, lateEvents, raced, closes>>
  BY DEF Watches!Deliver, Watches!Fetch, Watches!Push, Watches!MarkSent, Watches!Crash, Watches!callVars,
         Watches!ghosts
<1>2. CASE Watches!Fetch(d)
  <2>1. /\ batch[d] = {} /\ UNCHANGED <<row, ok, told>>
        /\ batch' = [batch EXCEPT ![d] = {[row |-> r, counted |-> row[r].counted] : r \in Watches!OldestQueued}]
    BY <1>2 DEF Watches!Fetch, Watches!ghosts
  <2>2. \A r \in Watches!OldestQueued : r \in Events /\ row[r].state = "unread"
    BY DEF Watches!OldestQueued, Watches!Queued
  <2>3. /\ batch' \in [Pushers -> SUBSET [row : Events, counted : SUBSET Events]]
        /\ \A c \in Pushers : c # d => batch'[c] = batch[c]
        /\ \A b \in batch'[d] : row[b.row].state # "none" /\ b.counted = row[b.row].counted
    BY <1>0, <2>1, <2>2 DEF NoticeRecords
  <2>4. Watches!TypeOK'
    BY <1>1, <2>1, <2>3 DEF WatchInv, Watches!TypeOK
  <2>5. /\ OwnNotice' /\ SeenIsOwn' /\ ClosesPayForRetries'
        /\ CountedAll' /\ WritersKnow' /\ SentIsTold'
    BY <1>1, <2>1 DEF WatchInv, OwnNotice, SeenIsOwn, ClosesPayForRetries, CountedAll, WritersKnow, SentIsTold
  <2>6. HandKnowsEvents'
    <3>1. \A b \in batch'[d] : b.row \in Events
      BY <2>3
    <3>2. QED
      BY <1>1, <2>1, <2>3, <3>1 DEF WatchInv, HandKnowsEvents, CountedAll
  <2>7. PushedIsTold'
    <3>1. ok[d] = {}
      BY <2>1 DEF WatchInv, PushedIsTold
    <3>2. QED
      BY <2>1, <2>3, <3>1 DEF WatchInv, PushedIsTold
  <2>8. QED
    BY <2>4, <2>5, <2>6, <2>7 DEF WatchInv
<1>3. ASSUME NEW b \in batch[d], Watches!Push(d, b) PROVE WatchInv'
  <2>1. /\ ok' = [ok EXCEPT ![d] = @ \union {b.row}] /\ told' = told \union b.counted
        /\ UNCHANGED <<row, batch>>
    BY <1>3 DEF Watches!Push
  <2>2. b.row \in Events /\ b.counted \subseteq Events
    BY <1>0, <1>3
  <2>3. /\ ok' \in [Pushers -> SUBSET Events] /\ ok'[d] = ok[d] \union {b.row}
        /\ \A c \in Pushers : c # d => ok'[c] = ok[c]
    BY <1>0, <2>1, <2>2
  <2>4. Watches!TypeOK'
    BY <1>0, <1>1, <2>1, <2>2, <2>3 DEF WatchInv, Watches!TypeOK
  <2>5. /\ OwnNotice' /\ SeenIsOwn' /\ ClosesPayForRetries'
        /\ CountedAll' /\ WritersKnow' /\ HandKnowsEvents'
    BY <1>1, <2>1 DEF WatchInv, OwnNotice, SeenIsOwn, ClosesPayForRetries, CountedAll, WritersKnow,
                      HandKnowsEvents
  <2>6. PushedIsTold' /\ SentIsTold'
    BY <1>1, <1>3, <2>1, <2>3 DEF WatchInv, PushedIsTold, SentIsTold
  <2>7. QED
    BY <2>4, <2>5, <2>6 DEF WatchInv
<1>4. CASE Watches!MarkSent(d) \/ Watches!Crash(d)
  <2>1. /\ batch' = [batch EXCEPT ![d] = {}] /\ ok' = [ok EXCEPT ![d] = {}] /\ told' = told
    BY <1>4 DEF Watches!MarkSent, Watches!Crash, Watches!ghosts
  <2>2. /\ batch' \in [Pushers -> SUBSET [row : Events, counted : SUBSET Events]]
        /\ ok' \in [Pushers -> SUBSET Events] /\ batch'[d] = {} /\ ok'[d] = {}
        /\ \A c \in Pushers : c # d => batch'[c] = batch[c] /\ ok'[c] = ok[c]
    BY <1>0, <2>1
  <2>3. /\ row' \in [Events -> NoticeRecords]
        /\ \A r \in Events : row'[r].state = row[r].state /\ row'[r].merged = row[r].merged
                               /\ row'[r].counted = row[r].counted
        /\ \A r \in Events : row'[r].sent => row[r].sent \/ r \in ok[d]
    <3>1. CASE row' = row
      BY <1>0, <3>1
    <3>2. CASE row' = [r \in Events |-> IF r \in ok[d] /\ row[r].state \in {"unread", "read"}
                                           THEN [row[r] EXCEPT !.sent = TRUE] ELSE row[r]]
      <4>1. ASSUME NEW r \in Events
            PROVE  /\ row'[r] \in NoticeRecords /\ row'[r].state = row[r].state
                   /\ row'[r].merged = row[r].merged /\ row'[r].counted = row[r].counted
                   /\ row'[r] = row[r] \/ r \in ok[d]
        <5>1. row[r] \in NoticeRecords
          BY <1>0
        <5>2. row'[r] = (IF r \in ok[d] /\ row[r].state \in {"unread", "read"}
                            THEN [row[r] EXCEPT !.sent = TRUE] ELSE row[r])
          BY <3>2, Zenon
        <5>3. CASE r \in ok[d] /\ row[r].state \in {"unread", "read"}
          <6>1. row'[r] = [row[r] EXCEPT !.sent = TRUE]
            BY <5>2, <5>3, Zenon
          <6>2. QED
            BY <5>1, <5>3, <6>1, MarkedRow
        <5>4. CASE ~(r \in ok[d] /\ row[r].state \in {"unread", "read"})
          <6>1. row'[r] = row[r]
            BY <5>2, <5>4, Zenon
          <6>2. QED
            BY <5>1, <6>1
        <5>5. QED
          BY <5>3, <5>4
      <4>2. row' \in [Events -> NoticeRecords]
        <5>1. DOMAIN row' = Events /\ row' = [r \in Events |-> row'[r]]
          BY <3>2, Zenon
        <5>2. QED
          BY <4>1, <5>1
      <4>3. QED
        BY <4>1, <4>2
    <3>3. QED
      BY <1>4, <3>1, <3>2 DEF Watches!MarkSent, Watches!Crash
  <2>4. Watches!TypeOK'
    BY <1>0, <1>1, <2>1, <2>2, <2>3 DEF WatchInv, Watches!TypeOK, NoticeRecords
  <2>5. OwnNotice' /\ SeenIsOwn'
    BY <1>1, <2>3 DEF WatchInv, OwnNotice, SeenIsOwn
  <2>6. ClosesPayForRetries'
    <3>1. \A e \in Events : seen[e].row \subseteq Events
      BY DEF WatchInv, Watches!TypeOK
    <3>2. QED
      BY <1>1, <2>3, <3>1 DEF WatchInv, ClosesPayForRetries
  <2>7. HandKnowsEvents' /\ PushedIsTold' /\ CountedAll' /\ WritersKnow'
    <3>1. \A c \in Pushers : \A b \in batch[c] : b.row \in Events
      BY <1>0
    <3>2. \A e \in Events : seen[e].row \subseteq Events
      BY DEF WatchInv, Watches!TypeOK
    <3>3. QED
      BY <1>1, <2>1, <2>2, <2>3, <3>1, <3>2 DEF WatchInv, HandKnowsEvents, PushedIsTold, CountedAll, WritersKnow
  <2>8. SentIsTold'
    <3>1. \A r \in ok[d] : row[r].merged \ (lateEvents \union raced) \subseteq told
      BY DEF WatchInv, HandKnowsEvents, PushedIsTold
    <3>2. QED
      BY <1>1, <2>1, <2>3, <3>1 DEF WatchInv, SentIsTold
  <2>9. QED
    BY <2>4, <2>5, <2>6, <2>7, <2>8 DEF WatchInv
<1>5. QED
  BY <1>2, <1>3, <1>4 DEF Watches!Deliver

\* Every step of a call, of the user and of a delivery keeps the invariant.
LEMMA WatchInductive == WatchInv /\ [Watches!Next]_(Watches!vars) => WatchInv'
<1> SUFFICES ASSUME WatchInv, [Watches!Next]_(Watches!vars) PROVE WatchInv'
  OBVIOUS
<1>1. CASE UNCHANGED Watches!vars
  <2>1. UNCHANGED <<row, call, retries, seen, now, clock, batch, ok, told, lateEvents, raced, closes>>
    BY <1>1 DEF Watches!vars, Watches!callVars, Watches!deliveryVars, Watches!ghosts
  <2>2. Watches!TypeOK'
    BY <2>1 DEF WatchInv, Watches!TypeOK
  <2>3. QED
    BY <2>1, <2>2 DEF WatchInv, OwnNotice, SeenIsOwn, ClosesPayForRetries, CountedAll, WritersKnow,
                      HandKnowsEvents, PushedIsTold, SentIsTold
<1>2. QED
  BY <1>1, InsertStep, SelectStep, UpdateStep, CloseStep, DeliverStep DEF Watches!Next, Watches!Call

\* An event is given up only if its user has closed two notifications while it
\* was written; the metadata of an unread notification, of which its push is made,
\* count the events merged into it, but for those merged between the read and the
\* write of another call; and one that counts as sent has told its events, but for
\* these and those merged while a delivery had it in hand
\* (coalesceOrCreateStationNotification, deliverQueuedStationWatchNotifications).
THEOREM NoEventIsLost ==
  ASSUME Watches!NotificationsAssumption
  PROVE  Watches!Spec => []EventsReachTheUser
<1>1. WatchInv => EventsReachTheUser
  BY DEF WatchInv, ClosesPayForRetries, CountedAll, SentIsTold, EventsReachTheUser, Watches!EventsReachTheUser
<1>2. QED
  BY <1>1, WatchInit, WatchInductive, PTL DEF Watches!Spec

-----------------------------------------------------------------------------
(* The role of a user and its grants.                                      *)

\* A grant and a memory of one have an id that was handed out.
IdsHandedOut ==
  /\ \A g \in grants : g.id < nextId
  /\ \A r \in Requests : \A i \in req[r].ids : i < nextId

\* Between requests that have all brought the grants in line, they fit the role.
FitAtRest == Grants!AtRest /\ failures = 0 => (role = "editor" <=> grants # {})

\* An editor has what was given; others have been given nothing.
GivenIsHad ==
  /\ role = "editor" => given \subseteq Grants!IdsOf(grants)
  /\ role # "editor" => given = {}

\* What a request has remembered of somebody who was no editor was not given
\* to the editor of now.
StaleWasNotGiven ==
  \A r \in Requests : req[r].role # "editor" => given \intersect req[r].ids = {}

GrantsInv ==
  /\ Grants!TypeOK
  /\ IdsHandedOut
  /\ FitAtRest
  /\ GivenIsHad
  /\ StaleWasNotGiven

\* A route that makes a grant starts from nothing, or adds to an editor's.
LEMMA CreateStep ==
  ASSUME Grants!GrantsAssumption, GrantsInv, NEW k \in GrantKinds, Grants!createRoleGrant(k)
  PROVE  GrantsInv'
<1> DEFINE new == [id |-> nextId, kind |-> k]
<1>0. /\ Grants!TypeOK /\ IdsHandedOut /\ GivenIsHad /\ StaleWasNotGiven
      /\ nextId \in Nat /\ nextId \in Grants!Ids /\ MaxGrants \in Nat
      /\ Grants!KeptByCreate \subseteq grants
  BY DEF GrantsInv, Grants!TypeOK, Grants!GrantsAssumption, Grants!createRoleGrant, Grants!Ids, Grants!KeptByCreate
<1>1. /\ role' = "editor" /\ grants' = Grants!KeptByCreate \union {new} /\ nextId' = nextId + 1
      /\ given' = (given \intersect Grants!IdsOf(grants')) \union {nextId}
      /\ UNCHANGED <<req, failures>>
      /\ \A g \in Grants!KeptByCreate : g.kind # k
  BY DEF Grants!createRoleGrant, Grants!IsNew
<1>2. Grants!TypeOK'
  <2>1. new \in [id : Grants!Ids, kind : GrantKinds] /\ new.kind = k
    BY <1>0
  <2>2. grants' \subseteq [id : Grants!Ids, kind : GrantKinds]
    BY <1>0, <1>1, <2>1 DEF Grants!TypeOK
  <2>3. \A g, h \in grants' : g.kind = h.kind => g = h
    <3> HIDE DEF new
    <3> QED
      BY <1>0, <1>1, <2>1 DEF Grants!TypeOK
  <2>4. nextId' \in 1 .. MaxGrants + 1
    BY <1>0, <1>1 DEF Grants!Ids
  <2>5. given' \subseteq Grants!Ids
    BY <1>0, <1>1 DEF Grants!TypeOK
  <2>6. role' \in Grants!Roles
    BY <1>1 DEF Grants!Roles
  <2>7. QED
    BY <1>0, <1>1, <2>2, <2>3, <2>4, <2>5, <2>6 DEF Grants!TypeOK
<1>3. IdsHandedOut'
  <2>1. \A g \in grants' : g.id < nextId'
    <3>1. \A g \in grants : g.id \in Nat /\ g.id < nextId
      BY <1>0 DEF IdsHandedOut, Grants!TypeOK, Grants!Ids
    <3>2. new.id = nextId
      OBVIOUS
    <3> HIDE DEF new
    <3>3. QED
      BY <1>0, <1>1, <3>1, <3>2
  <2>2. \A r \in Requests : \A i \in req'[r].ids : i < nextId'
    <3>1. \A r \in Requests : \A i \in req[r].ids : i \in Nat /\ i < nextId
      BY <1>0 DEF IdsHandedOut, Grants!TypeOK, Grants!Ids
    <3>2. QED
      BY <1>0, <1>1, <3>1
  <2>3. QED
    BY <2>1, <2>2 DEF IdsHandedOut
<1>4. FitAtRest'
  BY <1>1 DEF FitAtRest
<1>5. GivenIsHad'
  <2>1. new \in grants' /\ new.id = nextId
    BY <1>1
  <2>2. nextId \in Grants!IdsOf(grants')
    <3> HIDE DEF new
    <3> QED
      BY <2>1 DEF Grants!IdsOf
  <2>3. given' \subseteq Grants!IdsOf(grants')
    BY <1>1, <2>2
  <2>4. QED
    BY <1>1, <2>3 DEF GivenIsHad, Grants!IdsOf
<1>6. StaleWasNotGiven'
  <2>1. \A r \in Requests : nextId \notin req[r].ids
    BY <1>0 DEF IdsHandedOut
  <2>2. \A i \in given' : i \in given \/ i = nextId
    BY <1>1
  <2>3. QED
    BY <1>0, <1>1, <2>1, <2>2 DEF StaleWasNotGiven
<1>7. QED
  BY <1>2, <1>3, <1>4, <1>5, <1>6 DEF GrantsInv

\* A deletion takes the last grant and the role together.
LEMMA DeleteStep ==
  ASSUME Grants!GrantsAssumption, GrantsInv, NEW g \in grants, Grants!deleteRoleGrant(g)
  PROVE  GrantsInv'
<1>1. /\ grants' = grants \ {g} /\ given' = given \ {g.id}
      /\ role' = (IF grants \ {g} = {} /\ role = "editor" THEN "user" ELSE role)
      /\ UNCHANGED <<nextId, req, failures>>
  BY DEF Grants!deleteRoleGrant, Grants!RoleAfterDelete
<1>2. Grants!TypeOK'
  BY <1>1 DEF GrantsInv, Grants!TypeOK, Grants!Roles
<1>3. IdsHandedOut' /\ StaleWasNotGiven'
  BY <1>1 DEF GrantsInv, IdsHandedOut, StaleWasNotGiven
<1>4. FitAtRest'
  BY <1>1 DEF GrantsInv, FitAtRest, Grants!AtRest
<1>5. GivenIsHad'
  <2>1. CASE role # "editor"
    BY <1>1, <2>1 DEF GrantsInv, GivenIsHad
  <2>2. CASE role = "editor"
    <3>1. \A i \in given' : \E h \in grants' : i = h.id
      BY <1>1, <2>2 DEF GrantsInv, GivenIsHad, Grants!IdsOf
    <3>2. given' \subseteq Grants!IdsOf(grants')
      BY <3>1 DEF Grants!IdsOf
    <3>3. grants' = {} => given' = {}
      BY <3>1
    <3>4. QED
      BY <1>1, <2>2, <3>2, <3>3 DEF GivenIsHad, Grants!IdsOf
  <2>3. QED
    BY <2>1, <2>2
<1>6. QED
  BY <1>2, <1>3, <1>4, <1>5 DEF GrantsInv

\* A request remembers a user, writes a role, is refused or is not followed up.
LEMMA RequestStep ==
  ASSUME Grants!GrantsAssumption, GrantsInv, NEW r \in Requests,
         \/ Grants!rememberAdministeredUser(r)
         \/ \E to \in Grants!Roles : Grants!SetRole(r, to)
         \/ Grants!SyncFails(r)
         \/ Grants!Refused(r)
  PROVE  GrantsInv'
<1> USE DEF GrantsInv
<1>0. \A s \in Requests : req[s] \in [at : {"idle", "remembered", "written"}, role : Grants!Roles, ids : SUBSET Grants!Ids]
  BY DEF Grants!TypeOK
<1>1. CASE Grants!rememberAdministeredUser(r)
  <2>1. /\ UNCHANGED <<role, grants, nextId, failures, given>>
        /\ req' = [req EXCEPT ![r] = [at |-> "remembered", role |-> role, ids |-> Grants!IdsOf(grants)]]
        /\ req[r].at = "idle"
    BY <1>1 DEF Grants!rememberAdministeredUser
  <2>2. Grants!IdsOf(grants) \subseteq Grants!Ids
    BY DEF Grants!TypeOK, Grants!IdsOf
  <2>3. Grants!TypeOK'
    BY <2>1, <2>2 DEF Grants!TypeOK
  <2>4. IdsHandedOut'
    BY <2>1 DEF IdsHandedOut, Grants!IdsOf, Grants!TypeOK
  <2>5. FitAtRest'
    BY <2>1 DEF FitAtRest, Grants!AtRest, Grants!TypeOK
  <2>6. StaleWasNotGiven'
    BY <2>1 DEF StaleWasNotGiven, GivenIsHad, Grants!TypeOK
  <2>7. QED
    BY <2>1, <2>3, <2>4, <2>5, <2>6 DEF GivenIsHad
<1>2. ASSUME NEW to \in Grants!Roles, Grants!SetRole(r, to) PROVE GrantsInv'
  <2>1. /\ role' = to /\ req' = [req EXCEPT ![r].at = "written"]
        /\ given' = (IF to = "editor" THEN given ELSE {})
        /\ UNCHANGED <<grants, nextId, failures>>
    BY <1>2 DEF Grants!SetRole
  <2>2. /\ req' \in [Requests -> [at : {"idle", "remembered", "written"}, role : Grants!Roles, ids : SUBSET Grants!Ids]]
        /\ \A s \in Requests : req'[s].role = req[s].role /\ req'[s].ids = req[s].ids
        /\ req'[r].at = "written"
    BY <1>0, <2>1 DEF Grants!TypeOK
  <2>3. Grants!TypeOK'
    BY <2>1, <2>2 DEF Grants!TypeOK
  <2>4. IdsHandedOut' /\ StaleWasNotGiven'
    BY <2>1, <2>2 DEF IdsHandedOut, StaleWasNotGiven
  <2>5. FitAtRest'
    BY <2>2 DEF FitAtRest, Grants!AtRest
  <2>6. GivenIsHad'
    BY <2>1 DEF GivenIsHad
  <2>7. QED
    BY <2>3, <2>4, <2>5, <2>6
<1>3. CASE Grants!SyncFails(r) \/ Grants!Refused(r)
  <2>1. /\ UNCHANGED <<role, grants, nextId, given>>
        /\ req' = [req EXCEPT ![r] = Grants!Idle]
        /\ \/ failures' = failures + 1 /\ failures < MaxFailures
           \/ failures' = failures /\ req[r].at = "remembered"
    BY <1>3 DEF Grants!SyncFails, Grants!Refused, Grants!Ends
  <2>2. Grants!Idle \in [at : {"idle", "remembered", "written"}, role : Grants!Roles, ids : SUBSET Grants!Ids]
    BY DEF Grants!Idle, Grants!Roles
  <2>3. Grants!TypeOK'
    BY <2>1, <2>2 DEF Grants!TypeOK, Grants!GrantsAssumption
  <2>4. IdsHandedOut' /\ StaleWasNotGiven'
    BY <2>1 DEF IdsHandedOut, StaleWasNotGiven, Grants!Idle, Grants!TypeOK
  <2>5. FitAtRest'
    <3>1. CASE failures' = failures + 1
      BY <3>1 DEF FitAtRest, Grants!TypeOK
    <3>2. CASE failures' = failures /\ req[r].at = "remembered"
      BY <2>1, <3>2 DEF FitAtRest, Grants!AtRest, Grants!TypeOK
    <3>3. QED
      BY <2>1, <3>1, <3>2
  <2>6. GivenIsHad'
    BY <2>1 DEF GivenIsHad
  <2>7. QED
    BY <2>3, <2>4, <2>5, <2>6
<1>4. QED
  BY <1>1, <1>2, <1>3

\* What follows a request brings the grants in line, and leaves those alone
\* that were made since it remembered the user.
LEMMA SyncStep ==
  ASSUME Grants!GrantsAssumption, GrantsInv, NEW r \in Requests, Grants!syncGrantsWithRole(r)
  PROVE  GrantsInv'
<1> DEFINE legacy == [id |-> nextId, kind |-> Legacy]
<1> DEFINE left == grants \ Grants!StaleOf(r)
<1>0. /\ UNCHANGED <<role, failures, given>>
      /\ req' = [req EXCEPT ![r] = Grants!Idle]
      /\ Grants!TypeOK /\ IdsHandedOut /\ GivenIsHad /\ StaleWasNotGiven
      /\ MaxGrants \in Nat /\ nextId \in Nat
  BY DEF Grants!syncGrantsWithRole, Grants!Ends, GrantsInv, Grants!GrantsAssumption, Grants!TypeOK
<1>1. /\ req' \in [Requests -> [at : {"idle", "remembered", "written"}, role : Grants!Roles, ids : SUBSET Grants!Ids]]
      /\ \A s \in Requests : s # r => req'[s] = req[s]
      /\ req'[r].ids = {}
  BY <1>0 DEF Grants!TypeOK, Grants!Idle, Grants!Roles
<1>2. StaleWasNotGiven'
  BY <1>0, <1>1 DEF StaleWasNotGiven
<1>3. CASE role # "editor"
  <2>1. grants' = {} /\ nextId' = nextId
    BY <1>3 DEF Grants!syncGrantsWithRole
  <2>2. Grants!TypeOK'
    BY <1>0, <1>1, <2>1 DEF Grants!TypeOK
  <2>3. IdsHandedOut'
    BY <1>0, <1>1, <2>1 DEF IdsHandedOut
  <2>4. FitAtRest' /\ GivenIsHad'
    BY <1>0, <1>3, <2>1 DEF FitAtRest, GivenIsHad
  <2>5. QED
    BY <1>2, <2>2, <2>3, <2>4 DEF GrantsInv
<1>4. CASE role = "editor"
  <2>1. given \subseteq Grants!IdsOf(left)
    <3>1. ASSUME NEW g \in grants, g.id \in given PROVE g \in left
      BY <1>0, <3>1 DEF Grants!StaleOf, StaleWasNotGiven
    <3>2. \A i \in given : \E g \in grants : g.id = i
      BY <1>0, <1>4 DEF GivenIsHad, Grants!IdsOf
    <3>3. QED
      BY <3>1, <3>2 DEF Grants!IdsOf
  <2>2. CASE left # {}
    <3>1. grants' = left /\ nextId' = nextId
      BY <1>4, <2>2 DEF Grants!syncGrantsWithRole
    <3>2. Grants!TypeOK'
      BY <1>0, <1>1, <3>1 DEF Grants!TypeOK
    <3>3. IdsHandedOut'
      BY <1>0, <1>1, <3>1 DEF IdsHandedOut
    <3>4. FitAtRest' /\ GivenIsHad'
      BY <1>0, <1>4, <2>1, <2>2, <3>1 DEF FitAtRest, GivenIsHad
    <3>5. QED
      BY <1>2, <3>2, <3>3, <3>4 DEF GrantsInv
  <2>3. CASE left = {}
    <3>1. grants' = {legacy} /\ nextId' = nextId + 1 /\ nextId <= MaxGrants
      BY <1>4, <2>3 DEF Grants!syncGrantsWithRole
    <3>2. given = {}
      BY <2>1, <2>3 DEF Grants!IdsOf
    <3>3. Grants!TypeOK'
      <4>1. legacy \in [id : Grants!Ids, kind : GrantKinds]
        BY <1>0, <3>1 DEF Grants!GrantsAssumption, Grants!TypeOK, Grants!Ids
      <4>2. nextId' \in 1 .. MaxGrants + 1
        BY <1>0, <3>1 DEF Grants!TypeOK
      <4> HIDE DEF legacy
      <4>3. QED
        BY <1>0, <1>1, <3>1, <4>1, <4>2 DEF Grants!TypeOK
    <3>4. IdsHandedOut'
      <4>1. \A s \in Requests : \A i \in req[s].ids : i \in Nat /\ i < nextId
        BY <1>0 DEF IdsHandedOut, Grants!TypeOK, Grants!Ids
      <4>2. \A s \in Requests : \A i \in req'[s].ids : i < nextId'
        BY <1>0, <1>1, <3>1, <4>1
      <4>3. \A g \in grants' : g.id < nextId'
        BY <1>0, <3>1
      <4>4. QED
        BY <4>2, <4>3 DEF IdsHandedOut
    <3>5. FitAtRest' /\ GivenIsHad'
      BY <1>0, <1>4, <3>1, <3>2 DEF FitAtRest, GivenIsHad
    <3>6. QED
      BY <1>2, <3>3, <3>4, <3>5 DEF GrantsInv
  <2>4. QED
    BY <2>2, <2>3
<1>5. QED
  BY <1>3, <1>4

\* At first the user is no editor and has nothing.
LEMMA GrantsInit == Grants!GrantsAssumption /\ Grants!Init => GrantsInv
<1> SUFFICES ASSUME Grants!GrantsAssumption, Grants!Init PROVE GrantsInv
  OBVIOUS
<1>1. Grants!TypeOK
  <2>1. 1 \in 1 .. MaxGrants + 1 /\ 0 \in 0 .. MaxFailures
    BY DEF Grants!GrantsAssumption
  <2>2. Grants!Idle \in [at : {"idle", "remembered", "written"}, role : Grants!Roles, ids : SUBSET Grants!Ids]
    BY DEF Grants!Idle, Grants!Roles
  <2>3. QED
    BY <2>1, <2>2 DEF Grants!Init, Grants!TypeOK, Grants!Roles
<1>2. IdsHandedOut /\ FitAtRest /\ GivenIsHad /\ StaleWasNotGiven
  BY DEF Grants!Init, IdsHandedOut, FitAtRest, GivenIsHad, StaleWasNotGiven, Grants!Idle
<1>3. QED
  BY <1>1, <1>2 DEF GrantsInv

\* Every route and every step of a request keeps the invariant.
LEMMA GrantsInductive == Grants!GrantsAssumption /\ GrantsInv /\ [Grants!Next]_(Grants!vars) => GrantsInv'
<1> SUFFICES ASSUME Grants!GrantsAssumption, GrantsInv, [Grants!Next]_(Grants!vars) PROVE GrantsInv'
  OBVIOUS
<1>1. CASE UNCHANGED Grants!vars
  <2>1. Grants!TypeOK'
    BY <1>1 DEF GrantsInv, Grants!TypeOK, Grants!vars
  <2>2. QED
    BY <1>1, <2>1 DEF GrantsInv, IdsHandedOut, FitAtRest, Grants!AtRest, GivenIsHad, StaleWasNotGiven, Grants!vars
<1>2. QED
  BY <1>1, CreateStep, DeleteStep, RequestStep, SyncStep DEF Grants!Next

\* Between requests an editor has a grant and nobody else does, unless what
\* follows a request has failed, and no request takes away a grant that was
\* made after it remembered the user (createRoleGrant, deleteRoleGrant,
\* rememberAdministeredUser and syncGrantsWithRole).
THEOREM RoleAndGrantsFit == ASSUME Grants!GrantsAssumption PROVE Grants!Spec => []GrantsFitRole
<1>1. GrantsInv => GrantsFitRole
  BY DEF GrantsInv, GrantsFitRole, Grants!GrantsFitRole, FitAtRest, GivenIsHad
<1>2. QED
  BY <1>1, GrantsInit, GrantsInductive, PTL DEF Grants!Spec
=============================================================================
