----------------------------- MODULE PermitPool -----------------------------
(***************************************************************************)
(* What a bounded semaphore promises: there are Limit permits, each free   *)
(* or with one task; a task waits only while none is free, and a task that *)
(* has one gives it back once, to a task that waits if there is one.       *)
(***************************************************************************)
EXTENDS Naturals, FiniteSets

CONSTANTS Tasks, Limit

VARIABLES holders,  \* tasks that have a permit
          waiting,  \* tasks that wait for one
          free      \* permits nobody has

vars == <<holders, waiting, free>>

Init == holders = {} /\ waiting = {} /\ free = Limit

Take(t) ==
    /\ free > 0 /\ t \notin holders \cup waiting
    /\ free' = free - 1
    /\ holders' = holders \cup {t}
    /\ UNCHANGED waiting

Wait(t) ==
    /\ free = 0 /\ t \notin holders \cup waiting
    /\ waiting' = waiting \cup {t}
    /\ UNCHANGED <<holders, free>>

LeaveQueue(t) ==
    /\ t \in waiting
    /\ waiting' = waiting \ {t}
    /\ UNCHANGED <<holders, free>>

Give(t) ==
    /\ t \in holders /\ waiting = {}
    /\ holders' = holders \ {t}
    /\ free' = free + 1
    /\ UNCHANGED waiting

\* A permit that is given back goes to a task that waits in the same step.
HandOver(t, u) ==
    /\ t \in holders /\ u \in waiting
    /\ holders' = (holders \ {t}) \cup {u}
    /\ waiting' = waiting \ {u}
    /\ UNCHANGED free

Next == \E t \in Tasks : \/ Take(t) \/ Wait(t) \/ LeaveQueue(t) \/ Give(t)
                         \/ \E u \in Tasks : HandOver(t, u)

Spec == Init /\ [][Next]_vars
=============================================================================
