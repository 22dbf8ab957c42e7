--------------------------- MODULE LicenseeMapping ---------------------------
(***************************************************************************)
(* The operator of one licensee, changed by administrators                 *)
(* (features/official/licensees.ts) and by the remap runs that they queue  *)
(* (import/remap/apply.ts, import/run.ts).  An administrator's change is a *)
(* transaction that locks the row of the licensee, looks for a live remap  *)
(* run and commits; a run may be attempted again when its worker dies, and *)
(* applies its remap again unless an after-step has begun.                 *)
(*                                                                         *)
(* The claim of a run is the one of ImportRuns, which shows that a run has *)
(* one owner: here a run has at most one worker, and the source of the     *)
(* licensee has at most one running run.                                   *)
(***************************************************************************)
EXTENDS Integers, Sequences, FiniteSets

CONSTANTS
    Admins,
    Operators,
    Brands,
    Null,
    MaxRuns,      \* bound: runs that are queued
    MaxAttempts   \* MAX_RUN_ATTEMPTS

MappingAssumption == /\ Null \notin Operators \cup Brands \cup Admins
                     /\ MaxRuns \in Nat /\ MaxAttempts \in Nat \ {0}

Absent == "absent"

VARIABLES
    operator,  \* official.licensees.operator_id
    brand,     \* official.licensees.brand_id
    lock,      \* the administrator whose transaction holds the row, or Null
    session,   \* what each administrator's transaction is about
    runs       \* sequence of the runs, in the order they were queued

row == <<operator, brand>>
vars == <<operator, brand, lock, session, runs>>

Change == [operator : Operators \cup {Null, Absent}, brand : Brands \cup {Null, Absent}, dry : BOOLEAN]

Idle == [pc |-> "idle"]

RunStates == {"queued", "running", "done", "failed", "cancelled"}
Live(r) == r.state \in {"queued", "running"}

Run(kind, to, dry) ==
    [kind |-> kind, from |-> operator, to |-> to, dry |-> dry, state |-> "queued",
     attempt |-> 0, at |-> "none", steps |-> FALSE]

TypeOK ==
    /\ operator \in Operators \cup {Null}
    /\ brand \in Brands \cup {Null}
    /\ lock \in Admins \cup {Null}
    /\ \A a \in Admins : session[a] = Idle \/ (session[a].pc \in {"locked", "checked"} /\ session[a].change \in Change)
    /\ \A n \in DOMAIN runs : runs[n].state \in RunStates /\ runs[n].attempt \in 0..MaxAttempts

Init ==
    /\ operator = Null
    /\ brand \in Brands \cup {Null}
    /\ lock = Null
    /\ session = [a \in Admins |-> Idle]
    /\ runs = << >>

-----------------------------------------------------------------------------
(***************************************************************************)
(* changeLicensee.  What a transaction writes is seen when it commits.     *)
(***************************************************************************)
\* Mutant: the row is read without a lock.
WaitsForRowNever(a) == FALSE

\* FOR NO KEY UPDATE waits for the other holders of the row.
WaitsForRow(a) == lock # Null

LockLicensee(a) ==
    /\ session[a] = Idle
    /\ ~WaitsForRow(a)
    /\ lock' = a
    /\ \E c \in Change : session' = [session EXCEPT ![a] = [pc |-> "locked", change |-> c]]
    /\ UNCHANGED <<operator, brand, runs>>

Named(x) == x \notin {Absent, Null}

\* The transaction ends: committed, refused or with nothing to do.
End(a) ==
    /\ lock' = IF lock = a THEN Null ELSE lock
    /\ session' = [session EXCEPT ![a] = Idle]

\* "A licensee with an operator has no brand of its own"
Refused(a) == operator # Null /\ Named(session[a].change.brand)

RefuseBrand(a) ==
    /\ session[a].pc = "locked"
    /\ Refused(a)
    /\ End(a)
    /\ UNCHANGED <<operator, brand, runs>>

\* Leaves an operator as it is, or a brand.
ChangeNothing(a) ==
    /\ session[a].pc = "locked"
    /\ ~Refused(a)
    /\ IF operator # Null
       THEN session[a].change.operator \in {Absent, operator}
       ELSE ~Named(session[a].change.operator) /\ session[a].change.brand \in {Absent, brand}
    /\ End(a)
    /\ UNCHANGED <<operator, brand, runs>>

\* queueRemap looks for a live remap run of the licensee ...
LookForRemap(a) ==
    /\ session[a].pc = "locked"
    /\ ~Refused(a)
    /\ operator # Null /\ session[a].change.operator \notin {Absent, operator}
    /\ IF \E n \in DOMAIN runs : runs[n].kind = "remap" /\ Live(runs[n])
       THEN End(a)
       ELSE session' = [session EXCEPT ![a].pc = "checked"] /\ UNCHANGED lock
    /\ UNCHANGED <<operator, brand, runs>>

\* ... and queues one
QueueRemap(a) ==
    /\ session[a].pc = "checked"
    /\ Len(runs) < MaxRuns
    /\ runs' = Append(runs, Run("remap", session[a].change.operator, session[a].change.dry))
    /\ End(a)
    /\ UNCHANGED row

\* mapToOperator: the operator is set at once, and a replay is queued for the datasets of the source.
MapToOperator(a) ==
    /\ session[a].pc = "locked"
    /\ operator = Null /\ Named(session[a].change.operator)
    /\ operator' = session[a].change.operator
    /\ brand' = Null
    /\ \/ Len(runs) < MaxRuns /\ runs' = Append(runs, Run("replay", Null, FALSE))
       \/ UNCHANGED runs
    /\ End(a)

SaveBrand(a) ==
    /\ session[a].pc = "locked"
    /\ operator = Null /\ ~Named(session[a].change.operator)
    /\ session[a].change.brand \notin {Absent, brand}
    /\ brand' = session[a].change.brand
    /\ End(a)
    /\ UNCHANGED <<operator, runs>>

-----------------------------------------------------------------------------
(***************************************************************************)
(* The runs.                                                               *)
(***************************************************************************)

\* A queued run, or a running one whose worker has died; at the last attempt it fails instead.
ClaimRun(n) ==
    /\ \/ runs[n].state = "queued"
       \/ runs[n].state = "running" /\ runs[n].at = "dead"
    /\ \A k \in DOMAIN runs : k # n => runs[k].state # "running"
    /\ runs' = [runs EXCEPT ![n] =
                IF @.attempt >= MaxAttempts
                THEN [@ EXCEPT !.state = "failed", !.at = "none"]
                ELSE [@ EXCEPT !.state = "running", !.attempt = runs[n].attempt + 1,
                               !.at = IF runs[n].steps THEN "applied" ELSE "claimed"]]
    /\ UNCHANGED <<operator, brand, lock, session>>

\* The worker dies, or hands its run back when it is told to stop.
Die(n) ==
    /\ runs[n].state = "running" /\ runs[n].at \in {"claimed", "applied"}
    /\ \E s \in {"running", "queued"} : runs' = [runs EXCEPT ![n].at = "dead", ![n].state = s]
    /\ UNCHANGED <<operator, brand, lock, session>>

\* The assertion of remapLicensee.
RemapFits(r) == operator \in {r.from, r.to}

\* remapLicensee under the lock of the row; a dry run is rolled back.
ApplyRemap(n) ==
    LET r == runs[n]
    IN  /\ r.state = "running" /\ r.at = "claimed" /\ r.kind = "remap"
        /\ lock = Null
        /\ RemapFits(r)
        /\ IF r.dry
           THEN UNCHANGED row
           ELSE operator' = r.to /\ brand' = IF r.to = Null THEN brand ELSE Null
        /\ runs' = [runs EXCEPT ![n].at = "applied"]
        /\ UNCHANGED <<lock, session>>

\* A replay imports the datasets with the mapping it finds.
Replay(n) ==
    /\ runs[n].state = "running" /\ runs[n].at = "claimed" /\ runs[n].kind = "replay"
    /\ runs' = [runs EXCEPT ![n].at = "applied"]
    /\ UNCHANGED <<operator, brand, lock, session>>

\* The first after-step; a dry run's steps are undone with the rest of it.
StartAfterSteps(n) ==
    /\ runs[n].state = "running" /\ runs[n].at = "applied" /\ ~runs[n].steps /\ ~runs[n].dry
    /\ runs' = [runs EXCEPT ![n].steps = TRUE]
    /\ UNCHANGED <<operator, brand, lock, session>>

FinishRun(n) ==
    /\ runs[n].state = "running" /\ runs[n].at = "applied" /\ (runs[n].steps \/ runs[n].dry)
    /\ runs' = [runs EXCEPT ![n].state = "done", ![n].at = "none"]
    /\ UNCHANGED <<operator, brand, lock, session>>

\* The remap is refused, or anything else goes wrong.
FailRun(n) ==
    /\ runs[n].state = "running" /\ runs[n].at \in {"claimed", "applied"}
    /\ runs' = [runs EXCEPT ![n].state = "failed", ![n].at = "none"]
    /\ UNCHANGED <<operator, brand, lock, session>>

CancelRun(n) ==
    /\ Live(runs[n])
    /\ runs' = [runs EXCEPT ![n].state = "cancelled", ![n].at = "none"]
    /\ UNCHANGED <<operator, brand, lock, session>>

-----------------------------------------------------------------------------
Next ==
    \/ \E a \in Admins :
        \/ LockLicensee(a) \/ RefuseBrand(a) \/ ChangeNothing(a) \/ LookForRemap(a)
        \/ QueueRemap(a) \/ MapToOperator(a) \/ SaveBrand(a)
    \/ \E n \in DOMAIN runs :
        \/ ClaimRun(n) \/ Die(n) \/ ApplyRemap(n) \/ Replay(n) \/ StartAfterSteps(n)
        \/ FinishRun(n) \/ FailRun(n) \/ CancelRun(n)

Spec == Init /\ [][Next]_vars

-----------------------------------------------------------------------------
\* A licensee never has two remap runs that are queued or running, although two administrators may ask
\* at once (queueRemap under the row lock of changeLicensee).
OneLiveRemap ==
    \A k, n \in DOMAIN runs :
        runs[k].kind = "remap" /\ runs[n].kind = "remap" /\ Live(runs[k]) /\ Live(runs[n]) => k = n

\* A licensee with an operator has no brand, whoever set the operator (the check licensees_operator_or_brand).
OperatorOrBrand == operator = Null \/ brand = Null

\* One remap at a time, and an operator or a brand (changeLicensee, remapLicensee).
LicenseeStaysMapped == TypeOK /\ OneLiveRemap /\ OperatorOrBrand

=============================================================================
