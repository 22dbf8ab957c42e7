--------------------------- MODULE ObservationFlags -------------------------
(***************************************************************************)
(* The flags of one kind about one group of observed sites                 *)
(* (features/observed/flags).  The evidence is the number of people whose  *)
(* phones show that the database is wrong; the lead site of the group      *)
(* carries the flag.  A pass reads the group and then, in a transaction,   *)
(* moves flags to the lead, closes those without evidence and opens or     *)
(* updates the one of the lead.  Editors dismiss, reopen and apply flags   *)
(* meanwhile.                                                              *)
(*                                                                         *)
(* The transaction of a pass runs at READ COMMITTED: each of its           *)
(* statements sees what was committed when the statement began, waits for  *)
(* the rows that others have locked and takes them as they are then.  What *)
(* a transaction has written is seen by no other before it commits, and    *)
(* other passes and editors come in between its statements: no lock is     *)
(* common to the pass of the measurement engine and to those of routes.    *)
(***************************************************************************)
EXTENDS Integers, Sequences, SequencesExt, FiniteSetsExt

CONSTANTS
  Sites,       \* the sites of the group, numbers: the order of their moves
  Passes,      \* the passes that can be under way at once
  MaxPeople,   \* bound: the people of the evidence
  MaxChanges   \* bound: the changes of the world and by editors

FlagsAssumption ==
  /\ Sites \subseteq Nat
  /\ MaxPeople \in Nat \ {0}
  /\ MaxChanges \in Nat

VARIABLES
  flags,    \* the flags in the order of their ids, as they are committed
  people,   \* the evidence, 0 when phones and database agree
  lead,     \* the lead site of the group
  pass,     \* the passes: what each has read, locked and written
  opened,   \* history: the flags opened since a pass looked for open ones
  changes   \* the changes so far

vars == <<flags, people, lead, pass, opened, changes>>

Reasons == {"open", "dismissed", "applied", "evidenceGone"}

\* A pass that is not under way.
Idle == [at |-> "idle", lead |-> 0, people |-> 0, time |-> 0,
         seen |-> {}, rows |-> << >>, raises |-> FALSE]

Init ==
  /\ flags = << >>
  /\ people \in 0 .. MaxPeople
  /\ lead \in Sites
  /\ pass = [p \in Passes |-> Idle]
  /\ opened = [p \in Passes |-> {}]
  /\ changes = 0

-----------------------------------------------------------------------------
(* Sets of flags, of a sequence fs of them. *)

At(fs, s) == {i \in DOMAIN fs : fs[i].site = s}
Open(fs) == {i \in DOMAIN fs : fs[i].reason = "open"}
Held(fs) == {i \in DOMAIN fs : fs[i].reason \in {"open", "dismissed"}}
Closed(fs) == DOMAIN fs \ Open(fs)

\* The flags of a set that were closed last: several if their transactions have
\* overlapped, or were one.
LatestClosed(fs, ids) ==
  {i \in ids \intersect Closed(fs) :
     \A j \in ids \intersect Closed(fs) : fs[j].closedAt <= fs[i].closedAt}

\* The time at which a transaction begins, which is that of its writes: later
\* than that of all committed before.
now == 1 + Max({0} \union {flags[i].closedAt : i \in DOMAIN flags})

CloseAll(fs, ids, reason, time) ==
  [i \in DOMAIN fs |->
    IF i \in ids THEN [fs[i] EXCEPT !.reason = reason, !.closedAt = time] ELSE fs[i]]

-----------------------------------------------------------------------------
(* The transactions of passes. *)

\* The flags as pass p sees them: the committed ones and its own writes, which
\* are of rows it has locked.
View(p) ==
  [i \in DOMAIN flags |-> IF i \in DOMAIN pass[p].rows THEN pass[p].rows[i] ELSE flags[i]]

\* No other pass has locked a flag of a set.
Free(p, ids) == \A q \in Passes \ {p} : DOMAIN pass[q].rows \intersect ids = {}

\* The open flags of a site that stand in the way of one that p opens there
\* (observation_flags_one_open), those of other transactions among them: p
\* waits for these, and fails on one that is committed.
Uncommitted(p, s) ==
  UNION {{i \in DOMAIN pass[q].rows :
            \/ flags[i].site = s /\ flags[i].reason = "open"
            \/ pass[q].rows[i].site = s /\ pass[q].rows[i].reason = "open"} : q \in Passes \ {p}}

Step(p, from, to) ==
  /\ pass[p].at = from
  /\ pass' = [pass EXCEPT ![p] = to]
  /\ UNCHANGED <<people, lead, changes>>

\* A pass holds the rows of a set, as they are in fs.
Holding(p, ids, fs) == [i \in DOMAIN pass[p].rows \union ids |-> fs[i]]

-----------------------------------------------------------------------------
(* A pass: refreshBatch. *)

Begin(p) ==
  /\ Step(p, "idle", [Idle EXCEPT !.at = "read", !.lead = lead, !.people = people])
  /\ UNCHANGED <<flags, opened>>

\* The first statement of moveFlags begins, and with it the transaction.
Look(p) ==
  /\ Step(p, "read", [pass[p] EXCEPT !.at = "moving", !.time = now, !.seen = Held(flags)])
  /\ UNCHANGED <<flags, opened>>

\* The order in which the flags of the other sites are moved.
MovedBefore(fs, i, j) ==
  fs[i].site < fs[j].site \/ (fs[i].site = fs[j].site /\ i < j)

FirstOf(fs, ids) == {i \in ids : \A j \in ids : j = i \/ MovedBefore(fs, i, j)}

\* planFlagMoves, of the flags held: an open flag moves to lead s unless one is
\* open there, and is closed then; a dismissal moves unless one is held there.
planFlagMoves(fs, held, s) ==
  LET others == held \ At(fs, s)
      openOthers == others \intersect Open(fs)
      moving == (IF held \intersect At(fs, s) = {} THEN FirstOf(fs, others) ELSE {})
                  \union (IF held \intersect Open(fs) \intersect At(fs, s) = {} THEN FirstOf(fs, openOthers) ELSE {})
  IN [resolved |-> openOthers \ moving, rewrites |-> moving]

moveFlags(fs, plan, s, time) ==
  LET closed == CloseAll(fs, plan.resolved, "evidenceGone", time)
  IN [i \in DOMAIN fs |-> IF i \in plan.rewrites THEN [closed[i] EXCEPT !.site = s] ELSE closed[i]]

\* The flags seen are locked and moved, those that are still held.
Move(p) ==
  /\ Free(p, pass[p].seen)
  /\ LET held == pass[p].seen \intersect Held(flags)
         plan == planFlagMoves(flags, held, pass[p].lead)
         moved == moveFlags(flags, plan, pass[p].lead, pass[p].time)
     IN /\ plan.rewrites \intersect Open(flags) # {}
             => /\ Open(flags) \intersect At(flags, pass[p].lead) = {}
                /\ Uncommitted(p, pass[p].lead) = {}
        /\ Step(p, "moving", [pass[p] EXCEPT !.at = "moved", !.seen = {}, !.rows = Holding(p, held, moved)])
  /\ UNCHANGED <<flags, opened>>

\* lockOpenFlags begins.
LookAgain(p) ==
  /\ Step(p, "moved", [pass[p] EXCEPT !.at = "closing", !.seen = Open(View(p))])
  /\ opened' = [opened EXCEPT ![p] = {}]
  /\ UNCHANGED flags

\* Mutant: open flags of which the evidence is gone are left.
LeaveStale(fs, ids, s, n, time) == fs

\* The open flags that are not raised are closed.
WithoutStale(fs, ids, s, n, time) ==
  CloseAll(fs, {i \in ids : n = 0 \/ fs[i].site # s}, "evidenceGone", time)

\* The flags seen that are still open are locked; the stale ones are closed.
Close(p) ==
  /\ Free(p, pass[p].seen)
  /\ LET found == pass[p].seen \intersect Open(View(p))
         kept == WithoutStale(View(p), found, pass[p].lead, pass[p].people, pass[p].time)
     IN Step(p, "closing", [pass[p] EXCEPT !.at = "closed", !.seen = found, !.rows = Holding(p, found, kept)])
  /\ UNCHANGED <<flags, opened>>

\* movedOrMorePeople, of a dismissal of the same place.
isWorthRaisingAgain(dismissed, n) == n > dismissed.people

\* A flag is opened unless the latest closed one is a dismissal of as much.
isWorthOpening(latest, n) == latest.reason = "dismissed" => isWorthRaisingAgain(latest, n)

\* loadLatestClosed, and what syncFlags will write.  Of flags closed at one time
\* any may have been closed last.
Weigh(p) ==
  /\ LET fs == View(p)
         n == pass[p].people
         latest == LatestClosed(fs, At(fs, pass[p].lead))
     IN \E isWorth \in IF latest = {} THEN {TRUE} ELSE {isWorthOpening(fs[i], n) : i \in latest} :
          LET raises == n > 0 /\ (Open(fs) \intersect pass[p].seen # {} \/ isWorth)
          IN Step(p, "closed", [pass[p] EXCEPT !.at = "weighed", !.seen = {}, !.raises = raises])
  /\ UNCHANGED <<flags, opened>>

\* The flags after a flag of n people is inserted at s or, where one is open,
\* written over it.
Raised(fs, s, n) ==
  LET open == Open(fs) \intersect At(fs, s)
  IN IF open # {} THEN [i \in DOMAIN fs |-> IF i \in open THEN [fs[i] EXCEPT !.people = n] ELSE fs[i]]
                  ELSE Append(fs, [site |-> s, reason |-> "open", people |-> n, closedAt |-> 0])

\* The passes that have looked for open flags.
HaveLooked == {p \in Passes : pass[p].at \in {"closing", "closed", "weighed"}}

\* The insert of syncFlags, and the commit.
Commit(p) ==
  /\ Step(p, "weighed", Idle)
  /\ pass[p].raises => Uncommitted(p, pass[p].lead) = {}
  /\ flags' = IF pass[p].raises THEN Raised(View(p), pass[p].lead, pass[p].people) ELSE View(p)
  /\ opened' = [q \in Passes |->
       CASE q = p -> {}
         [] q \in HaveLooked \ {p} -> opened[q] \union (DOMAIN flags' \ DOMAIN flags)
         [] OTHER -> opened[q]]

\* A pass ends without its writes: on a flag that is open where it moves one to,
\* on a deadlock, on a query that fails.
Fail(p) ==
  /\ pass[p].at # "idle"
  /\ Step(p, pass[p].at, Idle)
  /\ opened' = [opened EXCEPT ![p] = {}]
  /\ UNCHANGED flags

-----------------------------------------------------------------------------
(* Editors: updateFlag and closeAppliedFlags. *)

Change ==
  /\ changes < MaxChanges
  /\ changes' = changes + 1

\* No transaction of a pass has locked flag i: an editor waits for it.
Unlocked(i) == \A p \in Passes : i \notin DOMAIN pass[p].rows

\* An open flag is dismissed, or a dismissal gets another reason or note.
Dismiss(i) ==
  /\ Change
  /\ Unlocked(i)
  /\ i \in Held(flags)
  /\ flags' = CloseAll(flags, {i}, "dismissed", now)
  /\ UNCHANGED <<people, lead, pass, opened>>

\* A dismissed flag is reopened unless its subject has an open one, or gets one
\* from a pass that commits first.
Reopen(i) ==
  /\ Change
  /\ Unlocked(i)
  /\ flags[i].reason = "dismissed"
  /\ Open(flags) \intersect At(flags, flags[i].site) = {}
  /\ \A p \in Passes : Uncommitted(p, flags[i].site) = {}
  /\ flags' = [flags EXCEPT ![i].reason = "open", ![i].closedAt = 0]
  /\ opened' = [p \in Passes |-> IF p \in HaveLooked THEN opened[p] \union {i} ELSE opened[p]]
  /\ UNCHANGED <<people, lead, pass>>

\* The suggestion of an open flag is written to the database, which agrees
\* with the phones from then on.
Apply(i) ==
  /\ Change
  /\ Unlocked(i)
  /\ i \in Open(flags)
  /\ flags' = CloseAll(flags, {i}, "applied", now)
  /\ people' = 0
  /\ UNCHANGED <<lead, pass, opened>>

-----------------------------------------------------------------------------
(* What phones report, and how the engine groups the sites. *)

Measure ==
  /\ Change
  /\ people' \in (0 .. MaxPeople) \ {people}
  /\ UNCHANGED <<flags, lead, pass, opened>>

Regroup ==
  /\ Change
  /\ lead' \in Sites \ {lead}
  /\ UNCHANGED <<flags, people, pass, opened>>

-----------------------------------------------------------------------------
Next ==
  \/ \E p \in Passes :
       \/ Begin(p) \/ Look(p) \/ Move(p) \/ LookAgain(p) \/ Close(p)
       \/ Weigh(p) \/ Commit(p) \/ Fail(p)
  \/ \E i \in DOMAIN flags : Dismiss(i) \/ Reopen(i) \/ Apply(i)
  \/ Measure \/ Regroup

Spec == Init /\ [][Next]_vars

-----------------------------------------------------------------------------
(* Properties *)

Flag == [site : Sites, reason : Reasons, people : 1 .. MaxPeople, closedAt : Nat]

\* The type of the state.
TypeOK ==
  /\ \A i \in DOMAIN flags : flags[i] \in Flag
  /\ people \in 0 .. MaxPeople
  /\ lead \in Sites
  /\ \A p \in Passes :
       /\ pass[p].at \in {"idle", "read", "moving", "moved", "closing", "closed", "weighed"}
       /\ pass[p].lead \in Sites \union {0} /\ pass[p].people \in 0 .. MaxPeople
       /\ pass[p].time \in Nat /\ pass[p].raises \in BOOLEAN
       /\ pass[p].seen \subseteq DOMAIN flags /\ DOMAIN pass[p].rows \subseteq DOMAIN flags
       /\ \A i \in DOMAIN pass[p].rows : pass[p].rows[i] \in Flag
       /\ opened[p] \subseteq DOMAIN flags
  /\ changes \in 0 .. MaxChanges

\* What the flags fs say of the evidence, those in a set aside: none is open
\* without it, and with it one is open at the lead, unless at least as many
\* people were dismissed or a flag of the set was open at some time.
Settled(fs, s, n, aside) ==
  /\ \A i \in Open(fs) \ aside : fs[i].site = s /\ n > 0 /\ fs[i].people = n
  /\ n > 0 => \/ \E i \in Open(fs) : fs[i].site = s /\ fs[i].people = n
              \/ \E i \in DOMAIN fs : fs[i].reason = "dismissed" /\ fs[i].people >= n
              \/ aside # {}

\* "The server raises flags by itself and resolves each one once the database
\* and the phones agree": a pass that commits while what it read is current
\* leaves in line with it every flag but those that another pass or an editor
\* opened after it had looked for the open ones.  The flags that editors, stale
\* passes and other leads have left before are settled whatever overlapped.
CurrentPassSettles ==
  [][\A p \in Passes :
       Commit(p) /\ pass[p].lead = lead /\ pass[p].people = people
         => Settled(flags', lead, people, opened[p])]_vars

=============================================================================
