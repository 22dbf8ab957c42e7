---------------------------- MODULE AuditRevert ----------------------------
(***************************************************************************)
(* The audit log and its reverts (features/audit). A change of a record    *)
(* is logged as an entry of an operation; requests that send one client    *)
(* key share an operation. A revert is an operation too: it puts back the  *)
(* old values of the entries chosen, and marks the operation as reverted   *)
(* once all its entries are.                                               *)
(*                                                                         *)
(* A change runs READ COMMITTED: it joins its operation, whose row it      *)
(* locks and updates; it reads the record; it writes the record with the   *)
(* entry and commits. A revert runs REPEATABLE READ: it sees the state at  *)
(* its first statement, and fails on a row that was updated since. What it *)
(* must not touch is kept as the set of rows that have changed under it.   *)
(*                                                                         *)
(* A record has one field. Every entry is an update; creations, deletions  *)
(* and the strategies of the entities differ in what they write back.      *)
(***************************************************************************)
EXTENDS Integers, Sequences, FiniteSets

CONSTANTS Records, Values, Initial,
          Keys,            \* the client keys sent with requests
          Writers, Reverters,
          MaxOperations, MaxEntries   \* bounds on the log

NoKey == "no key"
None == 0

AuditRevertAssumption ==
    /\ Initial \in Values /\ NoKey \notin Keys /\ "operation" \notin Records
    /\ MaxOperations \in Nat \ {0} /\ MaxEntries \in Nat \ {0}

VARIABLES value,       \* the records
          ops,         \* audit_operations, by id
          entries,     \* audit_logs, by id
          tx,          \* the changes under way
          rev          \* the reverts under way

vars == <<value, ops, entries, tx, rev>>

Entry == [op : 1..MaxOperations, rec : Records, old : Values, new : Values,
          reverts : 0..MaxEntries,   \* metadata.reverts_entry_id
          whole : BOOLEAN]           \* no field was left out (skipped_fields)
Operation == [key : Keys \cup {NoKey}, reverts : 0..MaxOperations, by : 0..MaxOperations,
              partial : SUBSET (1..MaxOperations), expired : BOOLEAN]
NoTx == [at |-> "idle", key |-> NoKey, op |-> None, rec |-> None, old |-> Initial]
NoRevert == [at |-> "idle", op |-> None, chosen |-> {}, seen |-> {}, saw |-> [x \in Records |-> Initial],
             force |-> FALSE, changed |-> {}]

TypeOK ==
    /\ value \in [Records -> Values]
    /\ ops \in Seq(Operation) /\ Len(ops) <= MaxOperations
    /\ \A o, p \in DOMAIN ops : ops[o].key = ops[p].key /\ ops[o].key # NoKey => o = p
    /\ entries \in Seq(Entry) /\ Len(entries) <= MaxEntries
    /\ \A i \in DOMAIN entries : entries[i].op \in DOMAIN ops /\ entries[i].reverts < i
    /\ tx \in [Writers -> [at : {"idle", "joined", "read"}, key : Keys \cup {NoKey}, op : {None} \cup DOMAIN ops,
                           rec : Records \cup {None}, old : Values]]
    /\ rev \in [Reverters -> [at : {"idle", "begun", "locked"}, op : {None} \cup DOMAIN ops, chosen : SUBSET DOMAIN entries,
                              seen : SUBSET DOMAIN entries, saw : [Records -> Values], force : BOOLEAN,
                              changed : SUBSET (Records \cup {"operation"})]]

Init ==
    /\ value = [x \in Records |-> Initial]
    /\ ops = <<>> /\ entries = <<>>
    /\ tx = [w \in Writers |-> NoTx] /\ rev = [r \in Reverters |-> NoRevert]

Of(o) == {i \in DOMAIN entries : entries[i].op = o}

\* A commit changes rows under the reverts that have begun.
Disturb(others, recs, o) ==
    rev' = [r \in Reverters |->
               IF r \notin others THEN NoRevert
               ELSE IF rev[r].at = "idle" THEN rev[r]
               ELSE [rev[r] EXCEPT !.changed = @ \cup recs \cup (IF rev[r].op = o THEN {"operation"} ELSE {})]]

-----------------------------------------------------------------------------
(* Changes *)

canJoinOperation(o) ==
    /\ ops[o].reverts = None /\ ops[o].by = None /\ ops[o].partial = {}
    /\ ~ops[o].expired

\* The operation with the key is joined if it may be; else the change gets one
\* of its own, without the key when another one has it. The advisory lock
\* keeps a second request with the key waiting, the row lock a revert.
ensureOperation(w, k) ==
    LET existing == {o \in DOMAIN ops : k # NoKey /\ ops[o].key = k}
    IN /\ tx[w] = NoTx
       /\ k # NoKey => \A v \in Writers : tx[v].key # k
       /\ \A r \in Reverters : rev[r].at = "locked" => rev[r].op \notin existing
       /\ tx' = [tx EXCEPT ![w] = [NoTx EXCEPT !.at = "joined",
              !.key = k,
              !.op = IF \E o \in existing : canJoinOperation(o) THEN CHOOSE o \in existing : TRUE ELSE None]]
       /\ UNCHANGED <<value, ops, entries, rev>>

\* The record is read without a lock.
readCurrent(w, x) ==
    /\ tx[w].at = "joined"
    /\ tx' = [tx EXCEPT ![w].at = "read", ![w].rec = x, ![w].old = value[x]]
    /\ UNCHANGED <<value, ops, entries, rev>>

createOperation(k) ==
    [key |-> IF \E o \in DOMAIN ops : ops[o].key = k THEN NoKey ELSE k,
     reverts |-> None, by |-> None, partial |-> {}, expired |-> FALSE]

\* Mutant: a change locks the operation it joins and does not update its row.
touchNothing(o) == None
\* The row of a joined operation is updated, although nothing in it changes.
touched(o) == o

\* The record is written and logged, and the transaction commits.
runAuditedOperation(w, v) ==
    LET t == tx[w]
        o == IF t.op = None THEN Len(ops) + 1 ELSE t.op
    IN /\ t.at = "read"
       /\ o <= MaxOperations /\ Len(entries) < MaxEntries
       /\ value' = [value EXCEPT ![t.rec] = v]
       /\ ops' = IF t.op = None THEN Append(ops, createOperation(t.key)) ELSE ops
       /\ entries' = Append(entries, [op |-> o, rec |-> t.rec, old |-> t.old, new |-> v, reverts |-> None, whole |-> TRUE])
       /\ Disturb(Reverters, {t.rec}, touched(o))
       /\ tx' = [tx EXCEPT ![w] = NoTx]

\* A request that changes nothing, or fails, leaves no trace. The update of
\* the operation's row is rolled back or of no matter.
abandon(w) ==
    /\ tx[w].at # "idle"
    /\ tx' = [tx EXCEPT ![w] = NoTx]
    /\ UNCHANGED <<value, ops, entries, rev>>

\* An hour has passed since the operation was created.
expireKey(o) ==
    /\ ops[o].key # NoKey /\ ~ops[o].expired
    /\ ops' = [ops EXCEPT ![o].expired = TRUE]
    /\ UNCHANGED <<value, entries, tx, rev>>

-----------------------------------------------------------------------------
(* Reverts *)

\* An entry that changed something.
snapshotsDiffer(i) == entries[i].old # entries[i].new
\* The entries of o that a revert has put back, and those of which it left a field out.
loadActiveRevertCoverage(es, o) ==
    {i \in 1..Len(es) : es[i].op = o /\ \E j \in 1..Len(es) : es[j].reverts = i}
incompleteEntryIds(es, o) ==
    {i \in loadActiveRevertCoverage(es, o) : \A j \in 1..Len(es) : es[j].reverts = i => ~es[j].whole}

\* The revert is requested and its transaction takes its snapshot.
beginRevert(r, o, chosen, force) ==
    /\ rev[r] = NoRevert
    /\ ops[o].by = None
    /\ chosen # {} /\ chosen \subseteq Of(o)
    /\ rev' = [rev EXCEPT ![r] = [at |-> "begun", op |-> o, chosen |-> chosen, seen |-> Of(o), saw |-> value,
                                    force |-> force, changed |-> {}]]
    /\ UNCHANGED <<value, ops, entries, tx>>

\* FOR NO KEY UPDATE waits for whoever holds the row, and fails if it has changed.
lockTarget(r) ==
    /\ rev[r].at = "begun"
    /\ \A w \in Writers : tx[w].op # rev[r].op
    /\ \A q \in Reverters : rev[q].at = "locked" => rev[q].op # rev[r].op
    /\ rev' = [rev EXCEPT ![r] = IF "operation" \in @.changed THEN NoRevert ELSE [@ EXCEPT !.at = "locked"]]
    /\ UNCHANGED <<value, ops, entries, tx>>

\* What the snapshot has of the chosen entries that can still be reverted.
available(r) ==
    {i \in rev[r].chosen : ops[rev[r].op].reverts = None /\ snapshotsDiffer(i)} \ loadActiveRevertCoverage(entries, rev[r].op)

\* Without force, a record that is not as the entry left it is a conflict.
resolvePlans(r) == rev[r].force \/ \A i \in available(r) : rev[r].saw[entries[i].rec] = entries[i].new

\* A row that was updated after the snapshot cannot be updated.
fresh(r) == \A i \in available(r) : entries[i].rec \notin rev[r].changed

\* The newest entry is undone first, so a record ends with the oldest one's value.
restored(r) ==
    [x \in Records |->
        LET mine == {i \in available(r) : entries[i].rec = x}
        IN IF mine = {} THEN value[x] ELSE entries[CHOOSE i \in mine : \A j \in mine : i <= j].old]

\* The entries of the revert, newest first; "dropped" lost a field that refers to
\* what no longer exists.
inverse(r, dropped) ==
    LET n == Cardinality(available(r))
        nth(k) == CHOOSE i \in available(r) : Cardinality({j \in available(r) : j >= i}) = k
    IN [k \in 1..n |-> [op |-> Len(ops) + 1, rec |-> entries[nth(k)].rec, old |-> rev[r].saw[entries[nth(k)].rec],
                        new |-> restored(r)[entries[nth(k)].rec], reverts |-> nth(k), whole |-> nth(k) \notin dropped]]

\* The markers of operation o, from what its reverts cover of the entries seen.
recomputeMarkerChain(es, o, id, seen) ==
    LET covered == loadActiveRevertCoverage(es, o) \ incompleteEntryIds(es, o)
        full == {i \in seen : snapshotsDiffer(i)} \subseteq covered
    IN [ops[o] EXCEPT !.by = IF full THEN id ELSE None,
                      !.partial = IF full THEN {} ELSE {es[j].op : j \in {k \in 1..Len(es) : es[k].reverts \in Of(o)}}]

applyRevert(r, dropped) ==
    LET o == rev[r].op
        id == Len(ops) + 1
        es == entries \o inverse(r, dropped)
    IN /\ rev[r].at = "locked"
       /\ available(r) # {} /\ resolvePlans(r) /\ fresh(r)
       /\ dropped \subseteq available(r) /\ (dropped # {} => rev[r].force)
       /\ id <= MaxOperations /\ Len(es) <= MaxEntries
       /\ entries' = es
       /\ value' = restored(r)
       /\ ops' = Append([ops EXCEPT ![o] = recomputeMarkerChain(es, o, id, rev[r].seen)],
                        [key |-> NoKey, reverts |-> o, by |-> None, partial |-> {}, expired |-> FALSE])
       /\ Disturb(Reverters \ {r}, {entries[i].rec : i \in available(r)}, o)
       /\ UNCHANGED tx

\* Nothing to revert, a conflict, or a failure.
refuse(r) ==
    /\ rev[r].at # "idle"
    /\ rev' = [rev EXCEPT ![r] = NoRevert]
    /\ UNCHANGED <<value, ops, entries, tx>>

-----------------------------------------------------------------------------
Next ==
    \/ \E w \in Writers :
          \/ \E k \in Keys \cup {NoKey} : ensureOperation(w, k)
          \/ \E x \in Records : readCurrent(w, x)
          \/ \E v \in Values : runAuditedOperation(w, v)
          \/ abandon(w)
    \/ \E o \in DOMAIN ops : expireKey(o)
    \/ \E r \in Reverters :
          \/ \E o \in DOMAIN ops : \E chosen \in SUBSET Of(o), force \in BOOLEAN : beginRevert(r, o, chosen, force)
          \/ lockTarget(r)
          \/ \E dropped \in SUBSET rev[r].chosen : applyRevert(r, dropped)
          \/ refuse(r)

Spec == Init /\ [][Next]_vars

-----------------------------------------------------------------------------
(* Properties *)

Reverting(o) == {j \in DOMAIN entries : entries[j].reverts \in Of(o)}

\* An operation is marked as reverted exactly when every entry of it that
\* changed something has been put back in full, and as reverted in part when
\* some were: no entry that came while the revert ran is taken for reverted.
MarkersTellCoverage ==
    \A o \in DOMAIN ops :
        LET due == {i \in Of(o) : snapshotsDiffer(i)}
            done == {i \in due : \E j \in DOMAIN entries : entries[j].reverts = i /\ entries[j].whole}
        IN ops[o].reverts = None =>
              /\ ops[o].by # None <=> due # {} /\ due = done
              /\ ops[o].partial # {} <=> Reverting(o) # {} /\ due # done

\* No entry is put back twice.
RevertedAtMostOnce ==
    \A i, j \in DOMAIN entries : entries[i].reverts = entries[j].reverts /\ entries[i].reverts # None => i = j

\* An operation of which anything has been reverted gets no more entries.
ClosedOnceReverted ==
    [][\A o \in DOMAIN ops : Reverting(o) # {} => Of(o)' = Of(o)]_vars

\* A revert that is not forced overwrites only what the entries it puts back
\* have written, whoever edits the records while it runs.
LaterEditsSurvive ==
    \A j \in DOMAIN entries' \ DOMAIN entries :
        LET i == entries'[j].reverts
            unforced == \A r \in Reverters : rev[r].op = entries[i].op /\ rev[r].at = "locked" => ~rev[r].force
        IN i # None /\ unforced => value[entries[i].rec] = entries[i].new

=============================================================================
