-------------------------- MODULE RuntimeSettings --------------------------
(***************************************************************************)
(* The settings every server process keeps in memory                       *)
(* (lib/runtimeSettings.ts) and their update (features/settings/update.ts):*)
(* stored under one Redis key, published on a channel, read again by each  *)
(* process every minute, and changed under a Redis lock within an audited  *)
(* transaction.                                                            *)
(*                                                                         *)
(* Settings are the set of the patches they hold. Messages and replies     *)
(* come over two connections of a process, so either may come first; a     *)
(* connection that is lost loses the messages on it.                       *)
(***************************************************************************)
EXTENDS Integers, Sequences

CONSTANTS Processes, Patches, None,
          Seeded,       \* whether the key is set when the instance starts
          LockExpires,  \* whether an update may take longer than the lock lasts
          MaxUpdates, MaxFaults   \* bounds: updates; crashes and lost connections

SettingsAssumption == /\ {Seeded, LockExpires} \subseteq BOOLEAN
                             /\ {MaxUpdates, MaxFaults} \subseteq Nat
                             /\ None \notin Processes

VARIABLES stored,   \* the value under SETTINGS_KEY, or {} with isSet = FALSE
          isSet,
          memory,   \* inMemorySettings
          phase,    \* initRuntimeSettings: down, unset (read no value), read, up
          inbox,    \* messages on the way to each subscriber
          resync,   \* what a resynchronisation has read
          update,   \* the update each process is working on
          lock,     \* UPDATE_LOCK_KEY
          audited,  \* patches whose audited transaction is committed
          updates, faults

vars == <<stored, isSet, memory, phase, inbox, resync, update, lock, audited, updates, faults>>

NoUpdate == [at |-> "none", patch |-> None, base |-> {}]
NoResync == [read |-> FALSE, value |-> {}]

Init ==
    /\ stored = {} /\ isSet = Seeded
    /\ memory = [p \in Processes |-> {}]
    /\ phase = [p \in Processes |-> "down"]
    /\ inbox = [p \in Processes |-> <<>>]
    /\ resync = [p \in Processes |-> NoResync]
    /\ update = [p \in Processes |-> NoUpdate]
    /\ lock = None /\ audited = {} /\ updates = 0 /\ faults = 0

-----------------------------------------------------------------------------
(* A process starts *)

ReadAtStart(p) ==
    /\ phase[p] = "down"
    /\ phase' = [phase EXCEPT ![p] = IF isSet THEN "read" ELSE "unset"]
    /\ memory' = [memory EXCEPT ![p] = stored]
    /\ UNCHANGED <<stored, isSet, inbox, resync, update, lock, audited, updates, faults>>

SetDefault(p) ==
    /\ phase[p] = "unset"
    /\ stored' = {} /\ isSet' = TRUE
    /\ phase' = [phase EXCEPT ![p] = "read"]
    /\ UNCHANGED <<memory, inbox, resync, update, lock, audited, updates, faults>>

\* What was published between the reading and the subscription is missed.
Subscribe(p) ==
    /\ phase[p] = "read"
    /\ phase' = [phase EXCEPT ![p] = "up"]
    /\ UNCHANGED <<stored, isSet, memory, inbox, resync, update, lock, audited, updates, faults>>

-----------------------------------------------------------------------------
(* Messages and resynchronisation *)

Receive(p) ==
    /\ inbox[p] # <<>>
    /\ memory' = [memory EXCEPT ![p] = Head(inbox[p])]
    /\ inbox' = [inbox EXCEPT ![p] = Tail(@)]
    /\ UNCHANGED <<stored, isSet, phase, resync, update, lock, audited, updates, faults>>

\* Mutant: only a process that has settings of its own reads them again.
ReadsAgainChanged(p) == phase[p] = "up" /\ memory[p] # {}
ReadsAgain(p) == phase[p] = "up"

resyncRead(p) ==
    /\ ReadsAgain(p) /\ ~resync[p].read /\ isSet
    /\ resync' = [resync EXCEPT ![p] = [read |-> TRUE, value |-> stored]]
    /\ UNCHANGED <<stored, isSet, memory, phase, inbox, update, lock, audited, updates, faults>>

\* The value read replaces whatever the memory holds by now.
resyncApply(p) ==
    /\ resync[p].read
    /\ memory' = [memory EXCEPT ![p] = resync[p].value]
    /\ resync' = [resync EXCEPT ![p] = NoResync]
    /\ UNCHANGED <<stored, isSet, phase, inbox, update, lock, audited, updates, faults>>

-----------------------------------------------------------------------------
(* updateSettings *)

LockIsFree == lock = None

At(p, at) == update' = [update EXCEPT ![p].at = at]

\* An update that does not get the lock is refused.
acquireLock(p, patch) ==
    /\ phase[p] = "up" /\ update[p].at = "none"
    /\ updates < MaxUpdates
    /\ LockIsFree
    /\ lock' = p
    /\ updates' = updates + 1
    /\ update' = [update EXCEPT ![p] = [at |-> "locked", patch |-> patch, base |-> {}]]
    /\ UNCHANGED <<stored, isSet, memory, phase, inbox, resync, audited, faults>>

\* A patch that changes nothing ends the update, as a refused one does.
loadStored(p) ==
    LET base == IF isSet THEN stored ELSE memory[p] IN
    /\ update[p].at = "locked"
    /\ \E at \in {"loaded", "release"} :
          /\ update[p].patch \in base => at = "release"
          /\ update' = [update EXCEPT ![p].base = base, ![p].at = at]
    /\ UNCHANGED <<stored, isSet, memory, phase, inbox, resync, lock, audited, updates, faults>>

Merged(p) == update[p].base \cup {update[p].patch}

\* One Redis transaction sets the key and publishes the settings.
saveRuntimeSettings(p) ==
    /\ update[p].at = "loaded"
    /\ stored' = Merged(p) /\ isSet' = TRUE
    /\ inbox' = [q \in Processes |-> IF phase[q] = "up" THEN Append(inbox[q], Merged(p)) ELSE inbox[q]]
    /\ At(p, "saved")
    /\ UNCHANGED <<memory, phase, resync, lock, audited, updates, faults>>

\* The reply comes: the saver sets its own memory.
savedReply(p) ==
    /\ update[p].at = "saved"
    /\ memory' = [memory EXCEPT ![p] = Merged(p)]
    /\ At(p, "committing")
    /\ UNCHANGED <<stored, isSet, phase, inbox, resync, lock, audited, updates, faults>>

\* The audited transaction is committed, or fails after the settings are saved.
commitAudit(p) ==
    /\ update[p].at = "committing"
    /\ audited' = audited \cup {update[p].patch} \/ UNCHANGED audited
    /\ At(p, "release")
    /\ UNCHANGED <<stored, isSet, memory, phase, inbox, resync, lock, updates, faults>>

releaseLock(p) ==
    /\ update[p].at = "release"
    /\ lock' = IF lock = p THEN None ELSE lock
    /\ update' = [update EXCEPT ![p] = NoUpdate]
    /\ UNCHANGED <<stored, isSet, memory, phase, inbox, resync, audited, updates, faults>>

-----------------------------------------------------------------------------
(* Faults *)

\* The lock of a process that is gone expires; that of a slow one only where
\* LockExpires allows it.
expireLock ==
    /\ lock # None
    /\ LockExpires \/ update[lock].at = "none"
    /\ lock' = None
    /\ UNCHANGED <<stored, isSet, memory, phase, inbox, resync, update, audited, updates, faults>>

Crash(p) ==
    /\ phase[p] # "down"
    /\ faults < MaxFaults
    /\ faults' = faults + 1
    /\ phase' = [phase EXCEPT ![p] = "down"]
    /\ memory' = [memory EXCEPT ![p] = {}]
    /\ inbox' = [inbox EXCEPT ![p] = <<>>]
    /\ resync' = [resync EXCEPT ![p] = NoResync]
    /\ update' = [update EXCEPT ![p] = NoUpdate]
    /\ UNCHANGED <<stored, isSet, lock, audited, updates>>

\* The subscriber's connection is lost and made again.
Reconnect(p) ==
    /\ inbox[p] # <<>>
    /\ faults < MaxFaults
    /\ faults' = faults + 1
    /\ inbox' = [inbox EXCEPT ![p] = <<>>]
    /\ UNCHANGED <<stored, isSet, memory, phase, resync, update, lock, audited, updates>>

-----------------------------------------------------------------------------

Step(p) == \/ ReadAtStart(p) \/ SetDefault(p) \/ Subscribe(p)
           \/ loadStored(p) \/ saveRuntimeSettings(p) \/ savedReply(p) \/ commitAudit(p) \/ releaseLock(p)

Next == \/ \E p \in Processes : \/ Step(p) \/ Receive(p) \/ resyncRead(p) \/ resyncApply(p)
                                \/ Crash(p) \/ Reconnect(p)
                                \/ \E patch \in Patches : acquireLock(p, patch)
        \/ expireLock

\* Processes go on, messages arrive, and each process reads every minute.
Fairness == \A p \in Processes : WF_vars(Step(p)) /\ WF_vars(Receive(p)) /\ WF_vars(resyncRead(p) \/ resyncApply(p))

Spec == Init /\ [][Next]_vars
FairSpec == Spec /\ Fairness

-----------------------------------------------------------------------------

TypeOK ==
    /\ stored \subseteq Patches /\ isSet \in BOOLEAN
    /\ memory \in [Processes -> SUBSET Patches]
    /\ phase \in [Processes -> {"down", "unset", "read", "up"}]
    /\ \A p \in Processes : \A i \in 1 .. Len(inbox[p]) : inbox[p][i] \subseteq Patches
    /\ resync \in [Processes -> [read : BOOLEAN, value : SUBSET Patches]]
    /\ update \in [Processes -> [at : {"none", "locked", "loaded", "saved", "committing", "release"},
                                 patch : Patches \cup {None}, base : SUBSET Patches]]
    /\ lock \in Processes \cup {None}
    /\ audited \subseteq Patches /\ updates \in 0 .. MaxUpdates /\ faults \in 0 .. MaxFaults

\* In the end every process works with the settings that are stored, whatever
\* messages were missed, whichever reading came late and whoever crashed.
SettingsAgree ==
    <>[](TypeOK /\ \A p \in Processes : phase[p] = "up" /\ memory[p] = stored)
=============================================================================
