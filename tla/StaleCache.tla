----------------------------- MODULE StaleCache -----------------------------
(***************************************************************************)
(* One key of the shared cache (lib/staleCache.ts over Redis): a call      *)
(* answers with the fresh copy if there is one, and otherwise tries for    *)
(* the lock of the key.  With the lock it loads the value and stores it;   *)
(* without it, it answers with the stale copy, or waits for the value of   *)
(* the call that has the lock.  What is loaded is the version of the       *)
(* source at that moment.                                                  *)
(***************************************************************************)
EXTENDS Integers, FiniteSets

CONSTANTS
  Calls,       \* the calls, each with a lock token of its own
  MaxVersion   \* bound: the versions of the source

ASSUME ConstantsAssumption == MaxVersion \in Nat \ {0}

VARIABLES
  source,  \* the version of what is loaded
  copy,    \* the version in the cache, 0 for none
  fresh,   \* it is younger than the fresh time
  lock,    \* the token in the lock, {} for none
  pc,      \* where each call is
  cached,  \* the copy each call has found, 0 for none
  owns,    \* the call has been given the lock
  late,    \* the call has waited until its deadline
  value,   \* what it has loaded
  answer,  \* how it ended
  expired, \* ghost: the calls whose lock ran out before they ended
  newest   \* ghost: the newest version that has been in the cache

callVars == <<pc, cached, owns, late, value, answer>>
ghostVars == <<expired, newest>>
vars == <<source, copy, fresh, lock, callVars, ghostVars>>

Init ==
  /\ source = 1
  /\ copy = 0
  /\ fresh = FALSE
  /\ lock = {}
  /\ pc = [c \in Calls |-> "read"]
  /\ cached = [c \in Calls |-> 0]
  /\ owns = [c \in Calls |-> FALSE]
  /\ late = [c \in Calls |-> FALSE]
  /\ value = [c \in Calls |-> 0]
  /\ answer = [c \in Calls |-> "none"]
  /\ expired = {}
  /\ newest = 0

Goto(c, label) == pc' = [pc EXCEPT ![c] = label]

\* The call ends with an answer, or, if it holds the lock, once it has
\* released it.
Answer(c, how) ==
  /\ answer' = [answer EXCEPT ![c] = how]
  /\ Goto(c, IF owns[c] THEN "release" ELSE "end")

-----------------------------------------------------------------------------
Read(c) ==
  /\ pc[c] = "read"
  /\ cached' = [cached EXCEPT ![c] = copy]
  /\ \/ copy # 0 /\ fresh /\ Answer(c, "fresh")
     \/ ~(copy # 0 /\ fresh) /\ Goto(c, "lock") /\ UNCHANGED answer
  /\ UNCHANGED <<source, copy, fresh, lock, owns, late, value, ghostVars>>

\* SET ... NX, and what is done with its result.
TryLock(c) ==
  /\ pc[c] = "lock"
  /\ \/ /\ lock = {}
        /\ lock' = {c}
        /\ owns' = [owns EXCEPT ![c] = TRUE]
        /\ Goto(c, "load")
        /\ UNCHANGED answer
     \/ /\ lock # {}
        /\ \/ cached[c] # 0 /\ Answer(c, "stale")
           \/ cached[c] = 0 /\ late[c] /\ Goto(c, "load") /\ UNCHANGED answer
           \/ cached[c] = 0 /\ ~late[c] /\ Goto(c, "wait") /\ UNCHANGED answer
        /\ UNCHANGED <<lock, owns>>
  /\ UNCHANGED <<source, copy, fresh, cached, late, value, ghostVars>>

\* A poll finds a value of another call.
Poll(c) ==
  /\ pc[c] = "wait"
  /\ copy # 0
  /\ Answer(c, IF fresh THEN "fresh" ELSE "stale")
  /\ UNCHANGED <<source, copy, fresh, lock, cached, owns, late, value, ghostVars>>

\* No value came while it waited: it tries for the lock again.
WaitOver(c) ==
  /\ pc[c] = "wait"
  /\ Goto(c, "lock")
  /\ UNCHANGED <<source, copy, fresh, lock, cached, owns, late, value, answer, ghostVars>>

\* Date.now() passes the lockWaitDeadline of a call that waits.
Deadline(c) ==
  /\ pc[c] = "wait"
  /\ late' = [late EXCEPT ![c] = TRUE]
  /\ UNCHANGED <<source, copy, fresh, lock, pc, cached, owns, value, answer, ghostVars>>

\* The stale copy in place of a value, or else the error.
Instead(c) == Answer(c, IF cached[c] # 0 THEN "stale" ELSE "thrown")

\* The loader returns a value, one that is not to be cached, or throws.
Load(c) ==
  /\ pc[c] = "load"
  /\ \/ /\ value' = [value EXCEPT ![c] = source]
        /\ Goto(c, "write")
        /\ UNCHANGED answer
     \/ Answer(c, IF cached[c] # 0 THEN "stale" ELSE "loaded") /\ UNCHANGED value
     \/ Instead(c) /\ UNCHANGED value
  /\ UNCHANGED <<source, copy, fresh, lock, cached, owns, late, ghostVars>>

\* The value is stored, or Redis fails.
Write(c) ==
  /\ pc[c] = "write"
  /\ \/ copy' = value[c] /\ fresh' = TRUE /\ Answer(c, "loaded")
        /\ newest' = (IF value[c] > newest THEN value[c] ELSE newest)
     \/ Instead(c) /\ UNCHANGED <<copy, fresh, newest>>
  /\ UNCHANGED <<source, lock, cached, owns, late, value, expired>>

\* Mutant: the lock is deleted, whoever's it is.
AnyLock(c) == {}

\* RELEASE_SCRIPT: the lock is deleted if it holds the token of the call.
WithoutLockOf(c) == lock \ {c}

\* The finally block: a failing release is ignored.
Release(c) ==
  /\ pc[c] = "release"
  /\ lock' \in {lock, WithoutLockOf(c)}
  /\ Goto(c, "end")
  /\ owns' = [owns EXCEPT ![c] = FALSE]
  /\ UNCHANGED <<source, copy, fresh, cached, late, value, answer, ghostVars>>

\* Redis does not answer a read or the request for the lock, which it may
\* have granted: the call throws.
Unavailable(c) ==
  /\ pc[c] \in {"read", "lock", "wait"}
  /\ lock' \in {lock} \union {l \in {{c}} : pc[c] = "lock" /\ lock = {}}
  /\ Answer(c, "unavailable")
  /\ UNCHANGED <<source, copy, fresh, cached, owns, late, value, ghostVars>>

-----------------------------------------------------------------------------
\* What is loaded changes.
Change ==
  /\ source < MaxVersion
  /\ source' = source + 1
  /\ UNCHANGED <<copy, fresh, lock, callVars, ghostVars>>

\* The fresh time of the copy ends, and then the time it is kept.
Age ==
  /\ copy # 0
  /\ fresh' = FALSE
  /\ copy' \in IF fresh THEN {copy} ELSE {0}
  /\ UNCHANGED <<source, lock, callVars, ghostVars>>

\* The expiry of the lock in Redis.
LockExpires ==
  /\ lock # {}
  /\ lock' = {}
  /\ expired' = expired \union {c \in lock : pc[c] # "end"}
  /\ UNCHANGED <<source, copy, fresh, callVars, newest>>

\* An administrator's change of what is cached deletes the copy.
Forget ==
  /\ copy # 0
  /\ copy' = 0
  /\ fresh' = FALSE
  /\ UNCHANGED <<source, lock, callVars, ghostVars>>

Step(c) ==
  \/ Read(c) \/ TryLock(c) \/ Poll(c) \/ WaitOver(c)
  \/ Load(c) \/ Write(c) \/ Release(c)

Next ==
  \/ \E c \in Calls : Step(c) \/ Deadline(c) \/ Unavailable(c)
  \/ Change \/ Age \/ Forget \/ LockExpires

Spec == Init /\ [][Next]_vars

-----------------------------------------------------------------------------
(* Properties *)

\* The type of the state.
TypeOK ==
  /\ source \in 1 .. MaxVersion
  /\ copy \in 0 .. MaxVersion
  /\ fresh \in BOOLEAN
  /\ lock \subseteq Calls /\ Cardinality(lock) <= 1
  /\ pc \in [Calls -> {"read", "lock", "wait", "load", "write", "release", "end"}]
  /\ cached \in [Calls -> 0 .. MaxVersion]
  /\ owns \in [Calls -> BOOLEAN]
  /\ late \in [Calls -> BOOLEAN]
  /\ value \in [Calls -> 0 .. MaxVersion]
  /\ answer \in [Calls -> {"none", "fresh", "stale", "loaded", "thrown", "unavailable"}]
  /\ expired \subseteq Calls
  /\ newest \in 0 .. MaxVersion

\* A call keeps the lock it was given until it releases it or it expires: the
\* late release of a call whose lock has expired does not end another's.
UnexpiredLockHeld ==
  \A c \in Calls : owns[c] /\ c \notin expired => lock = {c}

\* A call that has found a copy does not fail because the loader or the write
\* of its value fails.  As long as no lock has expired under a call and nobody
\* has given up waiting, the cache never goes back to an older version.
CopiesServeAndStay ==
  /\ \A c \in Calls : answer[c] = "thrown" => cached[c] = 0
  /\ (expired = {} /\ \A c \in Calls : ~late[c]) => copy \in {0, newest}

\* What a lock and a copy are for: loads run under a lock that is theirs, and
\* copies stand in for failed loads and are not undone by slow ones.
CacheIsSound == TypeOK /\ UnexpiredLockHeld /\ CopiesServeAndStay

=============================================================================
