---------------------------- MODULE ImportLease ----------------------------
(***************************************************************************)
(* What the run table promises to the pipeline that works under it.  Each  *)
(* run is a lease on its source: granted to one attempt (epoch) at a time, *)
(* returned, withdrawn or ended; whatever is committed for the run is      *)
(* committed under the epoch that holds it.  No process, token, heartbeat  *)
(* or lock appears here: ImportRuns shows that those implement it.         *)
(***************************************************************************)
EXTENDS Integers, Sequences

CONSTANTS Runs, MaxAttempts, MaxLog, Ended

VARIABLES phase, source, epoch, log

leaseVars == <<phase, source, epoch, log>>

Init ==
  /\ phase = [r \in Runs |-> "none"]
  /\ epoch = [r \in Runs |-> 0]
  /\ log = [r \in Runs |-> <<>>]

Moves(r, from, to) == phase[r] \in from /\ phase' = [phase EXCEPT ![r] = to]

Enqueue(r) == Moves(r, {"none"}, "queued") /\ UNCHANGED <<source, epoch, log>>

\* A new attempt takes a run nobody works on, or one whose holder is silent.
Grant(r) ==
  /\ epoch[r] < MaxAttempts
  /\ \A q \in Runs \ {r} : source[q] = source[r] => phase[q] # "running"
  /\ Moves(r, {"queued", "running"}, "running")
  /\ epoch' = [epoch EXCEPT ![r] = @ + 1]
  /\ UNCHANGED <<source, log>>

\* A run that used up its attempts is given up.
Abandon(r) ==
  /\ epoch[r] = MaxAttempts
  /\ Moves(r, {"queued", "running"}, "failed")
  /\ UNCHANGED <<source, epoch, log>>

\* Work is committed under the epoch that holds the lease.
Work(r) ==
  /\ phase[r] = "running"
  /\ log' = [log EXCEPT ![r] = Append(@, epoch[r])]
  /\ UNCHANGED <<phase, source, epoch>>

Return(r) == Moves(r, {"running"}, "queued") /\ UNCHANGED <<source, epoch, log>>

End(r) ==
  /\ \E to \in {"done", "failed", "gone"} : Moves(r, {"running"}, to)
  /\ UNCHANGED <<source, epoch, log>>

Cancel(r) ==
  /\ Moves(r, {"queued", "running"}, "cancelled")
  /\ UNCHANGED <<source, epoch, log>>

\* Old ended runs are deleted together.
Prune ==
  /\ \A r \in Runs : \/ phase'[r] = phase[r]
                     \/ phase[r] \in Ended /\ phase'[r] = "gone"
  /\ phase' \in [Runs -> {"none", "queued", "running", "gone"} \cup Ended]
  /\ UNCHANGED <<source, epoch, log>>

Next ==
  \/ \E r \in Runs : \/ Enqueue(r) \/ Grant(r) \/ Abandon(r) \/ Work(r)
                     \/ Return(r) \/ End(r) \/ Cancel(r)
  \/ Prune

Spec == Init /\ [][Next]_leaseVars

=============================================================================
