------------------------- MODULE WatchNotifications -------------------------
(***************************************************************************)
(* The notifications of the people who watch a station, for one station    *)
(* and one type of event (features/notifications).  An event is written    *)
(* as a new notification or merged into the unread one of the user, which  *)
(* a partial unique index keeps single.  The scheduler sends a push of     *)
(* what is queued, the oldest first, and marks it as sent afterwards.      *)
(*                                                                         *)
(* Every statement commits by itself: this is the path of the events that  *)
(* the routes report (cells, photos, comments), not of an import, which    *)
(* notifies in its own transaction.                                        *)
(***************************************************************************)
EXTENDS Integers, FiniteSets, FiniteSetsExt

CONSTANTS
  Events,      \* the events about the station, one call per watcher of it
  Users,
  UserOf,      \* the watcher each call is for
  Deliveries,  \* the delivery tasks that can be under way at once
  Limit,       \* how many notifications a delivery takes
  MaxCloses    \* bound: how often a user reads or deletes a notification

NotificationsAssumption ==
  /\ UserOf \in [Events -> Users]
  /\ Limit \in Nat \ {0}
  /\ MaxCloses \in Nat

VARIABLES
  row,      \* the notifications, each named by the event that created it
  pc,       \* where the call of each event is
  retries,  \* the retries it has left
  seen,     \* the notification it has selected, and that one's metadata
  now,      \* the time its attempt has started
  clock,    \* the attempts started so far: the order of pushQueuedAt
  batch,    \* the notifications each delivery has taken, as it read them
  ok,       \* those of them whose push arrived
  told,     \* ghost: the events that a push has told
  late,     \* ghost: the events merged while a delivery had their row
  raced,    \* ghost: the events merged while another call had read the
            \* metadata of their row and not yet written them
  closes    \* ghost: how many notifications of its user were read or deleted
            \* since the call of an event began

callVars == <<pc, retries, seen, now, clock>>
deliveryVars == <<batch, ok>>
ghosts == <<told, late, raced, closes>>
vars == <<row, callVars, deliveryVars, ghosts>>

\* Of the events merged into a row, its metadata count those that no other
\* call has overwritten.
NoRow == [state |-> "none", counted |-> {}, merged |-> {}, queuedAt |-> 0, sent |-> FALSE]

NothingSeen == [row |-> {}, counted |-> {}]

COALESCE_RETRIES == 1

\* The notifications of user u that are unread: by the index, one at most.
Unread(u) == {e \in Events : UserOf[e] = u /\ row[e].state = "unread"}

\* A delivery has taken notification r and not yet marked it.
InHand(r) == \E d \in Deliveries : \E b \in batch[d] : b.row = r

\* The calls that have selected notification r and not yet written it.
Writers(r) == {e \in Events : r \in seen[e].row}

Init ==
  /\ row = [e \in Events |-> NoRow]
  /\ pc = [e \in Events |-> "start"]
  /\ retries = [e \in Events |-> COALESCE_RETRIES]
  /\ seen = [e \in Events |-> NothingSeen]
  /\ now = [e \in Events |-> 0]
  /\ clock = 0
  /\ batch = [d \in Deliveries |-> {}]
  /\ ok = [d \in Deliveries |-> {}]
  /\ told = {}
  /\ late = {}
  /\ raced = {}
  /\ closes = [e \in Events |-> 0]

-----------------------------------------------------------------------------
(* An event: coalesceOrCreateStationNotification. *)

\* INSERT ... ON CONFLICT DO NOTHING.
Insert(e) ==
  /\ pc[e] = "start"
  /\ clock' = clock + 1
  /\ now' = [now EXCEPT ![e] = clock']
  /\ \/ /\ Unread(UserOf[e]) = {}
        /\ row' = [row EXCEPT ![e] = [state |-> "unread", counted |-> {e}, merged |-> {e},
                                      queuedAt |-> clock', sent |-> FALSE]]
        /\ pc' = [pc EXCEPT ![e] = "done"]
     \/ /\ Unread(UserOf[e]) # {}
        /\ pc' = [pc EXCEPT ![e] = "select"]
        /\ UNCHANGED row
  /\ UNCHANGED <<retries, seen, deliveryVars, ghosts>>

\* The notification was gone by the time it was to be read or written.
Again(e) ==
  IF retries[e] > 0
  THEN /\ pc' = [pc EXCEPT ![e] = "start"]
       /\ retries' = [retries EXCEPT ![e] = @ - 1]
  ELSE /\ pc' = [pc EXCEPT ![e] = "failed"]
       /\ UNCHANGED retries

Select(e) ==
  /\ pc[e] = "select"
  /\ \/ \E r \in Unread(UserOf[e]) :
          /\ seen' = [seen EXCEPT ![e] = [row |-> {r}, counted |-> row[r].counted]]
          /\ pc' = [pc EXCEPT ![e] = "update"]
          /\ UNCHANGED retries
     \/ /\ Unread(UserOf[e]) = {}
        /\ Again(e)
        /\ UNCHANGED seen
  /\ UNCHANGED <<row, now, clock, deliveryVars, ghosts>>

\* Mutant: the metadata are replaced by those of the event.
MergedOver(e, r) ==
  [row[r] EXCEPT !.counted = {e},
                 !.merged = @ \union {e},
                 !.queuedAt = now[e],
                 !.sent = FALSE]

\* The row after an event is merged into it: the metadata are those that the
\* call has read, with its own event added (mergeMetadata).
Merged(e, r) ==
  [row[r] EXCEPT !.counted = seen[e].counted \union {e},
                 !.merged = @ \union {e},
                 !.queuedAt = now[e],
                 !.sent = FALSE]

\* UPDATE ... WHERE read_at IS NULL.
Update(e) ==
  /\ pc[e] = "update"
  /\ \E r \in seen[e].row :
       \/ /\ row[r].state = "unread"
          /\ row' = [row EXCEPT ![r] = Merged(e, r)]
          /\ pc' = [pc EXCEPT ![e] = "done"]
          /\ late' = IF InHand(r) THEN late \union {e} ELSE late
          /\ raced' = IF Writers(r) \ {e} # {} THEN raced \union {e} ELSE raced
          /\ UNCHANGED retries
       \/ /\ row[r].state # "unread"
          /\ Again(e)
          /\ UNCHANGED <<row, late, raced>>
  /\ seen' = [seen EXCEPT ![e] = NothingSeen]
  /\ UNCHANGED <<now, clock, deliveryVars, told, closes>>

-----------------------------------------------------------------------------
(* The user marks a notification as read, or deletes it. *)

Closed(u) == {r \in Events : UserOf[r] = u /\ row[r].state \in {"read", "deleted"}}

Close(r, state) ==
  /\ row[r].state = "read" \/ Cardinality(Closed(UserOf[r])) < MaxCloses
  /\ row' = [row EXCEPT ![r].state = state]
  /\ closes' = [e \in Events |->
                 IF row[r].state = "unread" /\ UserOf[e] = UserOf[r] /\ now[e] > 0
                 THEN closes[e] + 1 ELSE closes[e]]
  /\ UNCHANGED <<callVars, deliveryVars, told, late, raced>>

MarkRead(r) == row[r].state = "unread" /\ Close(r, "read")

Delete(r) == row[r].state \in {"unread", "read"} /\ Close(r, "deleted")

-----------------------------------------------------------------------------
(* A delivery: deliverQueuedStationWatchNotifications. *)

Queued == {r \in Events : row[r].state = "unread" /\ ~row[r].sent}

\* The Limit notifications that have been queued the longest.
OldestQueued ==
  {r \in Queued : Cardinality({q \in Queued : row[q].queuedAt < row[r].queuedAt}) < Limit}

Fetch(d) ==
  /\ batch[d] = {}
  /\ Queued # {}
  /\ batch' = [batch EXCEPT ![d] = {[row |-> r, counted |-> row[r].counted] : r \in OldestQueued}]
  /\ UNCHANGED <<row, callVars, ok, ghosts>>

\* The push of a notification, whose text is made from the metadata that the
\* delivery has read, arrives at a device of its user, or the user has none.
\* One that fails is left for the next delivery.
Push(d, b) ==
  /\ b \in batch[d]
  /\ b.row \notin ok[d]
  /\ ok' = [ok EXCEPT ![d] = @ \union {b.row}]
  /\ told' = told \union b.counted
  /\ UNCHANGED <<row, callVars, batch, late, raced, closes>>

\* UPDATE ... SET push_sent_at, for the rows whose push arrived.  A row that
\* was deleted meanwhile is not there to be marked.
MarkSent(d) ==
  /\ batch[d] # {}
  /\ row' = [r \in Events |->
              IF r \in ok[d] /\ row[r].state \in {"unread", "read"}
              THEN [row[r] EXCEPT !.sent = TRUE] ELSE row[r]]
  /\ batch' = [batch EXCEPT ![d] = {}]
  /\ ok' = [ok EXCEPT ![d] = {}]
  /\ UNCHANGED <<callVars, ghosts>>

\* The process of the scheduler ends between the push and the mark.
Crash(d) ==
  /\ batch[d] # {}
  /\ batch' = [batch EXCEPT ![d] = {}]
  /\ ok' = [ok EXCEPT ![d] = {}]
  /\ UNCHANGED <<row, callVars, ghosts>>

-----------------------------------------------------------------------------
Call(e) == Insert(e) \/ Select(e) \/ Update(e)

Deliver(d) == Fetch(d) \/ (\E b \in batch[d] : Push(d, b)) \/ MarkSent(d)

Next ==
  \/ \E e \in Events : Call(e)
  \/ \E r \in Events : MarkRead(r) \/ Delete(r)
  \/ \E d \in Deliveries : Deliver(d) \/ Crash(d)

Spec == Init /\ [][Next]_vars

-----------------------------------------------------------------------------
(* Properties *)

\* The type of the state.
TypeOK ==
  /\ row \in [Events -> [state : {"none", "unread", "read", "deleted"},
                         counted : SUBSET Events, merged : SUBSET Events,
                         queuedAt : Nat, sent : BOOLEAN]]
  /\ pc \in [Events -> {"start", "select", "update", "done", "failed"}]
  /\ retries \in [Events -> 0 .. COALESCE_RETRIES]
  /\ seen \in [Events -> [row : SUBSET Events, counted : SUBSET Events]]
  /\ now \in [Events -> Nat]
  /\ clock \in Nat
  /\ batch \in [Deliveries -> SUBSET [row : Events, counted : SUBSET Events]]
  /\ ok \in [Deliveries -> SUBSET Events]
  /\ told \subseteq Events
  /\ late \subseteq Events
  /\ raced \subseteq Events
  /\ closes \in [Events -> Nat]

\* Where the events about a watched station can be lost.  One is given up
\* ("Failed to create station notification") only if the user has read or
\* deleted two notifications while it was being written.  The metadata of an
\* unread notification, of which the text of its push is made, count every
\* event merged into it but those merged between the read and the write of
\* another call, which overwrites them; and it counts as sent only once a push
\* has told its events, these excepted and those that were merged while a
\* delivery had it in hand.
EventsReachTheUser ==
  /\ TypeOK
  /\ \A e \in Events : pc[e] = "failed" => closes[e] >= 2
  /\ \A r \in Events :
       row[r].state = "unread" =>
         /\ row[r].merged \ raced \subseteq row[r].counted
         /\ row[r].sent => row[r].merged \ (late \union raced) \subseteq told

=============================================================================
