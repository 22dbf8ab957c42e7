-------------------------- MODULE ImportAfterSteps --------------------------
(***************************************************************************)
(* The after-steps of an import run: what is done once its datasets are    *)
(* imported, and done once although the run may change hands at any point: *)
(*   apps/server/src/features/official/import/afterSteps.ts and steps/*.   *)
(*                                                                         *)
(* Several workers may be in the steps of one run at a time: the one whose *)
(* claim is the latest, and those it replaced, which have not noticed yet. *)
(* The latter fail at their next ownership transaction (ImportRuns), but   *)
(* what they do outside of one (a push, a Redis message) still happens.    *)
(*                                                                         *)
(* The run is an import or a replay of a source of the home country, the   *)
(* one kind of run that does all of the steps (a source elsewhere sends no *)
(* push). A change is one that its watchers are told of (a permit more or  *)
(* less, a new site with permits) or a change of a link.                   *)
(*                                                                         *)
(* A site stands for an official site, for the one station that is linked  *)
(* to it (stations_official_sites is one to one), and for one permit of it.*)
(* The statistics, kmz and prune steps pass through with their             *)
(* transactions and without their effects.                                 *)
(***************************************************************************)
EXTENDS Integers, Sequences, FiniteSets

CONSTANTS
  Workers,
  MaxSite,      \* bound: the sites are 1 .. MaxSite, in the order of their ids
  PageSize,     \* SUMMARIES_PER_TRANSACTION, STATEMENT_BATCH_SIZE
  MaxAttempts   \* MAX_RUN_ATTEMPTS

ASSUME AfterStepsAssumption ==
  /\ MaxSite \in Nat
  /\ PageSize \in Nat \ {0}
  /\ MaxAttempts \in Nat \ {0}

Sites == 1 .. MaxSite

Steps == <<"unlisted_permits", "site_notifications", "links",
           "station_notifications", "orphans", "statistics", "push", "kmz",
           "publish", "prune">>

Positions == 1 .. Len(Steps)

VARIABLES
  \* the database
  runState,      \* "running", "done", "failed" or "cancelled"
  attempt,       \* the claims of the run, the latest of which owns it
  step,          \* step[i]: import_run_steps, "absent", "started" or "finished"
  lastSeq,       \* lastSeq[i]: its last_seq, 0 for NULL
  changes,       \* import_changes: <<kind, site>>, in the order of seq
  unlisted,      \* the sites whose permit is in no listing any more
  wrongLinks,    \* the sites whose station link does not follow the rule
  watched,       \* the sites that somebody watches
  datasets,      \* what they came to: a slice was "applied", or else one
                 \*   "failed", or "nothing" is to be announced
  siteNotes,     \* siteNotes[s]: notifications of site s to its watchers
  stationNotes,  \* stationNotes[s]: of the station linked to s
  \* the world
  pushes,        \* how often the push was sent
  published,     \* how often the completion was published
  \* the workers
  own,           \* own[w]: the attempt that w believes it owns, 0 for none
  pos,           \* pos[w]: the step it is in
  place,         \* place[w]: where in the step
  after,         \* after[w]: lastSeq, as it read it
  plan           \* plan[w][s]: lastSeq of the summary of s if pending, or 0

rowVars == <<step, lastSeq>>
dataVars == <<changes, unlisted, wrongLinks, watched, datasets, siteNotes, stationNotes>>
worldVars == <<pushes, published>>
workVars == <<own, pos, place, after, plan>>
vars == <<runState, attempt, rowVars, dataVars, worldVars, workVars>>

NoPlan == [s \in Sites |-> 0]

\* "start": about to start a step; "read", "pages", "act", "mark": in its
\* perform; "finish": about to record its end; "end": after the last step.
Places == {"idle", "start", "read", "pages", "act", "mark", "finish", "end"}

-----------------------------------------------------------------------------
\* An ownership transaction goes through.
Owns(w) == runState = "running" /\ own[w] = attempt

\* Worker w is at `where' of the step `name'.
In(w, name, where) == place[w] = where /\ Steps[pos[w]] = name

Goto(w, where) == place' = [place EXCEPT ![w] = where]

Leave(w) ==
  /\ own' = [own EXCEPT ![w] = 0]
  /\ pos' = [pos EXCEPT ![w] = 1]
  /\ place' = [place EXCEPT ![w] = "idle"]
  /\ after' = [after EXCEPT ![w] = 0]
  /\ plan' = [plan EXCEPT ![w] = NoPlan]

SetMax(S) == CHOOSE x \in S : \A y \in S : y <= x

\* The members of a set of sites by id: the only member of this set.
InOrder(S) == {q \in [1 .. Cardinality(S) -> S] :
                 /\ \A s \in S : \E i \in DOMAIN q : q[i] = s
                 /\ \A i, j \in DOMAIN q : i < j => q[i] < q[j]}

-----------------------------------------------------------------------------
\* The changes that the datasets left; the wrong links among the changed sites.
Init ==
  /\ runState = "running"
  /\ attempt = 0
  /\ step = [i \in Positions |-> "absent"]
  /\ lastSeq = [i \in Positions |-> 0]
  /\ \E changed \in SUBSET Sites :
       /\ \E q \in InOrder(changed) : changes = [i \in DOMAIN q |-> <<"site", q[i]>>]
       /\ unlisted \in SUBSET Sites
       /\ wrongLinks \in SUBSET (changed \cup unlisted)
  /\ watched \in SUBSET Sites
  /\ datasets \in {"applied", "failed", "nothing"}
  /\ siteNotes = [s \in Sites |-> 0]
  /\ stationNotes = [s \in Sites |-> 0]
  /\ pushes = 0
  /\ published = 0
  /\ own = [w \in Workers |-> 0]
  /\ pos = [w \in Workers |-> 1]
  /\ place = [w \in Workers |-> "idle"]
  /\ after = [w \in Workers |-> 0]
  /\ plan = [w \in Workers |-> NoPlan]

\* Mutant: the last attempt is not the last.
HasAttemptLeftLate == attempt <= MaxAttempts

HasAttemptLeft == attempt < MaxAttempts

\* The run is claimed, for the first time or again: from a worker that handed
\* it back, died, or is only late.
Claim(w) ==
  /\ runState = "running"
  /\ place[w] = "idle"
  /\ HasAttemptLeft
  /\ attempt' = attempt + 1
  /\ own' = [own EXCEPT ![w] = attempt + 1]
  /\ Goto(w, "start")
  /\ UNCHANGED <<runState, rowVars, dataVars, worldVars, pos, after, plan>>

\* The worker dies, or finds that the run is no longer its own.
Stop(w) ==
  /\ place[w] # "idle"
  /\ Leave(w)
  /\ UNCHANGED <<runState, attempt, rowVars, dataVars, worldVars>>

\* cancelRun, or the failure of a run that is out of attempts.
EndFromOutside ==
  /\ runState = "running"
  /\ runState' \in {"cancelled", "failed"}
  /\ UNCHANGED <<attempt, rowVars, dataVars, worldVars, workVars>>

-----------------------------------------------------------------------------
\* Mutant: a step that has a row counts as finished.
IsFinishedOnceStarted(i) == step[i] # "absent"

IsFinished(i) == step[i] = "finished"

\* On to the next step, or to the end of the run.
Advance(w) ==
  IF pos[w] = Len(Steps)
  THEN Goto(w, "end") /\ UNCHANGED pos
  ELSE Goto(w, "start") /\ pos' = [pos EXCEPT ![w] = pos[w] + 1]

\* startStep: skip a finished step, take up one that was started, or start.
StartStep(w) ==
  LET i == pos[w] IN
  /\ place[w] = "start"
  /\ Owns(w)
  /\ \/ /\ IsFinished(i)
        /\ Advance(w)
        /\ UNCHANGED <<step, after>>
     \/ /\ ~IsFinished(i)
        /\ step' = [step EXCEPT ![i] = "started"]
        /\ after' = [after EXCEPT ![w] = lastSeq[i]]
        /\ Goto(w, "read")
        /\ UNCHANGED pos
  /\ UNCHANGED <<runState, attempt, lastSeq, dataVars, worldVars, own, plan>>

\* finishStep, when perform has returned.
FinishStep(w) ==
  /\ place[w] = "finish"
  /\ Owns(w)
  /\ step' = [step EXCEPT ![pos[w]] = "finished"]
  /\ Advance(w)
  /\ UNCHANGED <<runState, attempt, lastSeq, dataVars, worldVars, own, after, plan>>

\* A step or a transaction around it throws: the error is saved, and the run
\* fails (endFailedRun). The row of the step stays as it is.
FailRun(w) ==
  /\ place[w] # "idle"
  /\ Owns(w)
  /\ runState' = "failed"
  /\ Leave(w)
  /\ UNCHANGED <<attempt, rowVars, dataVars, worldVars>>

FinishRun(w) ==
  /\ place[w] = "end"
  /\ Owns(w)
  /\ runState' = "done"
  /\ Leave(w)
  /\ UNCHANGED <<attempt, rowVars, dataVars, worldVars>>

-----------------------------------------------------------------------------
\* The first page of a set of sites, in the order of rank.
IsPage(P, S, rank) ==
  /\ P \subseteq S
  /\ Cardinality(P) = IF Cardinality(S) < PageSize THEN Cardinality(S) ELSE PageSize
  /\ \A p \in P, s \in S \ P : rank[p] < rank[s]

\* unlistedPermits: a page of unlisted permits is archived and deleted, each
\* page in a transaction, until a page is not full.
ArchivePage(w) ==
  /\ In(w, "unlisted_permits", "read")
  /\ Owns(w)
  /\ \E P \in SUBSET unlisted :
       /\ IsPage(P, unlisted, [s \in Sites |-> s])
       /\ \E q \in InOrder(P) : changes' = changes \o [i \in DOMAIN q |-> <<"site", q[i]>>]
       /\ unlisted' = unlisted \ P
       /\ Goto(w, IF Cardinality(P) < PageSize THEN "finish" ELSE "read")
  /\ UNCHANGED <<runState, attempt, rowVars, wrongLinks, watched, datasets,
                 siteNotes, stationNotes, worldVars, own, pos, after, plan>>

SeqsOf(s, kinds) == {n \in DOMAIN changes : changes[n][1] \in kinds /\ changes[n][2] = s}

\* The lastSeq of the summary of s, or 0 if there is none.
SummarySeq(s, kinds) == IF SeqsOf(s, kinds) = {} THEN 0 ELSE SetMax(SeqsOf(s, kinds))

\* Mutant: a resumed step starts its list from the beginning.
PendingAll(w, n) == IF n > 0 THEN n ELSE 0

\* The filter of notifyInPages: nothing that an earlier attempt has handled.
Pending(w, n) == IF n > after[w] THEN n ELSE 0

\* siteNotifications and stationNotifications summarize the changes, in one
\* transaction: of the watched sites, or of the stations.
ReadSiteChanges(w) ==
  /\ In(w, "site_notifications", "read")
  /\ Owns(w)
  /\ plan' = [plan EXCEPT ![w] =
       [s \in Sites |-> IF s \in watched THEN Pending(w, SummarySeq(s, {"site"})) ELSE 0]]
  /\ Goto(w, "pages")
  /\ UNCHANGED <<runState, attempt, rowVars, dataVars, worldVars, own, pos, after>>

ReadStationChanges(w) ==
  /\ In(w, "station_notifications", "read")
  /\ Owns(w)
  /\ plan' = [plan EXCEPT ![w] = [s \in Sites |-> Pending(w, SummarySeq(s, {"site", "link"}))]]
  /\ Goto(w, "pages")
  /\ UNCHANGED <<runState, attempt, rowVars, dataVars, worldVars, own, pos, after>>

Planned(w) == {s \in Sites : plan[w][s] > 0}

\* Mutant: the progress saved with a page is that of the whole list.
PageProgressOfList(w, P) == SetMax({plan[w][s] : s \in Planned(w)})

PageProgress(w, P) == SetMax({plan[w][s] : s \in P})

\* notifyInPages: a page of notifications and the progress, in a transaction.
\* One that loses a deadlock has not happened, and is tried again.
NotifyPage(w) ==
  /\ place[w] = "pages"
  /\ Owns(w)
  /\ \E P \in (SUBSET Planned(w)) \ {{}} :
       /\ IsPage(P, Planned(w), plan[w])
       /\ lastSeq' = [lastSeq EXCEPT ![pos[w]] = PageProgress(w, P)]
       /\ plan' = [plan EXCEPT ![w] = [s \in Sites |-> IF s \in P THEN 0 ELSE plan[w][s]]]
       /\ IF Steps[pos[w]] = "site_notifications"
          THEN /\ siteNotes' = [s \in Sites |-> siteNotes[s] + IF s \in P THEN 1 ELSE 0]
               /\ UNCHANGED stationNotes
          ELSE /\ stationNotes' = [s \in Sites |-> stationNotes[s] + IF s \in P THEN 1 ELSE 0]
               /\ UNCHANGED siteNotes
  /\ UNCHANGED <<runState, attempt, step, changes, unlisted, wrongLinks, watched,
                 datasets, worldVars, own, pos, place, after>>

EndPages(w) ==
  /\ place[w] = "pages"
  /\ Planned(w) = {}
  /\ Goto(w, "finish")
  /\ UNCHANGED <<runState, attempt, rowVars, dataVars, worldVars, own, pos, after, plan>>

\* links: the next page of changed sites has its links corrected, and the
\* corrections are changes too, in the transaction that saves the progress.
CorrectLinks(w) ==
  LET left == {n \in DOMAIN changes : n > after[w] /\ changes[n][1] = "site"} IN
  /\ In(w, "links", "read")
  /\ Owns(w)
  /\ \E page \in SUBSET left :
       LET corrected == wrongLinks \cap {changes[n][2] : n \in page} IN
       /\ IsPage(page, left, [n \in left |-> n])
       /\ \E q \in InOrder(corrected) :
            changes' = changes \o [i \in DOMAIN q |-> <<"link", q[i]>>]
       /\ wrongLinks' = wrongLinks \ corrected
       /\ IF page = {}
          THEN UNCHANGED <<lastSeq, after>>
          ELSE /\ lastSeq' = [lastSeq EXCEPT ![pos[w]] = SetMax(page)]
               /\ after' = [after EXCEPT ![w] = SetMax(page)]
       /\ Goto(w, IF Cardinality(page) < PageSize THEN "finish" ELSE "read")
  /\ UNCHANGED <<runState, attempt, step, unlisted, watched, datasets,
                 siteNotes, stationNotes, worldVars, own, pos, plan>>

\* orphans and prune end with a transaction that records their own end.
FinishInside(w) ==
  /\ In(w, "orphans", "read") \/ In(w, "prune", "read")
  /\ Owns(w)
  /\ step' = [step EXCEPT ![pos[w]] = "finished"]
  /\ Goto(w, "finish")
  /\ UNCHANGED <<runState, attempt, lastSeq, dataVars, worldVars, own, pos, after, plan>>

\* statistics and kmz read what to do in a transaction, and only record what
\* goes wrong with it.
PassThrough(w) ==
  /\ In(w, "statistics", "read") \/ In(w, "kmz", "read")
  /\ Owns(w)
  /\ Goto(w, "finish")
  /\ UNCHANGED <<runState, attempt, rowVars, dataVars, worldVars, own, pos, after, plan>>

\* The push step as its transaction leaves it.
MarkedForPush == [i \in Positions |-> IF Steps[i] = "push" THEN "finished" ELSE step[i]]

\* push commits that it is finished, and sends afterwards, if data are new.
MarkPush(w) ==
  /\ In(w, "push", "read")
  /\ Owns(w)
  /\ step' = MarkedForPush
  /\ Goto(w, IF datasets = "applied" THEN "act" ELSE "finish")
  /\ UNCHANGED <<runState, attempt, lastSeq, dataVars, worldVars, own, pos, after, plan>>

SendPush(w) ==
  /\ In(w, "push", "act")
  /\ pushes' = pushes + 1
  /\ Goto(w, "finish")
  /\ UNCHANGED <<runState, attempt, rowVars, dataVars, published, own, pos, after, plan>>

\* publish reads the run, publishes it if there is something to announce, and
\* records its end after that.
ReadRunView(w) ==
  /\ In(w, "publish", "read")
  /\ Owns(w)
  /\ Goto(w, IF datasets = "nothing" THEN "mark" ELSE "act")
  /\ UNCHANGED <<runState, attempt, rowVars, dataVars, worldVars, own, pos, after, plan>>

PublishCompletion(w) ==
  /\ In(w, "publish", "act")
  /\ published' = published + 1
  /\ Goto(w, "mark")
  /\ UNCHANGED <<runState, attempt, rowVars, dataVars, pushes, own, pos, after, plan>>

MarkPublished(w) ==
  /\ In(w, "publish", "mark")
  /\ Owns(w)
  /\ step' = [step EXCEPT ![pos[w]] = "finished"]
  /\ Goto(w, "finish")
  /\ UNCHANGED <<runState, attempt, lastSeq, dataVars, worldVars, own, pos, after, plan>>

-----------------------------------------------------------------------------
Perform(w) ==
  \/ ArchivePage(w)
  \/ ReadSiteChanges(w) \/ ReadStationChanges(w) \/ NotifyPage(w) \/ EndPages(w)
  \/ CorrectLinks(w) \/ FinishInside(w) \/ PassThrough(w)
  \/ MarkPush(w) \/ SendPush(w)
  \/ ReadRunView(w) \/ PublishCompletion(w) \/ MarkPublished(w)

Next ==
  \/ EndFromOutside
  \/ \E w \in Workers :
       \/ Claim(w) \/ Stop(w)
       \/ StartStep(w) \/ Perform(w) \/ FinishStep(w) \/ FailRun(w) \/ FinishRun(w)

Spec == Init /\ [][Next]_vars

-----------------------------------------------------------------------------
(* Properties *)

\* The rows and the workers keep their types.
TypeOK ==
  /\ runState \in {"running", "done", "failed", "cancelled"}
  /\ attempt \in 0 .. MaxAttempts
  /\ step \in [Positions -> {"absent", "started", "finished"}]
  /\ lastSeq \in [Positions -> Nat]
  /\ changes \in Seq({"site", "link"} \X Sites)
  /\ unlisted \subseteq Sites
  /\ wrongLinks \subseteq Sites
  /\ watched \subseteq Sites
  /\ datasets \in {"applied", "failed", "nothing"}
  /\ siteNotes \in [Sites -> Nat]
  /\ stationNotes \in [Sites -> Nat]
  /\ pushes \in Nat
  /\ published \in Nat
  /\ own \in [Workers -> 0 .. MaxAttempts]
  /\ pos \in [Workers -> Positions]
  /\ place \in [Workers -> Places]
  /\ after \in [Workers -> Nat]
  /\ plan \in [Workers -> [Sites -> Nat]]

\* Nobody is told twice, however often the run changes hands within a step: a
\* site and a station are notified at most once, and the official data push
\* goes out at most once per run, even from a worker that has lost the run
\* between its commit and its send.
ToldAtMostOnce == pushes <= 1 /\ \A s \in Sites : siteNotes[s] <= 1 /\ stationNotes[s] <= 1

\* A step is taken up only when all the steps before it are finished, by
\* whichever attempt.
StepsInOrder ==
  \A i, j \in Positions : (i < j /\ step[j] # "absent") => step[i] = "finished"

Changed(s, kinds) == SeqsOf(s, kinds) # {}

\* A run that is done has left nothing out: its unlisted permits are archived,
\* the links of the changed sites are right, every changed station and every
\* watched site that changed was told of, and the completion was published if
\* there was one to announce.
DoneLeftNothingOut ==
  runState = "done" =>
    /\ unlisted = {}
    /\ wrongLinks = {}
    /\ \A s \in Sites :
         /\ Changed(s, {"site", "link"}) => stationNotes[s] = 1
         /\ (Changed(s, {"site"}) /\ s \in watched) => siteNotes[s] = 1
    /\ datasets # "nothing" => published >= 1

=============================================================================
