----------------------- MODULE ImportAfterStepsProofs -----------------------
(***************************************************************************)
(* Theorems about ImportAfterSteps, for any number of workers, sites and   *)
(* attempts and any size of a page.  The inductive invariant Inv separates *)
(* what holds of the worker whose claim is the latest, the only one that   *)
(* can write to the database, from what holds of the workers it replaced,  *)
(* whose pushes and messages still go out.  For the notifications it says  *)
(* that the progress saved with a page is exact: whoever has been told is  *)
(* whoever's summary lies at or below last_seq.                            *)
(***************************************************************************)
EXTENDS ImportAfterSteps, FiniteSetTheorems, WellFoundedInduction, TLAPS

\* The worker of the latest claim.
IsOwner(w) == place[w] # "idle" /\ own[w] = attempt

\* A worker at work has a claim that the row has counted, and a claim of its own.
ClaimsDiffer ==
  /\ \A w \in Workers :
       /\ place[w] # "idle" => own[w] \in 1 .. attempt
       /\ place[w] = "idle" => own[w] = 0 /\ pos[w] = 1
  /\ \A w, v \in Workers : (place[w] # "idle" /\ own[w] = own[v]) => w = v

\* The places that only some of the steps have.
PlacesOfSteps ==
  \A w \in Workers :
    /\ place[w] = "pages" => pos[w] \in {2, 4}
    /\ place[w] = "act" => pos[w] \in {7, 9}
    /\ place[w] = "mark" => pos[w] = 9
    /\ place[w] = "end" => pos[w] = Len(Steps)

\* The owner has the finished steps behind it and is in a step that has a row.
OwnerInOrder ==
  \A w \in Workers : IsOwner(w) =>
    /\ \A i \in Positions : i < pos[w] => step[i] = "finished"
    /\ place[w] \in {"read", "pages"} => step[pos[w]] = "started"
    /\ place[w] \in {"act", "mark", "finish"} => step[pos[w]] # "absent"
    /\ place[w] = "end" => step[pos[w]] = "finished"
    /\ place[w] = "read" => after[w] = lastSeq[pos[w]]

\* A step without a row has no progress.
NoRowNoProgress == \A i \in Positions : step[i] = "absent" => lastSeq[i] = 0

\* The step i has done its work: its row says so, or its owner is about to.
Performed(i) ==
  \/ step[i] = "finished"
  \/ \E w \in Workers : IsOwner(w) /\ pos[w] = i /\ place[w] = "finish"

\* What the pages of a notification step are made of, site by site, ...
Summary(i, s) ==
  IF i = 4 THEN SummarySeq(s, {"site", "link"})
  ELSE IF s \in watched THEN SummarySeq(s, {"site"}) ELSE 0

\* ... and what has come of them.
Notes(i, s) == IF i = 4 THEN stationNotes[s] ELSE siteNotes[s]

\* Told once is who has a summary at or below the saved progress; nobody else
\* is told.  What the owner still plans is the rest, and after the step there
\* is no rest.
NotesFollowProgress ==
  \A i \in {2, 4}, s \in Sites :
    /\ Notes(i, s) = IF Summary(i, s) > 0 /\ Summary(i, s) <= lastSeq[i] THEN 1 ELSE 0
    /\ Performed(i) => Summary(i, s) <= lastSeq[i]

PlanIsTheRest ==
  \A w \in Workers : (IsOwner(w) /\ place[w] = "pages") =>
    \A s \in Sites : plan[w][s] = IF Summary(pos[w], s) > lastSeq[pos[w]]
                                  THEN Summary(pos[w], s) ELSE 0

\* No permit is left out of the archive, and a link that is wrong belongs to
\* a change that the links step has not come to.
LinksAhead ==
  /\ Performed(1) => unlisted = {}
  /\ \A s \in wrongLinks :
       \/ s \in unlisted
       \/ \E n \in DOMAIN changes : n > lastSeq[3] /\ changes[n] = <<"site", s>>
  /\ Performed(3) => wrongLinks = {}

AtPush(w) == place[w] = "act" /\ pos[w] = 7

\* The push has been sent only if its step is marked, by the one worker that
\* marked it, which may have lost the run since.
PushIsMarked ==
  /\ pushes <= 1
  /\ \A w \in Workers : AtPush(w) => step[7] = "finished" /\ pushes = 0
  /\ \A w, v \in Workers : AtPush(w) /\ AtPush(v) => w = v
  /\ step[7] # "finished" => pushes = 0

Announced == datasets = "nothing" \/ published >= 1

\* Whoever is past the announcement has made it.
PublishedIsMarked ==
  /\ step[9] = "finished" => Announced
  /\ \A w \in Workers : place[w] \in {"mark", "finish"} /\ pos[w] = 9 => Announced

DoneIsFinished == runState = "done" => \A i \in Positions : step[i] = "finished"

Inv ==
  /\ TypeOK
  /\ ClaimsDiffer
  /\ PlacesOfSteps
  /\ OwnerInOrder
  /\ StepsInOrder
  /\ NoRowNoProgress
  /\ NotesFollowProgress
  /\ PlanIsTheRest
  /\ LinksAhead
  /\ PushIsMarked
  /\ PublishedIsMarked
  /\ DoneIsFinished


-----------------------------------------------------------------------------
(* Facts about the operators of the model. *)

\* A set of natural numbers that is not empty has a least member.
LEMMA LeastNat ==
  ASSUME NEW T \in SUBSET Nat, T # {}
  PROVE  \E m \in T : \A n \in T : m <= n
<1> DEFINE R == OpToRel(<, Nat)
<1>1. IsWellFoundedOn(R, Nat)
  BY NatLessThanWellFounded
<1> HIDE DEF R
<1>2. PICK m \in T : \A n \in T : ~(<<n, m>> \in R)
  BY <1>1, WFMin
<1>3. \A n \in T : ~(n < m)
  BY <1>2 DEF R, OpToRel
<1>4. QED
  BY <1>3

\* SetMax is the greatest member of a set of numbers up to b.
LEMMA SetMaxIsMax ==
  ASSUME NEW S \in SUBSET Nat, S # {}, NEW b \in Nat, \A n \in S : n <= b
  PROVE  SetMax(S) \in S /\ \A n \in S : n <= SetMax(S)
<1> DEFINE Above == {n \in Nat : \A k \in S : k <= n}
<1>1. PICK m \in Above : \A n \in Above : m <= n
  <2>1. b \in Above
    OBVIOUS
  <2>2. QED
    BY <2>1, LeastNat
<1>2. m \in S
  <2> SUFFICES ASSUME m \notin S PROVE FALSE
    OBVIOUS
  <2>1. \A k \in S : k < m /\ k <= m - 1
    BY <1>1
  <2>2. PICK k \in S : TRUE
    OBVIOUS
  <2>3. m - 1 \in Nat
    BY <2>1, <2>2
  <2>4. m - 1 \in Above
    BY <2>1, <2>3
  <2>5. QED
    BY <1>1, <2>4
<1>3. \E x \in S : \A n \in S : n <= x
  BY <1>1, <1>2
<1>4. QED
  BY <1>3 DEF SetMax

\* A page that is not full is the whole of the set.
LEMMA ShortPageIsAll ==
  ASSUME NEW S, IsFiniteSet(S), NEW P, NEW rank, IsPage(P, S, rank)
  PROVE  /\ Cardinality(P) \in Nat
         /\ Cardinality(P) < PageSize => P = S
<1>1. P \subseteq S /\ IsFiniteSet(P) /\ Cardinality(P) \in Nat /\ Cardinality(S) \in Nat
  BY FS_Subset, FS_CardinalityType DEF IsPage
<1>2. Cardinality(P) < PageSize => Cardinality(P) = Cardinality(S)
  BY <1>1, AfterStepsAssumption DEF IsPage
<1>3. QED
  BY <1>1, <1>2, FS_Subset

\* The positions of the steps.
LEMMA StepNames ==
  /\ Len(Steps) = 10
  /\ Positions = 1 .. 10
  /\ \A i \in Positions :
       /\ Steps[i] = "unlisted_permits" <=> i = 1
       /\ Steps[i] = "site_notifications" <=> i = 2
       /\ Steps[i] = "links" <=> i = 3
       /\ Steps[i] = "station_notifications" <=> i = 4
       /\ Steps[i] = "orphans" <=> i = 5
       /\ Steps[i] = "statistics" <=> i = 6
       /\ Steps[i] = "push" <=> i = 7
       /\ Steps[i] = "kmz" <=> i = 8
       /\ Steps[i] = "publish" <=> i = 9
       /\ Steps[i] = "prune" <=> i = 10
<1>1. Len(Steps) = 10 /\ Positions = 1 .. 10
  BY DEF Steps, Positions
<1>2. QED
  BY <1>1 DEF Steps

\* The sites are finitely many, and so are the changes of a run.
LEMMA SitesFinite == IsFiniteSet(Sites)
  BY FS_Interval, AfterStepsAssumption DEF Sites

\* Appending the members of a set of sites to the changes: the changes stay
\* typed, keep what they had, and get these members and no others.
LEMMA Appended ==
  ASSUME changes \in Seq({"site", "link"} \X Sites), NEW k \in {"site", "link"},
         NEW S \in SUBSET Sites, NEW q \in InOrder(S),
         changes' = changes \o [i \in DOMAIN q |-> <<k, q[i]>>]
  PROVE  /\ changes' \in Seq({"site", "link"} \X Sites)
         /\ DOMAIN changes = 1 .. Len(changes)
         /\ DOMAIN changes \subseteq DOMAIN changes'
         /\ \A n \in DOMAIN changes : changes'[n] = changes[n]
         /\ \A n \in DOMAIN changes' \ DOMAIN changes : changes'[n] \in {k} \X S
         /\ \A s \in S : \E n \in DOMAIN changes' : n > Len(changes) /\ changes'[n] = <<k, s>>
<1> DEFINE more == [i \in DOMAIN q |-> <<k, q[i]>>]
<1>1. IsFiniteSet(S) /\ Cardinality(S) \in Nat
  BY SitesFinite, FS_Subset, FS_CardinalityType
<1>2. DOMAIN q = 1 .. Cardinality(S) /\ \A i \in DOMAIN q : q[i] \in S
  BY DEF InOrder
<1>3. more \in Seq({"site", "link"} \X Sites) /\ Len(more) = Cardinality(S)
  BY <1>1, <1>2
<1>4. changes' \in Seq({"site", "link"} \X Sites) /\ Len(changes') = Len(changes) + Len(more)
  BY <1>3
<1>5. /\ \A n \in 1 .. Len(changes) : changes'[n] = changes[n]
      /\ \A i \in 1 .. Len(more) : changes'[Len(changes) + i] = more[i]
  BY <1>3
<1>6. DOMAIN changes = 1 .. Len(changes) /\ DOMAIN changes' = 1 .. Len(changes')
      /\ DOMAIN changes \subseteq DOMAIN changes'
  BY <1>1, <1>3, <1>4
<1>7. ASSUME NEW n \in DOMAIN changes' \ DOMAIN changes PROVE changes'[n] \in {k} \X S
  <2>1. n - Len(changes) \in 1 .. Len(more) /\ n = Len(changes) + (n - Len(changes))
    BY <1>3, <1>4, <1>6, <1>7
  <2>2. changes'[n] = more[n - Len(changes)]
    BY <1>5, <2>1
  <2>3. more[n - Len(changes)] = <<k, q[n - Len(changes)]>> /\ q[n - Len(changes)] \in S
    BY <1>2, <1>3, <2>1
  <2>4. QED
    BY <2>2, <2>3
<1>8. ASSUME NEW s \in S
      PROVE  \E n \in DOMAIN changes' : n > Len(changes) /\ changes'[n] = <<k, s>>
  <2>1. PICK i \in DOMAIN q : q[i] = s
    BY DEF InOrder
  <2>2. changes'[Len(changes) + i] = <<k, s>>
    BY <1>2, <1>3, <1>5, <2>1
  <2>3. Len(changes) + i \in DOMAIN changes' /\ Len(changes) + i > Len(changes)
    BY <1>1, <1>2, <1>3, <1>4, <1>6, <2>1
  <2>4. QED
    BY <2>2, <2>3
<1>9. QED
  BY <1>4, <1>5, <1>6, <1>7, <1>8

\* The seq of a summary is that of the last change of the site, and 0 without one.
LEMMA SummarySeqIsLast ==
  ASSUME changes \in Seq({"site", "link"} \X Sites), NEW s, NEW kinds
  PROVE  /\ SummarySeq(s, kinds) \in 0 .. Len(changes)
         /\ SeqsOf(s, kinds) # {} => SummarySeq(s, kinds) > 0
         /\ SeqsOf(s, kinds) = {} => SummarySeq(s, kinds) = 0
<1>1. SeqsOf(s, kinds) \subseteq 1 .. Len(changes) /\ Len(changes) \in Nat
  BY DEF SeqsOf
<1>2. CASE SeqsOf(s, kinds) = {}
  BY <1>2 DEF SummarySeq
<1>3. CASE SeqsOf(s, kinds) # {}
  <2>1. SetMax(SeqsOf(s, kinds)) \in SeqsOf(s, kinds)
    <3>1. SeqsOf(s, kinds) \in SUBSET Nat /\ \A n \in SeqsOf(s, kinds) : n <= Len(changes)
      BY <1>1
    <3>2. QED
      BY <1>1, <1>3, <3>1, SetMaxIsMax
  <2>2. QED
    BY <1>1, <1>3, <2>1 DEF SummarySeq
<1>4. QED
  BY <1>2, <1>3


-----------------------------------------------------------------------------
(* Types. *)

\* Where the steps of perform are taken.
LEMMA WherePerformed ==
  ASSUME TypeOK, NEW w \in Workers
  PROVE  /\ pos[w] \in 1 .. 10
         /\ ArchivePage(w) => place[w] = "read" /\ pos[w] = 1
         /\ ReadSiteChanges(w) => place[w] = "read" /\ pos[w] = 2
         /\ CorrectLinks(w) => place[w] = "read" /\ pos[w] = 3
         /\ ReadStationChanges(w) => place[w] = "read" /\ pos[w] = 4
         /\ FinishInside(w) => place[w] = "read" /\ pos[w] \in {5, 10}
         /\ PassThrough(w) => place[w] = "read" /\ pos[w] \in {6, 8}
         /\ MarkPush(w) => place[w] = "read" /\ pos[w] = 7
         /\ SendPush(w) => place[w] = "act" /\ pos[w] = 7
         /\ ReadRunView(w) => place[w] = "read" /\ pos[w] = 9
         /\ PublishCompletion(w) => place[w] = "act" /\ pos[w] = 9
         /\ MarkPublished(w) => place[w] = "mark" /\ pos[w] = 9
<1>1. pos[w] \in Positions
  BY DEF TypeOK
<1>2. QED
  BY <1>1, StepNames
  DEF In, ArchivePage, ReadSiteChanges, CorrectLinks, ReadStationChanges,
      FinishInside, PassThrough, MarkPush, SendPush, ReadRunView,
      PublishCompletion, MarkPublished

\* A worker that leaves keeps its types.
LEMMA LeaveTyping ==
  ASSUME TypeOK, NEW w \in Workers, Leave(w)
  PROVE  /\ own' \in [Workers -> 0 .. MaxAttempts]
         /\ pos' \in [Workers -> Positions]
         /\ place' \in [Workers -> Places]
         /\ after' \in [Workers -> Nat]
         /\ plan' \in [Workers -> [Sites -> Nat]]
<1>1. 0 \in 0 .. MaxAttempts /\ 1 \in Positions /\ NoPlan \in [Sites -> Nat] /\ "idle" \in Places
  BY StepNames, AfterStepsAssumption DEF NoPlan, Places
<1>2. QED
  BY <1>1 DEF TypeOK, Leave

\* Advancing stays within the steps.
LEMMA AdvanceTyping ==
  ASSUME TypeOK, NEW w \in Workers, Advance(w)
  PROVE  pos' \in [Workers -> Positions] /\ place' \in [Workers -> Places]
<1>1. pos[w] \in Positions /\ Positions = 1 .. 10 /\ Len(Steps) = 10
  BY StepNames DEF TypeOK
<1>2. pos[w] # Len(Steps) => pos[w] + 1 \in Positions
  BY <1>1
<1>3. "end" \in Places /\ "start" \in Places
  BY DEF Places
<1>4. QED
  BY <1>2, <1>3 DEF TypeOK, Advance, Goto

\* The progress of a page is the greatest seq that it has in the plan.
LEMMA PageProgressIsMax ==
  ASSUME TypeOK, NEW w \in Workers, NEW P \in SUBSET Planned(w), P # {},
         NEW b \in Nat, \A s \in P : plan[w][s] <= b
  PROVE  /\ PageProgress(w, P) \in Nat
         /\ \E s \in P : PageProgress(w, P) = plan[w][s]
         /\ \A s \in P : plan[w][s] <= PageProgress(w, P)
<1> DEFINE N == {plan[w][s] : s \in P}
<1>1. N \in SUBSET Nat /\ N # {}
  BY DEF TypeOK, Planned
<1>2. \A n \in N : n <= b
  OBVIOUS
<1>3. SetMax(N) \in N /\ \A n \in N : n <= SetMax(N)
  BY <1>1, <1>2, SetMaxIsMax
<1>4. QED
  BY <1>1, <1>3 DEF PageProgress


\* What is left in the plan of the owner is at most the last change.
LEMMA PlanBounded ==
  ASSUME TypeOK, PlanIsTheRest, NEW w \in Workers, IsOwner(w), place[w] = "pages"
  PROVE  \A s \in Sites : plan[w][s] <= Len(changes)
<1>1. changes \in Seq({"site", "link"} \X Sites) /\ Len(changes) \in Nat
  BY DEF TypeOK
<1>2. \A s \in Sites : Summary(pos[w], s) \in 0 .. Len(changes)
  BY <1>1, SummarySeqIsLast DEF Summary
<1>3. QED
  BY <1>1, <1>2 DEF PlanIsTheRest

\* An ownership transaction is one of the owner.
LEMMA OwnsIsOwner ==
  ASSUME NEW w \in Workers, Owns(w), place[w] # "idle"
  PROVE  IsOwner(w)
  BY DEF Owns, IsOwner

\* Every step keeps the types.
LEMMA TypeOKStep == ASSUME TypeOK, PlanIsTheRest, [Next]_vars PROVE TypeOK'
<1> USE DEF rowVars, dataVars, worldVars, workVars
<1>1. CASE EndFromOutside
  BY <1>1 DEF TypeOK, EndFromOutside
<1>2. ASSUME NEW w \in Workers, Claim(w) PROVE TypeOK'
  <2>1. attempt + 1 \in 0 .. MaxAttempts /\ "start" \in Places
    BY <1>2, AfterStepsAssumption DEF TypeOK, Claim, HasAttemptLeft, Places
  <2>2. QED
    BY <1>2, <2>1 DEF TypeOK, Claim, Goto
<1>3. ASSUME NEW w \in Workers, Stop(w) \/ FailRun(w) \/ FinishRun(w) PROVE TypeOK'
  <2>1. Leave(w)
    BY <1>3 DEF Stop, FailRun, FinishRun
  <2>2. QED
    BY <1>3, <2>1, LeaveTyping DEF TypeOK, Stop, FailRun, FinishRun
<1>4. ASSUME NEW w \in Workers, StartStep(w) PROVE TypeOK'
  <2>1. CASE IsFinished(pos[w])
    <3>1. Advance(w) /\ UNCHANGED <<step, after>>
      BY <1>4, <2>1 DEF StartStep
    <3>2. QED
      BY <1>4, <3>1, AdvanceTyping DEF TypeOK, StartStep
  <2>2. CASE ~IsFinished(pos[w])
    <3>1. pos[w] \in Positions /\ "read" \in Places
      BY DEF TypeOK, Places
    <3>2. /\ step' = [step EXCEPT ![pos[w]] = "started"]
          /\ after' = [after EXCEPT ![w] = lastSeq[pos[w]]]
          /\ place' = [place EXCEPT ![w] = "read"]
          /\ UNCHANGED pos
      BY <1>4, <2>2 DEF StartStep, Goto
    <3>3. /\ step' \in [Positions -> {"absent", "started", "finished"}]
          /\ after' \in [Workers -> Nat]
          /\ place' \in [Workers -> Places]
      BY <3>1, <3>2 DEF TypeOK
    <3>4. QED
      BY <1>4, <3>2, <3>3 DEF TypeOK, StartStep
  <2>3. QED
    BY <2>1, <2>2
<1>5. ASSUME NEW w \in Workers, FinishStep(w) PROVE TypeOK'
  BY <1>5, AdvanceTyping DEF TypeOK, FinishStep
<1>6. ASSUME NEW w \in Workers, ArchivePage(w) PROVE TypeOK'
  <2>1. PICK P \in SUBSET unlisted :
          /\ \E q \in InOrder(P) : changes' = changes \o [i \in DOMAIN q |-> <<"site", q[i]>>]
          /\ unlisted' = unlisted \ P
          /\ Goto(w, IF Cardinality(P) < PageSize THEN "finish" ELSE "read")
    BY <1>6 DEF ArchivePage
  <2>2. changes' \in Seq({"site", "link"} \X Sites)
    BY <2>1, Appended DEF TypeOK
  <2>3. place' \in [Workers -> Places]
    BY <2>1 DEF TypeOK, Goto, Places
  <2>4. QED
    BY <1>6, <2>1, <2>2, <2>3 DEF TypeOK, ArchivePage
<1>7. ASSUME NEW w \in Workers, ReadSiteChanges(w) \/ ReadStationChanges(w) PROVE TypeOK'
  <2>1. \A s, kinds : SummarySeq(s, kinds) \in Nat
    BY SummarySeqIsLast DEF TypeOK
  <2>2. plan' \in [Workers -> [Sites -> Nat]]
    <3>1. PICK row \in [Sites -> Nat] : plan' = [plan EXCEPT ![w] = row]
      <4>1. CASE ReadSiteChanges(w)
        BY <2>1, <4>1 DEF ReadSiteChanges, Pending
      <4>2. CASE ReadStationChanges(w)
        BY <2>1, <4>2 DEF ReadStationChanges, Pending
      <4>3. QED
        BY <1>7, <4>1, <4>2
    <3>2. QED
      BY <3>1 DEF TypeOK
  <2>3. place' \in [Workers -> Places]
    BY <1>7 DEF TypeOK, ReadSiteChanges, ReadStationChanges, Goto, Places
  <2>4. QED
    BY <1>7, <2>2, <2>3 DEF TypeOK, ReadSiteChanges, ReadStationChanges
<1>8. ASSUME NEW w \in Workers, NotifyPage(w) PROVE TypeOK'
  <2>1. PICK P \in (SUBSET Planned(w)) \ {{}} :
          /\ lastSeq' = [lastSeq EXCEPT ![pos[w]] = PageProgress(w, P)]
          /\ plan' = [plan EXCEPT ![w] = [s \in Sites |-> IF s \in P THEN 0 ELSE plan[w][s]]]
          /\ \/ /\ siteNotes' = [s \in Sites |-> siteNotes[s] + IF s \in P THEN 1 ELSE 0]
                /\ UNCHANGED stationNotes
             \/ /\ stationNotes' = [s \in Sites |-> stationNotes[s] + IF s \in P THEN 1 ELSE 0]
                /\ UNCHANGED siteNotes
    BY <1>8 DEF NotifyPage
  <2>2. PageProgress(w, P) \in Nat
    <3>1. \A s \in P : plan[w][s] <= Len(changes)
      BY <1>8, PlanBounded, OwnsIsOwner DEF NotifyPage, Planned
    <3>2. Len(changes) \in Nat
      BY DEF TypeOK
    <3>3. P \in SUBSET Planned(w) /\ P # {}
      OBVIOUS
    <3>4. QED
      BY <3>1, <3>2, <3>3, PageProgressIsMax
  <2>3. lastSeq' \in [Positions -> Nat]
    BY <2>1, <2>2 DEF TypeOK
  <2>4. plan' \in [Workers -> [Sites -> Nat]]
    BY <2>1 DEF TypeOK
  <2>5. siteNotes' \in [Sites -> Nat] /\ stationNotes' \in [Sites -> Nat]
    <3>1. /\ \A s \in Sites : siteNotes[s] \in Nat /\ stationNotes[s] \in Nat
          /\ siteNotes \in [Sites -> Nat] /\ stationNotes \in [Sites -> Nat]
      BY DEF TypeOK
    <3>2. QED
      BY <2>1, <3>1
  <2>6. QED
    BY <1>8, <2>3, <2>4, <2>5 DEF TypeOK, NotifyPage
<1>9. ASSUME NEW w \in Workers, EndPages(w) \/ PassThrough(w) \/ ReadRunView(w) PROVE TypeOK'
  <2>1. place' \in [Workers -> Places]
    BY <1>9 DEF TypeOK, EndPages, PassThrough, ReadRunView, Goto, Places
  <2>2. QED
    BY <1>9, <2>1 DEF TypeOK, EndPages, PassThrough, ReadRunView
<1>10. ASSUME NEW w \in Workers, CorrectLinks(w) PROVE TypeOK'
  <2> DEFINE left == {n \in DOMAIN changes : n > after[w] /\ changes[n][1] = "site"}
  <2>1. PICK page \in SUBSET left :
          LET corrected == wrongLinks \cap {changes[n][2] : n \in page} IN
          /\ \E q \in InOrder(corrected) :
               changes' = changes \o [i \in DOMAIN q |-> <<"link", q[i]>>]
          /\ wrongLinks' = wrongLinks \ corrected
          /\ IF page = {}
             THEN UNCHANGED <<lastSeq, after>>
             ELSE /\ lastSeq' = [lastSeq EXCEPT ![pos[w]] = SetMax(page)]
                  /\ after' = [after EXCEPT ![w] = SetMax(page)]
          /\ Goto(w, IF Cardinality(page) < PageSize THEN "finish" ELSE "read")
    BY <1>10 DEF CorrectLinks
  <2>2. changes' \in Seq({"site", "link"} \X Sites)
    BY <2>1, Appended DEF TypeOK
  <2>3. page # {} => SetMax(page) \in Nat
    <3>1. page \in SUBSET Nat /\ Len(changes) \in Nat /\ \A n \in page : n <= Len(changes)
      BY DEF TypeOK
    <3>2. QED
      BY <3>1, SetMaxIsMax
  <2>4. lastSeq' \in [Positions -> Nat] /\ after' \in [Workers -> Nat]
    BY <2>1, <2>3 DEF TypeOK
  <2>5. place' \in [Workers -> Places]
    BY <2>1 DEF TypeOK, Goto, Places
  <2>6. QED
    BY <1>10, <2>1, <2>2, <2>4, <2>5 DEF TypeOK, CorrectLinks
<1>11. ASSUME NEW w \in Workers, FinishInside(w) \/ MarkPush(w) \/ MarkPublished(w) PROVE TypeOK'
  <2>1. place' \in [Workers -> Places]
    BY <1>11 DEF TypeOK, FinishInside, MarkPush, MarkPublished, Goto, Places
  <2>2. step' \in [Positions -> {"absent", "started", "finished"}]
    BY <1>11 DEF TypeOK, FinishInside, MarkPush, MarkedForPush, MarkPublished
  <2>3. QED
    BY <1>11, <2>1, <2>2 DEF TypeOK, FinishInside, MarkPush, MarkPublished
<1>12. ASSUME NEW w \in Workers, SendPush(w) \/ PublishCompletion(w) PROVE TypeOK'
  <2>1. place' \in [Workers -> Places]
    BY <1>12 DEF TypeOK, SendPush, PublishCompletion, Goto, Places
  <2>2. pushes' \in Nat /\ published' \in Nat
    BY <1>12 DEF TypeOK, SendPush, PublishCompletion
  <2>3. QED
    BY <1>12, <2>1, <2>2 DEF TypeOK, SendPush, PublishCompletion
<1>13. CASE UNCHANGED vars
  BY <1>13 DEF TypeOK, vars
<1>14. QED
  BY <1>1, <1>2, <1>3, <1>4, <1>5, <1>6, <1>7, <1>8, <1>9, <1>10, <1>11, <1>12, <1>13
  DEF Next, Perform


-----------------------------------------------------------------------------
(* Which step changes what. *)

Works(w) == StartStep(w) \/ Perform(w) \/ FinishStep(w)
Leaves(w) == Stop(w) \/ FailRun(w) \/ FinishRun(w)

\* What belongs to worker v is as it was.
Alone(v) == /\ place'[v] = place[v] /\ pos'[v] = pos[v] /\ own'[v] = own[v]
            /\ after'[v] = after[v] /\ plan'[v] = plan[v]

\* The steps, by kind.
LEMMA StepKinds ==
  ASSUME [Next]_vars
  PROVE  \/ UNCHANGED vars
         \/ EndFromOutside
         \/ \E w \in Workers : Claim(w) \/ Leaves(w) \/ Works(w)
  BY DEF Next, Works, Leaves

\* Each step of a worker leaves the other workers alone, ...
LEMMA ClaimFrame ==
  ASSUME TypeOK, NEW w \in Workers, Claim(w)
  PROVE  /\ \A v \in Workers : v # w => Alone(v)
         /\ place[w] = "idle" /\ place'[w] = "start"
         /\ pos'[w] = pos[w] /\ own'[w] = attempt' /\ attempt' = attempt + 1
         /\ UNCHANGED <<runState, rowVars, dataVars, worldVars>>
  BY DEF TypeOK, Claim, Goto, Alone

\* ... a worker that leaves has nothing any more and has written nothing, ...
LEMMA LeaveFrame ==
  ASSUME TypeOK, NEW w \in Workers, Leaves(w)
  PROVE  /\ \A v \in Workers : v # w => Alone(v)
         /\ place'[w] = "idle" /\ own'[w] = 0 /\ pos'[w] = 1
         /\ UNCHANGED <<attempt, rowVars, dataVars, worldVars>>
  BY DEF TypeOK, Leaves, Stop, FailRun, FinishRun, Leave, Alone

\* ... and a worker at work keeps its claim.
LEMMA WorkFrame ==
  ASSUME TypeOK, NEW w \in Workers, Works(w)
  PROVE  /\ \A v \in Workers : v # w => Alone(v)
         /\ place[w] # "idle" /\ place'[w] # "idle" /\ own'[w] = own[w]
         /\ UNCHANGED <<runState, attempt>>
<1> USE DEF TypeOK, Alone, Goto, rowVars, dataVars, worldVars, In
<1>1. CASE StartStep(w)
  BY <1>1 DEF StartStep, Advance
<1>2. CASE FinishStep(w)
  BY <1>2 DEF FinishStep, Advance
<1>3. CASE ArchivePage(w)
  BY <1>3 DEF ArchivePage
<1>4. CASE ReadSiteChanges(w) \/ ReadStationChanges(w)
  BY <1>4 DEF ReadSiteChanges, ReadStationChanges
<1>5. CASE NotifyPage(w)
  BY <1>5 DEF NotifyPage
<1>6. CASE EndPages(w) \/ PassThrough(w) \/ ReadRunView(w)
  BY <1>6 DEF EndPages, PassThrough, ReadRunView
<1>7. CASE CorrectLinks(w)
  BY <1>7 DEF CorrectLinks
<1>8. CASE FinishInside(w) \/ MarkPush(w) \/ MarkPublished(w)
  BY <1>8 DEF FinishInside, MarkPush, MarkPublished
<1>9. CASE SendPush(w) \/ PublishCompletion(w)
  BY <1>9 DEF SendPush, PublishCompletion
<1>10. QED
  BY <1>1, <1>2, <1>3, <1>4, <1>5, <1>6, <1>7, <1>8, <1>9 DEF Works, Perform

\* Who writes to the database owns the run.
LEMMA WritersOwn ==
  ASSUME NEW w \in Workers, Works(w)
  PROVE  \/ Owns(w)
         \/ /\ EndPages(w) \/ SendPush(w) \/ PublishCompletion(w)
            /\ UNCHANGED <<rowVars, dataVars>>
  BY DEF Works, Perform, StartStep, FinishStep, ArchivePage, ReadSiteChanges,
         ReadStationChanges, NotifyPage, EndPages, PassThrough, ReadRunView,
         CorrectLinks, FinishInside, MarkPush, MarkPublished, SendPush,
         PublishCompletion

\* A run has one owner.
LEMMA OneOwner ==
  ASSUME ClaimsDiffer, NEW w \in Workers, NEW v \in Workers, IsOwner(w), IsOwner(v)
  PROVE  w = v
  BY DEF ClaimsDiffer, IsOwner

\* Who owns the run after a step: the worker that claims it, or who owned it.
LEMMA OwnerStays ==
  ASSUME TypeOK, ClaimsDiffer, [Next]_vars, NEW v \in Workers, IsOwner(v)'
  PROVE  Claim(v) \/ IsOwner(v)
<1>1. CASE UNCHANGED vars \/ EndFromOutside
  BY <1>1 DEF vars, workVars, EndFromOutside, IsOwner
<1>2. ASSUME NEW w \in Workers, Claim(w) PROVE Claim(v) \/ IsOwner(v)
  <2>1. CASE v = w
    BY <1>2, <2>1
  <2>2. CASE v # w
    <3>1. place[v] # "idle" /\ own[v] = attempt + 1
      BY <1>2, <2>2, ClaimFrame DEF Alone, IsOwner
    <3>2. own[v] <= attempt /\ attempt \in Nat
      BY <3>1 DEF ClaimsDiffer, TypeOK
    <3>3. QED
      BY <3>1, <3>2
  <2>3. QED
    BY <2>1, <2>2
<1>3. ASSUME NEW w \in Workers, Leaves(w) PROVE IsOwner(v)
  BY <1>3, LeaveFrame DEF Alone, IsOwner
<1>4. ASSUME NEW w \in Workers, Works(w) PROVE IsOwner(v)
  BY <1>4, WorkFrame DEF Alone, IsOwner
<1>5. QED
  BY <1>1, <1>2, <1>3, <1>4, StepKinds

\* A claim is one more than all the claims before it.
LEMMA ClaimsDifferStep == ASSUME TypeOK, ClaimsDiffer, [Next]_vars PROVE ClaimsDiffer'
<1>0. attempt \in Nat /\ \A v \in Workers : own[v] \in Nat /\ own[v] <= attempt
  BY DEF TypeOK, ClaimsDiffer
<1>1. CASE UNCHANGED vars \/ EndFromOutside
  BY <1>1 DEF vars, workVars, EndFromOutside, ClaimsDiffer
<1>2. ASSUME NEW w \in Workers, Claim(w) PROVE ClaimsDiffer'
  BY <1>0, <1>2, ClaimFrame DEF Alone, ClaimsDiffer
<1>3. ASSUME NEW w \in Workers, Leaves(w) PROVE ClaimsDiffer'
  BY <1>0, <1>3, LeaveFrame DEF Alone, ClaimsDiffer
<1>4. ASSUME NEW w \in Workers, Works(w) PROVE ClaimsDiffer'
  BY <1>0, <1>4, WorkFrame DEF Alone, ClaimsDiffer
<1>5. QED
  BY <1>1, <1>2, <1>3, <1>4, StepKinds


\* Where an advance leads.
LEMMA AdvanceMoves ==
  ASSUME TypeOK, NEW w \in Workers, Advance(w)
  PROVE  \/ pos[w] = 10 /\ pos'[w] = 10 /\ place'[w] = "end"
         \/ pos[w] # 10 /\ pos'[w] = pos[w] + 1 /\ place'[w] = "start"
  BY StepNames DEF TypeOK, Advance, Goto

\* Where a step of perform leads within its step.
LEMMA PerformMoves ==
  ASSUME TypeOK, NEW w \in Workers, Perform(w)
  PROVE  /\ pos'[w] = pos[w]
         /\ place'[w] \in {"read", "pages", "act", "mark", "finish"}
         /\ place'[w] = "read" => ArchivePage(w) \/ CorrectLinks(w)
         /\ place'[w] = "pages" =>
              ReadSiteChanges(w) \/ ReadStationChanges(w) \/ NotifyPage(w)
         /\ place'[w] = "act" => MarkPush(w) \/ ReadRunView(w)
         /\ place'[w] = "mark" => ReadRunView(w) \/ PublishCompletion(w)
<1> USE DEF TypeOK, Goto
<1>1. CASE ArchivePage(w)
  BY <1>1 DEF ArchivePage
<1>2. CASE ReadSiteChanges(w) \/ ReadStationChanges(w)
  BY <1>2 DEF ReadSiteChanges, ReadStationChanges
<1>3. CASE NotifyPage(w)
  BY <1>3 DEF NotifyPage
<1>4. CASE EndPages(w)
  BY <1>4 DEF EndPages
<1>5. CASE PassThrough(w) \/ ReadRunView(w)
  BY <1>5 DEF PassThrough, ReadRunView
<1>6. CASE CorrectLinks(w)
  BY <1>6 DEF CorrectLinks
<1>7. CASE FinishInside(w) \/ MarkPush(w) \/ MarkPublished(w)
  BY <1>7 DEF FinishInside, MarkPush, MarkPublished
<1>8. CASE SendPush(w) \/ PublishCompletion(w)
  BY <1>8 DEF SendPush, PublishCompletion
<1>9. QED
  BY <1>1, <1>2, <1>3, <1>4, <1>5, <1>6, <1>7, <1>8 DEF Perform

\* A step has the places it has.
LEMMA PlacesOfStepsStep == ASSUME TypeOK, PlacesOfSteps, [Next]_vars PROVE PlacesOfSteps'
<1> SUFFICES ASSUME NEW v \in Workers
             PROVE  /\ place'[v] = "pages" => pos'[v] \in {2, 4}
                    /\ place'[v] = "act" => pos'[v] \in {7, 9}
                    /\ place'[v] = "mark" => pos'[v] = 9
                    /\ place'[v] = "end" => pos'[v] = Len(Steps)
  BY DEF PlacesOfSteps
<1>1. CASE Alone(v)
  BY <1>1 DEF Alone, PlacesOfSteps
<1>2. CASE Claim(v)
  BY <1>2, ClaimFrame
<1>3. CASE Leaves(v)
  BY <1>3, LeaveFrame
<1>4. CASE StartStep(v)
  <2>1. Advance(v) \/ Goto(v, "read")
    BY <1>4 DEF StartStep
  <2>2. CASE Advance(v)
    BY <2>2, AdvanceMoves, StepNames
  <2>3. CASE Goto(v, "read")
    BY <2>3 DEF Goto, TypeOK
  <2>4. QED
    BY <2>1, <2>2, <2>3
<1>5. CASE FinishStep(v)
  <2>1. Advance(v)
    BY <1>5 DEF FinishStep
  <2>2. QED
    BY <2>1, AdvanceMoves, StepNames
<1>6. CASE Perform(v)
  <2>1. NotifyPage(v) => place[v] = "pages"
    BY DEF NotifyPage
  <2>2. QED
    BY <1>6, <2>1, PerformMoves, WherePerformed DEF PlacesOfSteps
<1>7. CASE UNCHANGED vars \/ EndFromOutside
  BY <1>1, <1>7 DEF vars, workVars, EndFromOutside, Alone
<1>8. QED
  BY <1>1, <1>2, <1>3, <1>4, <1>5, <1>6, <1>7, StepKinds, ClaimFrame, LeaveFrame, WorkFrame
  DEF Works

\* What a step of a worker does to the rows of the steps.
LEMMA RowWrites ==
  ASSUME TypeOK, NEW w \in Workers, Works(w)
  PROVE  \/ /\ UNCHANGED step
            /\ ~FinishInside(w) /\ ~MarkPush(w) /\ ~MarkPublished(w) /\ ~FinishStep(w)
            /\ StartStep(w) => IsFinished(pos[w])
         \/ /\ StartStep(w) /\ ~IsFinished(pos[w])
            /\ step' = [step EXCEPT ![pos[w]] = "started"]
         \/ /\ FinishInside(w) \/ MarkPush(w) \/ MarkPublished(w) \/ FinishStep(w)
            /\ step' = [step EXCEPT ![pos[w]] = "finished"]
<1>1. CASE StartStep(w)
  <2>1. ~FinishInside(w) /\ ~MarkPush(w) /\ ~MarkPublished(w) /\ ~FinishStep(w)
    BY <1>1 DEF StartStep, FinishInside, MarkPush, MarkPublished, FinishStep, In
  <2>2. QED
    BY <1>1, <2>1 DEF StartStep
<1>2. CASE FinishInside(w) \/ MarkPublished(w) \/ FinishStep(w)
  BY <1>2 DEF FinishInside, MarkPublished, FinishStep
<1>3. CASE MarkPush(w)
  <2>1. pos[w] = 7 /\ 7 \in Positions
    BY <1>3, WherePerformed, StepNames
  <2>2. MarkedForPush = [step EXCEPT ![7] = "finished"]
    BY StepNames DEF MarkedForPush, TypeOK
  <2>3. QED
    BY <1>3, <2>1, <2>2 DEF MarkPush
<1>4. CASE /\ ~StartStep(w) /\ ~FinishInside(w) /\ ~MarkPush(w)
           /\ ~MarkPublished(w) /\ ~FinishStep(w)
  BY <1>4
  DEF Works, Perform, ArchivePage, ReadSiteChanges, ReadStationChanges, NotifyPage,
      EndPages, PassThrough, ReadRunView, CorrectLinks, SendPush, PublishCompletion,
      rowVars
<1>5. QED
  BY <1>1, <1>2, <1>3, <1>4


\* What a step of a worker does to the progress of the steps.
LEMMA ProgressWrites ==
  ASSUME TypeOK, NEW w \in Workers, Works(w)
  PROVE  \/ UNCHANGED lastSeq /\ ~NotifyPage(w)
         \/ /\ NotifyPage(w) \/ CorrectLinks(w)
            /\ \A i \in Positions : i # pos[w] => lastSeq'[i] = lastSeq[i]
<1>1. CASE NotifyPage(w) \/ CorrectLinks(w)
  BY <1>1 DEF NotifyPage, CorrectLinks, TypeOK
<1>2. CASE ~NotifyPage(w) /\ ~CorrectLinks(w)
  BY <1>2
  DEF Works, Perform, StartStep, FinishStep, ArchivePage, ReadSiteChanges,
      ReadStationChanges, EndPages, PassThrough, ReadRunView, FinishInside,
      MarkPush, MarkPublished, SendPush, PublishCompletion, rowVars
<1>3. QED
  BY <1>1, <1>2

\* What may have happened to a worker that owns the run after a step.
LEMMA OwnerCases ==
  ASSUME TypeOK, ClaimsDiffer, [Next]_vars, NEW v \in Workers, IsOwner(v)'
  PROVE  \/ Claim(v)
         \/ IsOwner(v) /\ Alone(v) /\ UNCHANGED <<attempt, rowVars, dataVars>>
         \/ IsOwner(v) /\ Works(v)
<1> SUFFICES ASSUME IsOwner(v)
             PROVE  \/ Alone(v) /\ UNCHANGED <<attempt, rowVars, dataVars>>
                    \/ Works(v)
  BY OwnerStays
<1>1. CASE UNCHANGED vars \/ EndFromOutside
  BY <1>1 DEF vars, workVars, EndFromOutside, Alone
<1>2. ASSUME NEW w \in Workers, Claim(w) PROVE FALSE
  <2>1. place[v] # "idle" /\ own[v] = attempt /\ own'[v] = attempt'
    BY DEF IsOwner
  <2>2. attempt = attempt + 1
    BY <1>2, <2>1, ClaimFrame DEF Alone
  <2>3. attempt \in Nat
    BY DEF TypeOK
  <2>4. QED
    BY <2>2, <2>3
<1>3. ASSUME NEW w \in Workers, Leaves(w)
      PROVE  Alone(v) /\ UNCHANGED <<attempt, rowVars, dataVars>>
  BY <1>3, LeaveFrame DEF IsOwner
<1>4. ASSUME NEW w \in Workers, Works(w), w # v
      PROVE  Alone(v) /\ UNCHANGED <<attempt, rowVars, dataVars>>
  <2>1. ~Owns(w)
    BY <1>4, WorkFrame, OneOwner, OwnsIsOwner
  <2>2. QED
    BY <1>4, <2>1, WorkFrame, WritersOwn
<1>5. QED
  BY <1>1, <1>2, <1>3, <1>4, StepKinds

\* The steps that change the rows of the steps or what the run has written are
\* steps of its owner.
LEMMA DatabaseCases ==
  ASSUME TypeOK, [Next]_vars
  PROVE  \/ UNCHANGED <<rowVars, dataVars>>
         \/ \E w \in Workers : Works(w) /\ IsOwner(w) /\ Owns(w)
<1>1. CASE UNCHANGED vars \/ EndFromOutside
  BY <1>1 DEF vars, EndFromOutside
<1>2. ASSUME NEW w \in Workers, Claim(w) \/ Leaves(w) PROVE UNCHANGED <<rowVars, dataVars>>
  BY <1>2, ClaimFrame, LeaveFrame
<1>3. ASSUME NEW w \in Workers, Works(w)
      PROVE  UNCHANGED <<rowVars, dataVars>> \/ (IsOwner(w) /\ Owns(w))
  BY <1>3, WritersOwn, WorkFrame, OwnsIsOwner
<1>4. QED
  BY <1>1, <1>2, <1>3, StepKinds

\* The rows are taken up in order, and progress is saved with a row.
LEMMA RowsInOrderStep ==
  ASSUME TypeOK, ClaimsDiffer, PlacesOfSteps, OwnerInOrder, StepsInOrder, NoRowNoProgress,
         [Next]_vars
  PROVE  StepsInOrder' /\ NoRowNoProgress'
<1>1. CASE UNCHANGED <<rowVars, dataVars>>
  BY <1>1 DEF rowVars, StepsInOrder, NoRowNoProgress
<1>2. ASSUME NEW w \in Workers, Works(w), IsOwner(w), Owns(w)
      PROVE  StepsInOrder' /\ NoRowNoProgress'
  <2>1. pos[w] \in Positions /\ Positions = 1 .. 10
    BY StepNames DEF TypeOK
  <2>2. \A i \in Positions : i < pos[w] => step[i] = "finished"
    BY <1>2 DEF OwnerInOrder
  <2>3. \/ UNCHANGED step
        \/ step[pos[w]] # "finished" /\ step' = [step EXCEPT ![pos[w]] = "started"]
        \/ step' = [step EXCEPT ![pos[w]] = "finished"]
    BY <1>2, RowWrites DEF IsFinished
  <2>4. StepsInOrder'
    BY <2>1, <2>2, <2>3 DEF StepsInOrder, TypeOK
  <2>5. \A i \in Positions : step'[i] = "absent" => step[i] = "absent"
    BY <2>1, <2>3 DEF TypeOK
  <2>6. NotifyPage(w) \/ CorrectLinks(w) => step'[pos[w]] # "absent"
    <3>1. NotifyPage(w) \/ CorrectLinks(w) => place[w] \in {"read", "pages"}
      BY WherePerformed DEF NotifyPage
    <3>2. NotifyPage(w) \/ CorrectLinks(w) => step[pos[w]] = "started"
      BY <1>2, <3>1 DEF OwnerInOrder
    <3>3. QED
      BY <2>1, <2>5, <3>2
  <2>7. NoRowNoProgress'
    BY <1>2, <2>5, <2>6, ProgressWrites DEF NoRowNoProgress
  <2>8. QED
    BY <2>4, <2>7
<1>3. QED
  BY <1>1, <1>2, DatabaseCases

\* The owner goes through the steps in order.
LEMMA OwnerInOrderStep ==
  ASSUME TypeOK, ClaimsDiffer, PlacesOfSteps, OwnerInOrder, [Next]_vars
  PROVE  OwnerInOrder'
<1> SUFFICES ASSUME NEW v \in Workers, IsOwner(v)'
             PROVE  /\ \A i \in Positions : i < pos'[v] => step'[i] = "finished"
                    /\ place'[v] \in {"read", "pages"} => step'[pos'[v]] = "started"
                    /\ place'[v] \in {"act", "mark", "finish"} => step'[pos'[v]] # "absent"
                    /\ place'[v] = "end" => step'[pos'[v]] = "finished"
                    /\ place'[v] = "read" => after'[v] = lastSeq'[pos'[v]]
  BY DEF OwnerInOrder
<1>0. pos[v] \in Positions /\ Positions = 1 .. 10 /\ step \in [Positions -> {"absent", "started", "finished"}]
  BY StepNames DEF TypeOK
<1>1. CASE Claim(v)
  <2>1. place'[v] = "start" /\ pos'[v] = 1
    BY <1>1, ClaimFrame DEF ClaimsDiffer
  <2>2. QED
    BY <1>0, <2>1
<1>2. CASE IsOwner(v) /\ Alone(v) /\ UNCHANGED <<attempt, rowVars, dataVars>>
  BY <1>2 DEF OwnerInOrder, Alone, rowVars
<1>3. CASE IsOwner(v) /\ StartStep(v)
  <2>1. \A i \in Positions : i < pos[v] => step[i] = "finished"
    BY <1>3 DEF OwnerInOrder
  <2>2. CASE IsFinished(pos[v])
    <3>1. Advance(v) /\ UNCHANGED step
      BY <1>3, <2>2 DEF StartStep
    <3>2. QED
      BY <1>0, <2>1, <2>2, <3>1, AdvanceMoves DEF IsFinished
  <2>3. CASE ~IsFinished(pos[v])
    <3>1. /\ step' = [step EXCEPT ![pos[v]] = "started"]
          /\ place'[v] = "read" /\ pos'[v] = pos[v]
          /\ after'[v] = lastSeq[pos[v]] /\ UNCHANGED lastSeq
      BY <1>3, <2>3 DEF StartStep, Goto, TypeOK
    <3>2. QED
      BY <1>0, <2>1, <3>1
  <2>4. QED
    BY <2>2, <2>3
<1>4. CASE IsOwner(v) /\ FinishStep(v)
  <2>1. \A i \in Positions : i < pos[v] => step[i] = "finished"
    BY <1>4 DEF OwnerInOrder
  <2>2. Advance(v) /\ step' = [step EXCEPT ![pos[v]] = "finished"]
    BY <1>4 DEF FinishStep
  <2>3. QED
    BY <1>0, <2>1, <2>2, AdvanceMoves
<1>5. CASE IsOwner(v) /\ Perform(v)
  <2>1. \A i \in Positions : i < pos[v] => step[i] = "finished"
    BY <1>5 DEF OwnerInOrder
  <2>2. Works(v) /\ ~StartStep(v) /\ ~FinishStep(v)
    BY <1>5
    DEF Works, Perform, StartStep, FinishStep, ArchivePage, ReadSiteChanges,
        ReadStationChanges, NotifyPage, EndPages, PassThrough, ReadRunView,
        CorrectLinks, FinishInside, MarkPush, MarkPublished, SendPush,
        PublishCompletion, In
  <2>3. step[pos[v]] # "absent"
    BY <1>5, WherePerformed DEF OwnerInOrder, Perform, NotifyPage, EndPages
  <2>4. UNCHANGED step \/ step' = [step EXCEPT ![pos[v]] = "finished"]
    BY <2>2, RowWrites
  <2>5. /\ \A i \in Positions : i < pos'[v] => step'[i] = "finished"
        /\ step'[pos'[v]] # "absent" /\ place'[v] # "end"
    BY <1>0, <1>5, <2>1, <2>3, <2>4, PerformMoves
  <2>6. place'[v] \in {"read", "pages"} => step'[pos'[v]] = "started"
    <3>1. SUFFICES ASSUME place'[v] \in {"read", "pages"} PROVE step'[pos'[v]] = "started"
      OBVIOUS
    <3>2. \/ ArchivePage(v) \/ CorrectLinks(v)
          \/ ReadSiteChanges(v) \/ ReadStationChanges(v) \/ NotifyPage(v)
      BY <1>5, <3>1, PerformMoves
    <3>3. step[pos[v]] = "started"
      BY <1>5, <3>2, WherePerformed DEF OwnerInOrder, NotifyPage
    <3>4. UNCHANGED step
      BY <3>2 DEF ArchivePage, CorrectLinks, ReadSiteChanges, ReadStationChanges, NotifyPage, rowVars
    <3>5. QED
      BY <1>5, <3>3, <3>4, PerformMoves
  <2>7. place'[v] = "read" => after'[v] = lastSeq'[pos'[v]]
    <3>1. SUFFICES ASSUME place'[v] = "read" PROVE after'[v] = lastSeq'[pos'[v]]
      OBVIOUS
    <3>2. ArchivePage(v) \/ CorrectLinks(v)
      BY <1>5, <3>1, PerformMoves
    <3>3. after[v] = lastSeq[pos[v]]
      BY <1>5, <3>2, WherePerformed DEF OwnerInOrder
    <3>4. CASE ArchivePage(v)
      BY <3>3, <3>4 DEF ArchivePage, rowVars
    <3>5. CASE CorrectLinks(v)
      BY <1>0, <3>3, <3>5 DEF CorrectLinks, TypeOK
    <3>6. QED
      BY <3>2, <3>4, <3>5
  <2>8. QED
    BY <2>5, <2>6, <2>7
<1>6. QED
  BY <1>1, <1>2, <1>3, <1>4, <1>5, OwnerCases DEF Works


-----------------------------------------------------------------------------
(* Notifications. *)

\* What a step of a worker does to the data of the run.
LEMMA DataWrites ==
  ASSUME NEW w \in Workers, Works(w)
  PROVE  /\ UNCHANGED <<watched, datasets>>
         /\ ArchivePage(w) \/ CorrectLinks(w) \/ UNCHANGED <<changes, unlisted, wrongLinks>>
         /\ NotifyPage(w) \/ UNCHANGED <<siteNotes, stationNotes>>
  BY DEF Works, Perform, StartStep, FinishStep, ArchivePage, ReadSiteChanges,
         ReadStationChanges, NotifyPage, EndPages, PassThrough, ReadRunView,
         CorrectLinks, FinishInside, MarkPush, MarkPublished, SendPush,
         PublishCompletion, dataVars

\* One of the first four steps is performed once its last page is.
LEMMA PerformedSteps ==
  ASSUME TypeOK, ClaimsDiffer, OwnerInOrder, [Next]_vars, NEW i \in 1 .. 4, Performed(i)'
  PROVE  \/ Performed(i)
         \/ \E w \in Workers :
              /\ IsOwner(w) /\ pos[w] = i /\ place'[w] = "finish"
              /\ ArchivePage(w) \/ EndPages(w) \/ CorrectLinks(w)
<1>0. i \in Positions /\ Positions = 1 .. 10
  BY StepNames
<1>1. CASE step'[i] = "finished"
  <2> SUFFICES ASSUME step[i] # "finished" PROVE Performed(i)
    BY DEF Performed
  <2>1. PICK w \in Workers : Works(w) /\ IsOwner(w) /\ Owns(w)
    BY <1>1, DatabaseCases DEF rowVars
  <2>2. /\ FinishInside(w) \/ MarkPush(w) \/ MarkPublished(w) \/ FinishStep(w)
        /\ pos[w] = i
    BY <1>0, <1>1, <2>1, RowWrites DEF TypeOK
  <2>3. FinishStep(w)
    BY <2>2, WherePerformed
  <2>4. QED
    BY <2>1, <2>2, <2>3 DEF FinishStep, Performed
<1>2. CASE step'[i] # "finished"
  <2>1. PICK w \in Workers : IsOwner(w)' /\ pos'[w] = i /\ place'[w] = "finish"
    BY <1>2 DEF Performed
  <2>2. CASE Claim(w)
    BY <2>1, <2>2, ClaimFrame
  <2>3. CASE IsOwner(w) /\ Alone(w)
    BY <2>1, <2>3 DEF Alone, Performed
  <2>4. CASE IsOwner(w) /\ Works(w)
    <3>1. CASE StartStep(w) \/ FinishStep(w)
      <4>1. Advance(w) \/ Goto(w, "read")
        BY <3>1 DEF StartStep, FinishStep
      <4>2. Advance(w) => place'[w] # "finish"
        BY AdvanceMoves
      <4>3. Goto(w, "read") => place'[w] # "finish"
        BY DEF Goto, TypeOK
      <4>4. QED
        BY <2>1, <4>1, <4>2, <4>3
    <3>2. CASE Perform(w)
      <4>1. pos[w] = i
        BY <2>1, <3>2, PerformMoves
      <4>2. NotifyPage(w) => place'[w] # "finish"
        BY DEF NotifyPage
      <4>3. ReadSiteChanges(w) \/ ReadStationChanges(w) => place'[w] # "finish"
        BY DEF ReadSiteChanges, ReadStationChanges, Goto, TypeOK
      <4>4. ArchivePage(w) \/ EndPages(w) \/ CorrectLinks(w)
        BY <2>1, <3>2, <4>1, <4>2, <4>3, WherePerformed DEF Perform
      <4>5. QED
        BY <2>1, <2>4, <4>1, <4>4
    <3>3. QED
      BY <2>4, <3>1, <3>2 DEF Works
  <2>5. QED
    BY <2>1, <2>2, <2>3, <2>4, OwnerCases
<1>3. QED
  BY <1>1, <1>2

\* A summary is a number, and 0 if there is nothing to tell.
LEMMA SummaryIsNat ==
  ASSUME TypeOK, NEW i \in {2, 4}, NEW s \in Sites
  PROVE  Summary(i, s) \in Nat
<1>1. changes \in Seq({"site", "link"} \X Sites) /\ Len(changes) \in Nat
  BY DEF TypeOK
<1>2. SummarySeq(s, {"site", "link"}) \in Nat /\ SummarySeq(s, {"site"}) \in Nat
  BY <1>1, SummarySeqIsLast
<1>3. QED
  BY <1>2 DEF Summary

\* The same of the next state.
LEMMA SummaryIsNatNext == (TypeOK => \A i \in {2, 4}, s \in Sites : Summary(i, s) \in Nat)'
<1>1. TypeOK => \A i \in {2, 4}, s \in Sites : Summary(i, s) \in Nat
  BY SummaryIsNat
<1>2. QED
  BY <1>1, PTL

\* The links step does not change what there is to tell of a site.
LEMMA LinksUnseenBySites ==
  ASSUME TypeOK, NEW w \in Workers, CorrectLinks(w), NEW s \in Sites
  PROVE  Summary(2, s)' = Summary(2, s)
<1>1. PICK S \in SUBSET Sites : \E q \in InOrder(S) :
        changes' = changes \o [i \in DOMAIN q |-> <<"link", q[i]>>]
  <2>1. wrongLinks \subseteq Sites
    BY DEF TypeOK
  <2>2. QED
    BY <2>1 DEF CorrectLinks
<1>2. /\ DOMAIN changes \subseteq DOMAIN changes'
      /\ \A n \in DOMAIN changes : changes'[n] = changes[n]
      /\ \A n \in DOMAIN changes' \ DOMAIN changes : changes'[n] \in {"link"} \X S
  BY <1>1, Appended DEF TypeOK
<1>3. SeqsOf(s, {"site"})' = SeqsOf(s, {"site"})
  BY <1>2 DEF SeqsOf
<1>4. UNCHANGED watched
  BY DEF CorrectLinks
<1>5. QED
  BY <1>3, <1>4 DEF Summary, SummarySeq

\* A page of notifications tells those whose summaries come next, and saves the
\* progress up to the last of them.
LEMMA NotifyPageTells ==
  ASSUME TypeOK, PlacesOfSteps, PlanIsTheRest,
         NEW w \in Workers, IsOwner(w), NotifyPage(w), NEW i \in {2, 4}, pos[w] = i
  PROVE  \E P \in SUBSET Sites :
           /\ lastSeq'[i] \in Nat /\ lastSeq[i] < lastSeq'[i]
           /\ \A s \in P : lastSeq[i] < Summary(i, s) /\ Summary(i, s) <= lastSeq'[i]
           /\ \A s \in Sites \ P : Summary(i, s) <= lastSeq[i] \/ lastSeq'[i] < Summary(i, s)
           /\ \A s \in Sites : Notes(i, s)' = IF s \in P THEN Notes(i, s) + 1 ELSE Notes(i, s)
           /\ \A j \in {2, 4} \ {i}, s \in Sites : Notes(j, s)' = Notes(j, s)
           /\ \A s \in Sites : plan'[w][s] = IF s \in P THEN 0 ELSE plan[w][s]
<1>0. place[w] = "pages" /\ i \in Positions
  BY StepNames DEF NotifyPage
<1>1. PICK P \in (SUBSET Planned(w)) \ {{}} :
       /\ IsPage(P, Planned(w), plan[w])
       /\ lastSeq' = [lastSeq EXCEPT ![pos[w]] = PageProgress(w, P)]
       /\ plan' = [plan EXCEPT ![w] = [s \in Sites |-> IF s \in P THEN 0 ELSE plan[w][s]]]
       /\ IF Steps[pos[w]] = "site_notifications"
          THEN /\ siteNotes' = [s \in Sites |-> siteNotes[s] + IF s \in P THEN 1 ELSE 0]
               /\ UNCHANGED stationNotes
          ELSE /\ stationNotes' = [s \in Sites |-> stationNotes[s] + IF s \in P THEN 1 ELSE 0]
               /\ UNCHANGED siteNotes
  BY DEF NotifyPage
<1>2. P \in SUBSET Sites /\ P \subseteq Planned(w) /\ P # {}
  BY <1>1 DEF Planned
<1>3. \A s \in Sites : plan[w][s] = IF Summary(i, s) > lastSeq[i] THEN Summary(i, s) ELSE 0
  BY <1>0 DEF PlanIsTheRest
<1>4. \A s \in Sites : Summary(i, s) \in Nat
  BY SummaryIsNat
<1>5. lastSeq[i] \in Nat
  BY <1>0 DEF TypeOK
<1> DEFINE m == PageProgress(w, P)
<1>6. m \in Nat /\ (\E s \in P : m = plan[w][s]) /\ \A s \in P : plan[w][s] <= m
  <2>1. \A s \in P : plan[w][s] <= Len(changes)
    BY <1>0, <1>2, PlanBounded
  <2>2. Len(changes) \in Nat
    BY DEF TypeOK
  <2>3. QED
    BY <1>2, <2>1, <2>2, PageProgressIsMax
<1>7. lastSeq'[i] = m
  BY <1>0, <1>1 DEF TypeOK
<1> HIDE DEF m
<1>8. \A s \in P : Summary(i, s) > lastSeq[i] /\ plan[w][s] = Summary(i, s)
  BY <1>2, <1>3, <1>4, <1>5 DEF Planned
<1>9. lastSeq[i] < m /\ \A s \in P : Summary(i, s) <= m
  BY <1>2, <1>4, <1>5, <1>6, <1>8
<1>10. ASSUME NEW s \in Sites \ P PROVE Summary(i, s) <= lastSeq[i] \/ m < Summary(i, s)
  <2> SUFFICES ASSUME Summary(i, s) > lastSeq[i] PROVE m < Summary(i, s)
    BY <1>4, <1>5
  <2>1. plan[w][s] = Summary(i, s) /\ s \in Planned(w) \ P
    BY <1>3, <1>4, <1>5 DEF Planned
  <2>2. \A p \in P : plan[w][p] < plan[w][s]
    BY <1>1, <2>1 DEF IsPage
  <2>3. QED
    BY <1>6, <2>1, <2>2
<1>11. \A s \in Sites : siteNotes[s] \in Nat /\ stationNotes[s] \in Nat
  BY DEF TypeOK
<1>12. \A s \in Sites : Notes(i, s)' = IF s \in P THEN Notes(i, s) + 1 ELSE Notes(i, s)
  BY <1>0, <1>1, <1>11, StepNames DEF Notes
<1>13. \A j \in {2, 4} \ {i}, s \in Sites : Notes(j, s)' = Notes(j, s)
  BY <1>0, <1>1, StepNames DEF Notes
<1>14. \A s \in Sites : plan'[w][s] = IF s \in P THEN 0 ELSE plan[w][s]
  BY <1>1 DEF TypeOK
<1>15. /\ lastSeq'[i] \in Nat /\ lastSeq[i] < lastSeq'[i]
       /\ \A s \in P : lastSeq[i] < Summary(i, s) /\ Summary(i, s) <= lastSeq'[i]
       /\ \A s \in Sites \ P : Summary(i, s) <= lastSeq[i] \/ lastSeq'[i] < Summary(i, s)
  BY <1>2, <1>4, <1>5, <1>6, <1>7, <1>8, <1>9, <1>10
<1>16. QED
  BY <1>2, <1>12, <1>13, <1>14, <1>15, Zenon


\* While a step is under way, the steps after it have no row, no progress, and
\* are not performed.
LEMMA LaterStepsUntouched ==
  ASSUME TypeOK, ClaimsDiffer, StepsInOrder, NoRowNoProgress, NEW w \in Workers, IsOwner(w),
         step[pos[w]] = "started", NEW j \in Positions, pos[w] < j
  PROVE  step[j] = "absent" /\ lastSeq[j] = 0 /\ ~Performed(j)
<1>1. pos[w] \in Positions /\ step[j] \in {"absent", "started", "finished"}
  BY DEF TypeOK
<1>2. step[j] = "absent"
  BY <1>1 DEF StepsInOrder
<1>3. \A v \in Workers : IsOwner(v) => pos[v] # j
  <2>1. \A v \in Workers : IsOwner(v) => v = w
    BY OneOwner
  <2>2. pos[w] # j
    BY <1>1, StepNames
  <2>3. QED
    BY <2>1, <2>2
<1>4. QED
  BY <1>2, <1>3 DEF NoRowNoProgress, Performed

\* What has been told follows the progress, in every page and every attempt.
LEMMA NotesFollowProgressStep == ASSUME Inv, [Next]_vars PROVE NotesFollowProgress'
<1>0. TypeOK /\ ClaimsDiffer /\ PlacesOfSteps /\ OwnerInOrder /\ StepsInOrder
      /\ NoRowNoProgress /\ NotesFollowProgress /\ PlanIsTheRest
  BY DEF Inv
<1> SUFFICES ASSUME NEW i \in {2, 4}, NEW s \in Sites
             PROVE  /\ Notes(i, s)' = IF Summary(i, s)' > 0 /\ Summary(i, s)' <= lastSeq'[i]
                                      THEN 1 ELSE 0
                    /\ Performed(i)' => Summary(i, s)' <= lastSeq'[i]
  BY DEF NotesFollowProgress
<1>1. /\ Notes(i, s) = IF Summary(i, s) > 0 /\ Summary(i, s) <= lastSeq[i] THEN 1 ELSE 0
      /\ Performed(i) => Summary(i, s) <= lastSeq[i]
  BY <1>0 DEF NotesFollowProgress
<1>2. Summary(i, s) \in Nat /\ i \in Positions /\ i \in 1 .. 4 /\ lastSeq[i] \in Nat
  <2>1. i \in Positions
    BY StepNames
  <2>2. QED
    BY <1>0, <2>1, SummaryIsNat DEF TypeOK
<1>3. ASSUME NEW w \in Workers, IsOwner(w), pos[w] = i, EndPages(w)
      PROVE  Summary(i, s) <= lastSeq[i]
  <2>1. place[w] = "pages" /\ ~(plan[w][s] > 0) /\ plan[w][s] \in Nat
    BY <1>0, <1>3 DEF EndPages, Planned, TypeOK
  <2>2. QED
    BY <1>0, <1>2, <1>3, <2>1 DEF PlanIsTheRest
<1>4. Performed(i)' => Summary(i, s) <= lastSeq[i]
  <2>1. \A w \in Workers : pos[w] = i => ~ArchivePage(w) /\ ~CorrectLinks(w)
    BY <1>0, WherePerformed
  <2>2. QED
    BY <1>0, <1>1, <1>2, <1>3, <2>1, PerformedSteps
<1>5. CASE UNCHANGED <<changes, watched, siteNotes, stationNotes, lastSeq>>
  <2>1. Summary(i, s)' = Summary(i, s) /\ Notes(i, s)' = Notes(i, s) /\ lastSeq'[i] = lastSeq[i]
    BY <1>5 DEF Summary, SummarySeq, SeqsOf, Notes
  <2>2. QED
    BY <1>1, <1>4, <2>1
<1>6. ASSUME NEW w \in Workers, IsOwner(w), NotifyPage(w), Works(w)
      PROVE  /\ Notes(i, s)' = IF Summary(i, s)' > 0 /\ Summary(i, s)' <= lastSeq'[i]
                               THEN 1 ELSE 0
             /\ Performed(i)' => Summary(i, s)' <= lastSeq'[i]
  <2>1. Summary(i, s)' = Summary(i, s)
    BY <1>6 DEF NotifyPage, Summary, SummarySeq, SeqsOf
  <2>2. PICK k \in {2, 4} : k = pos[w]
    BY <1>0, <1>6 DEF NotifyPage, PlacesOfSteps
  <2>3. PICK P \in SUBSET Sites :
           /\ lastSeq'[k] \in Nat /\ lastSeq[k] < lastSeq'[k]
           /\ \A t \in P : lastSeq[k] < Summary(k, t) /\ Summary(k, t) <= lastSeq'[k]
           /\ \A t \in Sites \ P : Summary(k, t) <= lastSeq[k] \/ lastSeq'[k] < Summary(k, t)
           /\ \A t \in Sites : Notes(k, t)' = IF t \in P THEN Notes(k, t) + 1 ELSE Notes(k, t)
           /\ \A j \in {2, 4} \ {k}, t \in Sites : Notes(j, t)' = Notes(j, t)
    BY <1>0, <1>6, <2>2, NotifyPageTells
  <2>4. CASE i = k
    <3>1. \/ s \in P /\ lastSeq[i] < Summary(i, s) /\ Summary(i, s) <= lastSeq'[i]
          \/ s \notin P /\ Summary(i, s) <= lastSeq[i]
          \/ s \notin P /\ lastSeq'[i] < Summary(i, s)
      BY <2>3, <2>4
    <3>2. lastSeq'[i] \in Nat /\ lastSeq[i] < lastSeq'[i]
      BY <2>3, <2>4
    <3>3. Notes(i, s)' = IF s \in P THEN Notes(i, s) + 1 ELSE Notes(i, s)
      BY <2>3, <2>4
    <3>4. QED
      BY <1>1, <1>2, <1>4, <2>1, <3>1, <3>2, <3>3
  <2>5. CASE i # k
    <3>1. lastSeq'[i] = lastSeq[i]
      BY <1>0, <1>2, <1>6, <2>2, <2>5, ProgressWrites
    <3>2. Notes(i, s)' = Notes(i, s)
      BY <2>3, <2>5
    <3>3. QED
      BY <1>1, <1>4, <2>1, <3>1, <3>2
  <2>6. QED
    BY <2>4, <2>5
<1>7. ASSUME NEW w \in Workers, IsOwner(w), Works(w), ArchivePage(w) \/ CorrectLinks(w)
      PROVE  /\ Notes(i, s)' = IF Summary(i, s)' > 0 /\ Summary(i, s)' <= lastSeq'[i]
                               THEN 1 ELSE 0
             /\ Performed(i)' => Summary(i, s)' <= lastSeq'[i]
  <2>1. place[w] = "read" /\ pos[w] \in {1, 3} /\ (CorrectLinks(w) => pos[w] = 3)
    BY <1>0, <1>7, WherePerformed
  <2>2. step[pos[w]] = "started"
    BY <1>0, <1>7, <2>1 DEF OwnerInOrder
  <2>3. ~NotifyPage(w)
    BY <2>1 DEF NotifyPage
  <2>4. Notes(i, s)' = Notes(i, s)
    BY <1>7, <2>3, DataWrites DEF Notes
  <2>5. lastSeq'[i] = lastSeq[i]
    BY <1>0, <1>2, <1>7, <2>1, ProgressWrites
  <2>6. CASE pos[w] < i
    <3>1. lastSeq[i] = 0 /\ ~Performed(i)
      BY <1>0, <1>2, <1>7, <2>2, <2>6, LaterStepsUntouched
    <3>2. Notes(i, s) = 0
      BY <1>1, <1>2, <3>1
    <3>3. ~Performed(i)'
      BY <1>0, <1>2, <2>1, <3>1, <2>6, PerformedSteps, OneOwner, <1>7
    <3>4. Summary(i, s)' \in Nat
      BY <1>0, TypeOKStep, SummaryIsNatNext
    <3>5. QED
      BY <2>4, <2>5, <3>1, <3>2, <3>3, <3>4
  <2>7. CASE ~(pos[w] < i)
    <3>1. i = 2 /\ CorrectLinks(w)
      BY <1>7, <2>1, <2>7, <1>0, WherePerformed
    <3>2. Summary(i, s)' = Summary(i, s)
      BY <1>0, <3>1, LinksUnseenBySites
    <3>3. QED
      BY <1>1, <1>4, <2>4, <2>5, <3>2
  <2>8. QED
    BY <2>6, <2>7
<1>8. ASSUME NEW w \in Workers, Works(w), ~NotifyPage(w), ~ArchivePage(w), ~CorrectLinks(w)
      PROVE  UNCHANGED <<changes, watched, siteNotes, stationNotes, lastSeq>>
  BY <1>0, <1>8, DataWrites, ProgressWrites
<1>9. QED
  BY <1>0, <1>5, <1>6, <1>7, <1>8, DatabaseCases DEF rowVars, dataVars


\* The plan of the owner is what is left to tell.
LEMMA PlanIsTheRestStep == ASSUME Inv, [Next]_vars PROVE PlanIsTheRest'
<1>0. TypeOK /\ ClaimsDiffer /\ PlacesOfSteps /\ OwnerInOrder /\ PlanIsTheRest
  BY DEF Inv
<1> SUFFICES ASSUME NEW v \in Workers, IsOwner(v)', place'[v] = "pages", NEW s \in Sites
             PROVE  plan'[v][s] = (IF Summary(pos[v], s) > lastSeq[pos[v]]
                                   THEN Summary(pos[v], s) ELSE 0)'
  BY DEF PlanIsTheRest
<1>1. CASE Claim(v)
  BY <1>0, <1>1, ClaimFrame
<1>2. CASE IsOwner(v) /\ Alone(v) /\ UNCHANGED <<attempt, rowVars, dataVars>>
  BY <1>0, <1>2 DEF PlanIsTheRest, Alone, rowVars, dataVars, Summary, SummarySeq, SeqsOf
<1>3. CASE IsOwner(v) /\ Works(v)
  <2>1. Perform(v)
    <3>1. ASSUME StartStep(v) \/ FinishStep(v) PROVE FALSE
      <4>1. Advance(v) \/ Goto(v, "read")
        BY <3>1 DEF StartStep, FinishStep
      <4>2. Advance(v) => place'[v] # "pages"
        BY <1>0, AdvanceMoves
      <4>3. Goto(v, "read") => place'[v] # "pages"
        BY <1>0 DEF Goto, TypeOK
      <4>4. QED
        BY <4>1, <4>2, <4>3
    <3>2. QED
      BY <1>3, <3>1 DEF Works
  <2>2. PICK k \in {2, 4} : k = pos[v] /\ k = pos'[v] /\ k \in Positions
    <3>1. pos'[v] = pos[v] /\ pos[v] \in Positions
      BY <1>0, <2>1, PerformMoves DEF TypeOK
    <3>2. pos[v] \in {2, 4}
      BY <1>0, <2>1, PerformMoves, WherePerformed DEF PlacesOfSteps, NotifyPage
    <3>3. QED
      BY <3>1, <3>2
  <2>3. SUFFICES plan'[v][s] = IF Summary(k, s)' > lastSeq'[k] THEN Summary(k, s)' ELSE 0
    BY <2>2 DEF Summary
  <2>4. CASE ReadSiteChanges(v) \/ ReadStationChanges(v)
    <3>1. /\ UNCHANGED <<changes, watched, lastSeq>>
          /\ after[v] = lastSeq[k]
          /\ ReadSiteChanges(v) => k = 2
          /\ ReadStationChanges(v) => k = 4
      BY <1>0, <1>3, <2>2, <2>4, WherePerformed
      DEF OwnerInOrder, ReadSiteChanges, ReadStationChanges, rowVars, dataVars
    <3>2. Summary(k, s)' = Summary(k, s)
      BY <3>1 DEF Summary, SummarySeq, SeqsOf
    <3>3. plan'[v][s] = Pending(v, Summary(k, s))
      <4>1. CASE ReadStationChanges(v)
        BY <1>0, <3>1, <4>1 DEF ReadStationChanges, Summary, TypeOK
      <4>2. CASE ReadSiteChanges(v)
        <5>1. plan'[v][s] = IF s \in watched THEN Pending(v, SummarySeq(s, {"site"})) ELSE 0
          BY <1>0, <4>2 DEF ReadSiteChanges, TypeOK
        <5>2. k = 2 /\ after[v] \in Nat
          BY <1>0, <3>1, <4>2 DEF TypeOK
        <5>3. CASE s \in watched
          BY <5>1, <5>2, <5>3 DEF Summary
        <5>4. CASE s \notin watched
          BY <5>1, <5>2, <5>4 DEF Summary, Pending
        <5>5. QED
          BY <5>3, <5>4
      <4>3. QED
        BY <2>4, <4>1, <4>2
    <3>4. QED
      BY <3>1, <3>2, <3>3 DEF Pending
  <2>5. CASE NotifyPage(v)
    <3>1. Summary(k, s)' = Summary(k, s)
      BY <2>5 DEF NotifyPage, Summary, SummarySeq, SeqsOf
    <3>2. PICK P \in SUBSET Sites :
             /\ lastSeq'[k] \in Nat /\ lastSeq[k] < lastSeq'[k]
             /\ \A t \in P : lastSeq[k] < Summary(k, t) /\ Summary(k, t) <= lastSeq'[k]
             /\ \A t \in Sites \ P : Summary(k, t) <= lastSeq[k] \/ lastSeq'[k] < Summary(k, t)
             /\ \A t \in Sites : plan'[v][t] = IF t \in P THEN 0 ELSE plan[v][t]
      BY <1>0, <1>3, <2>2, <2>5, NotifyPageTells
    <3>3. plan[v][s] = IF Summary(k, s) > lastSeq[k] THEN Summary(k, s) ELSE 0
      BY <1>0, <1>3, <2>2, <2>5 DEF PlanIsTheRest, NotifyPage
    <3>4. Summary(k, s) \in Nat /\ lastSeq[k] \in Nat
      BY <1>0, <2>2, SummaryIsNat DEF TypeOK
    <3>5. QED
      BY <3>1, <3>2, <3>3, <3>4
  <2>6. QED
    BY <1>0, <2>1, <2>4, <2>5, PerformMoves
<1>4. QED
  BY <1>0, <1>1, <1>2, <1>3, OwnerCases

-----------------------------------------------------------------------------
(* Permits and links. *)

\* The last page of unlisted permits leaves none, and the last page of changed
\* sites leaves no wrong link.
LEMMA LinksAheadStep == ASSUME Inv, [Next]_vars PROVE LinksAhead'
<1>0. TypeOK /\ ClaimsDiffer /\ PlacesOfSteps /\ OwnerInOrder /\ StepsInOrder
      /\ NoRowNoProgress /\ LinksAhead
  BY DEF Inv
<1>1. 1 \in 1 .. 4 /\ 3 \in 1 .. 4 /\ 1 \in Positions /\ 3 \in Positions
  BY StepNames
<1>2. /\ Performed(1)' => \/ Performed(1)
                          \/ \E w \in Workers : IsOwner(w) /\ place'[w] = "finish" /\ ArchivePage(w)
      /\ Performed(3)' => \/ Performed(3)
                          \/ \E w \in Workers : IsOwner(w) /\ place'[w] = "finish" /\ CorrectLinks(w)
  <2>1. \A w \in Workers : EndPages(w) => pos[w] \in {2, 4}
    BY <1>0 DEF EndPages, PlacesOfSteps
  <2>2. \A w \in Workers : (ArchivePage(w) => pos[w] = 1) /\ (CorrectLinks(w) => pos[w] = 3)
    BY <1>0, WherePerformed
  <2>3. QED
    BY <1>0, <1>1, <2>1, <2>2, PerformedSteps
<1>3. CASE /\ UNCHANGED <<changes, unlisted, wrongLinks>>
           /\ \A w \in Workers : ~ArchivePage(w) /\ ~CorrectLinks(w)
           /\ lastSeq'[3] = lastSeq[3]
  <2>1. (Performed(1)' => Performed(1)) /\ (Performed(3)' => Performed(3))
    BY <1>2, <1>3
  <2>2. QED
    BY <1>0, <1>3, <2>1 DEF LinksAhead
<1>4. ASSUME NEW w \in Workers, IsOwner(w), Works(w), ArchivePage(w) PROVE LinksAhead'
  <2>1. PICK P \in SUBSET unlisted :
          /\ IsPage(P, unlisted, [s \in Sites |-> s])
          /\ \E q \in InOrder(P) : changes' = changes \o [i \in DOMAIN q |-> <<"site", q[i]>>]
          /\ unlisted' = unlisted \ P
          /\ Goto(w, IF Cardinality(P) < PageSize THEN "finish" ELSE "read")
    BY <1>4 DEF ArchivePage
  <2>2. UNCHANGED <<wrongLinks, lastSeq>> /\ place[w] = "read" /\ pos[w] = 1
    BY <1>0, <1>4, WherePerformed DEF ArchivePage, rowVars
  <2>3. step[pos[w]] = "started" /\ pos[w] < 3
    BY <1>0, <1>4, <2>2 DEF OwnerInOrder
  <2>4. lastSeq[3] = 0 /\ ~Performed(3)
    BY <1>0, <1>1, <1>4, <2>3, LaterStepsUntouched
  <2>5. place'[w] = "finish" => unlisted' = {}
    <3>1. IsFiniteSet(unlisted)
      BY <1>0, SitesFinite, FS_Subset DEF TypeOK
    <3>2. Cardinality(P) < PageSize => P = unlisted
      BY <2>1, <3>1, ShortPageIsAll
    <3>3. place'[w] = "finish" => Cardinality(P) < PageSize
      BY <1>0, <2>1 DEF Goto, TypeOK
    <3>4. QED
      BY <2>1, <3>2, <3>3
  <2>6. ~Performed(1)
    <3>1. \A v \in Workers : IsOwner(v) => place[v] # "finish"
      BY <1>0, <1>4, <2>2, OneOwner
    <3>2. QED
      BY <2>2, <2>3, <3>1 DEF Performed
  <2>7. Performed(1)' => unlisted' = {}
    <3>1. \A v \in Workers : IsOwner(v) => v = w
      BY <1>0, <1>4, OneOwner
    <3>2. QED
      BY <1>2, <2>5, <2>6, <3>1
  <2>8. ASSUME NEW s \in wrongLinks'
        PROVE  \/ s \in unlisted'
               \/ \E n \in DOMAIN changes' : n > lastSeq'[3] /\ changes'[n] = <<"site", s>>
    <3>1. P \in SUBSET Sites /\ changes \in Seq({"site", "link"} \X Sites) /\ Len(changes) \in Nat
      BY <1>0 DEF TypeOK
    <3>2. /\ DOMAIN changes \subseteq DOMAIN changes'
          /\ \A n \in DOMAIN changes : changes'[n] = changes[n]
          /\ \A t \in P : \E n \in DOMAIN changes' : n > Len(changes) /\ changes'[n] = <<"site", t>>
          /\ changes' \in Seq({"site", "link"} \X Sites)
      BY <2>1, <3>1, Appended
    <3>3. CASE s \in P
      <4>1. PICK n \in DOMAIN changes' : n > Len(changes) /\ changes'[n] = <<"site", s>>
        BY <3>2, <3>3
      <4>2. n > 0
        BY <3>1, <3>2, <4>1
      <4>3. QED
        BY <2>2, <2>4, <4>1, <4>2
    <3>4. CASE s \notin P
      BY <1>0, <2>1, <2>2, <2>8, <3>2, <3>4 DEF LinksAhead
    <3>5. QED
      BY <3>3, <3>4
  <2>9. ~Performed(3)'
    <3>1. ~CorrectLinks(w)
      BY <1>0, <2>2, WherePerformed
    <3>2. \A v \in Workers : IsOwner(v) => v = w
      BY <1>0, <1>4, OneOwner
    <3>3. QED
      BY <1>2, <2>4, <3>1, <3>2
  <2>10. QED
    BY <2>7, <2>8, <2>9 DEF LinksAhead
<1>5. ASSUME NEW w \in Workers, IsOwner(w), Works(w), CorrectLinks(w) PROVE LinksAhead'
  <2> DEFINE left == {n \in DOMAIN changes : n > after[w] /\ changes[n][1] = "site"}
  <2> DEFINE SitesOf(page) == wrongLinks \cap {changes[n][2] : n \in page}
  <2>1. PICK page \in SUBSET left :
          /\ IsPage(page, left, [n \in left |-> n])
          /\ \E q \in InOrder(SitesOf(page)) :
               changes' = changes \o [i \in DOMAIN q |-> <<"link", q[i]>>]
          /\ wrongLinks' = wrongLinks \ SitesOf(page)
          /\ IF page = {}
             THEN UNCHANGED <<lastSeq, after>>
             ELSE /\ lastSeq' = [lastSeq EXCEPT ![pos[w]] = SetMax(page)]
                  /\ after' = [after EXCEPT ![w] = SetMax(page)]
          /\ Goto(w, IF Cardinality(page) < PageSize THEN "finish" ELSE "read")
    BY <1>5 DEF CorrectLinks
  <2>2. UNCHANGED unlisted /\ place[w] = "read" /\ pos[w] = 3
    BY <1>0, <1>5, WherePerformed DEF CorrectLinks
  <2>3. unlisted = {}
    <3>1. 1 < pos[w] /\ step[1] = "finished"
      BY <1>0, <1>1, <1>5, <2>2 DEF OwnerInOrder
    <3>2. QED
      BY <1>0, <3>1 DEF LinksAhead, Performed
  <2>4. after[w] = lastSeq[3] /\ lastSeq[3] \in Nat
    BY <1>0, <1>1, <1>5, <2>2 DEF OwnerInOrder, TypeOK
  <2>5. /\ changes \in Seq({"site", "link"} \X Sites) /\ Len(changes) \in Nat
        /\ DOMAIN changes = 1 .. Len(changes)
    BY <1>0 DEF TypeOK
  <2>6. /\ DOMAIN changes \subseteq DOMAIN changes'
        /\ \A n \in DOMAIN changes : changes'[n] = changes[n]
    <3>1. SitesOf(page) \in SUBSET Sites
      BY <1>0 DEF TypeOK
    <3>2. QED
      BY <2>1, <2>5, <3>1, Appended
  <2>7. ASSUME NEW s \in wrongLinks'
        PROVE  \E n \in left : n \notin page /\ changes[n] = <<"site", s>>
    <3>1. s \in wrongLinks /\ s \notin SitesOf(page)
      BY <2>1, <2>7
    <3>2. PICK n \in DOMAIN changes : n > lastSeq[3] /\ changes[n] = <<"site", s>>
      BY <1>0, <2>3, <3>1 DEF LinksAhead
    <3>3. n \in left /\ changes[n][2] = s
      BY <2>4, <3>2
    <3>4. n \notin page
      BY <3>1, <3>3
    <3>5. QED
      BY <3>2, <3>3, <3>4
  <2>8. page # {} => /\ SetMax(page) \in page
                     /\ lastSeq'[3] = SetMax(page)
    <3>1. page \in SUBSET Nat /\ \A n \in page : n <= Len(changes)
      BY <2>5
    <3>2. page # {} => SetMax(page) \in page
      BY <2>5, <3>1, SetMaxIsMax
    <3>3. page # {} => lastSeq'[3] = SetMax(page)
      BY <1>0, <1>1, <2>1, <2>2 DEF TypeOK
    <3>4. QED
      BY <3>2, <3>3
  <2>9. ASSUME NEW s \in wrongLinks'
        PROVE  \E n \in DOMAIN changes' : n > lastSeq'[3] /\ changes'[n] = <<"site", s>>
    <3>1. PICK n \in left : n \notin page /\ changes[n] = <<"site", s>>
      BY <2>7, <2>9
    <3>2. n \in DOMAIN changes /\ n > lastSeq[3]
      BY <2>4, <3>1
    <3>3. n > lastSeq'[3]
      <4>1. CASE page = {}
        BY <2>1, <3>2, <4>1
      <4>2. CASE page # {}
        <5>1. \A p \in page : p < n
          BY <2>1, <3>1 DEF IsPage
        <5>2. SetMax(page) < n /\ SetMax(page) \in Nat /\ n \in Nat
          BY <2>5, <2>8, <3>2, <4>2, <5>1
        <5>3. QED
          BY <2>8, <4>2, <5>2
      <4>3. QED
        BY <4>1, <4>2
    <3>4. QED
      BY <2>6, <3>1, <3>2, <3>3
  <2>10. place'[w] = "finish" => wrongLinks' = {}
    <3>1. IsFiniteSet(left)
      <4>1. left \in SUBSET Nat /\ \A n \in left : n <= Len(changes)
        BY <2>5
      <4>2. QED
        BY <2>5, <4>1, FS_BoundedSetOfNaturals
    <3>2. Cardinality(page) < PageSize => page = left
      BY <2>1, <3>1, ShortPageIsAll
    <3>3. place'[w] = "finish" => Cardinality(page) < PageSize
      BY <1>0, <2>1 DEF Goto, TypeOK
    <3>4. QED
      BY <2>7, <3>2, <3>3
  <2>11. ~Performed(3)
    <3>1. \A v \in Workers : IsOwner(v) => place[v] # "finish"
      BY <1>0, <1>5, <2>2, OneOwner
    <3>2. step[3] = "started"
      BY <1>0, <1>5, <2>2 DEF OwnerInOrder
    <3>3. QED
      BY <3>1, <3>2 DEF Performed
  <2>12. Performed(3)' => wrongLinks' = {}
    <3>1. \A v \in Workers : IsOwner(v) => v = w
      BY <1>0, <1>5, OneOwner
    <3>2. QED
      BY <1>2, <2>10, <2>11, <3>1
  <2>13. QED
    BY <2>2, <2>3, <2>9, <2>12 DEF LinksAhead
<1>6. ASSUME NEW w \in Workers, Works(w), ~ArchivePage(w), ~CorrectLinks(w)
      PROVE  UNCHANGED <<changes, unlisted, wrongLinks>> /\ lastSeq'[3] = lastSeq[3]
  <2>1. NotifyPage(w) => pos[w] # 3
    BY <1>0 DEF NotifyPage, PlacesOfSteps
  <2>2. QED
    BY <1>0, <1>1, <1>6, <2>1, DataWrites, ProgressWrites
<1>7. ASSUME NEW w \in Workers, ArchivePage(w) \/ CorrectLinks(w) PROVE LinksAhead'
  <2>1. Works(w) /\ Owns(w) /\ place[w] # "idle"
    BY <1>7 DEF Works, Perform, ArchivePage, CorrectLinks, In
  <2>2. QED
    BY <1>4, <1>5, <1>7, <2>1, OwnsIsOwner
<1>8. CASE \A w \in Workers : ~ArchivePage(w) /\ ~CorrectLinks(w)
  BY <1>0, <1>3, <1>6, <1>8, DatabaseCases DEF rowVars, dataVars
<1>9. QED
  BY <1>7, <1>8


-----------------------------------------------------------------------------
(* The push, the announcement and the end of the run. *)

\* What a step of a worker sends.
LEMMA WorldWrites ==
  ASSUME NEW w \in Workers, Works(w)
  PROVE  /\ SendPush(w) => pushes' = pushes + 1
         /\ ~SendPush(w) => UNCHANGED pushes
         /\ PublishCompletion(w) => published' = published + 1
         /\ ~PublishCompletion(w) => UNCHANGED published
<1>1. SendPush(w) => pushes' = pushes + 1 /\ UNCHANGED published
  BY DEF SendPush
<1>2. PublishCompletion(w) => published' = published + 1 /\ UNCHANGED pushes
  BY DEF PublishCompletion
<1>3. ~SendPush(w) /\ ~PublishCompletion(w) => UNCHANGED <<pushes, published>>
  BY DEF Works, Perform, StartStep, FinishStep, ArchivePage, ReadSiteChanges,
         ReadStationChanges, NotifyPage, EndPages, PassThrough, ReadRunView,
         CorrectLinks, FinishInside, MarkPush, MarkPublished, worldVars
<1>4. QED
  BY <1>1, <1>2, <1>3

\* A finished step stays finished.
LEMMA FinishedStays ==
  ASSUME TypeOK, [Next]_vars, NEW i \in Positions, step[i] = "finished"
  PROVE  step'[i] = "finished"
<1>1. CASE UNCHANGED <<rowVars, dataVars>>
  BY <1>1 DEF rowVars
<1>2. ASSUME NEW w \in Workers, Works(w) PROVE step'[i] = "finished"
  BY <1>2, RowWrites DEF IsFinished, TypeOK
<1>3. QED
  BY <1>1, <1>2, DatabaseCases

\* Where a worker gets to by work: a place other than these two comes of Perform.
LEMMA BetweenSteps ==
  ASSUME TypeOK, NEW w \in Workers, StartStep(w) \/ FinishStep(w)
  PROVE  place'[w] \in {"start", "end", "read"}
<1>1. Advance(w) \/ Goto(w, "read")
  BY DEF StartStep, FinishStep
<1>2. CASE Advance(w)
  BY <1>2, AdvanceMoves
<1>3. CASE Goto(w, "read")
  BY <1>3 DEF Goto, TypeOK
<1>4. QED
  BY <1>1, <1>2, <1>3

\* The push goes out of the one transaction that marked it.
LEMMA PushIsMarkedStep == ASSUME Inv, [Next]_vars PROVE PushIsMarked'
<1>0. TypeOK /\ ClaimsDiffer /\ OwnerInOrder /\ PushIsMarked /\ pushes \in Nat
  BY DEF Inv, TypeOK
<1>1. 7 \in Positions /\ (step[7] = "finished" => step'[7] = "finished")
  BY <1>0, StepNames, FinishedStays
<1>2. CASE UNCHANGED pushes /\ \A v \in Workers : AtPush(v)' => AtPush(v)
  BY <1>0, <1>1, <1>2 DEF PushIsMarked
<1>3. CASE UNCHANGED vars \/ EndFromOutside
  BY <1>2, <1>3 DEF vars, EndFromOutside, workVars, worldVars, AtPush
<1>4. ASSUME NEW w \in Workers, Claim(w) PROVE PushIsMarked'
  BY <1>0, <1>2, <1>4, ClaimFrame DEF AtPush, Alone, worldVars
<1>5. ASSUME NEW w \in Workers, Leaves(w) PROVE PushIsMarked'
  BY <1>0, <1>2, <1>5, LeaveFrame DEF AtPush, Alone, worldVars
<1>6. ASSUME NEW w \in Workers, Works(w) PROVE PushIsMarked'
  <2>1. \A v \in Workers : v # w => (AtPush(v)' <=> AtPush(v))
    BY <1>0, <1>6, WorkFrame DEF AtPush, Alone
  <2>2. AtPush(w)' => MarkPush(w)
    <3> SUFFICES ASSUME AtPush(w)' PROVE MarkPush(w)
      OBVIOUS
    <3>1. place'[w] = "act" /\ pos'[w] = 7
      BY DEF AtPush
    <3>2. Perform(w)
      BY <1>0, <1>6, <3>1, BetweenSteps DEF Works
    <3>3. QED
      BY <1>0, <3>1, <3>2, PerformMoves, WherePerformed
  <2>3. CASE MarkPush(w)
    <3>1. place[w] = "read" /\ pos[w] = 7 /\ Owns(w)
      BY <1>0, <2>3, WherePerformed DEF MarkPush
    <3>2. step[7] = "started"
      BY <1>0, <3>1, OwnsIsOwner DEF OwnerInOrder
    <3>3. pushes = 0 /\ \A v \in Workers : ~AtPush(v)
      BY <1>0, <3>2 DEF PushIsMarked
    <3>4. ~SendPush(w)
      BY <1>0, <3>1, WherePerformed
    <3>5. pushes' = 0
      BY <1>6, <3>3, <3>4, WorldWrites
    <3>6. step'[7] = "finished"
      <4>1. step' = MarkedForPush
        BY <2>3 DEF MarkPush
      <4>2. Steps[7] = "push"
        BY <1>1, StepNames
      <4>3. QED
        BY <1>1, <4>1, <4>2 DEF MarkedForPush
    <3>7. \A v \in Workers : AtPush(v)' => v = w
      BY <2>1, <3>3
    <3>8. QED
      BY <3>5, <3>6, <3>7 DEF PushIsMarked
  <2>4. CASE SendPush(w)
    <3>1. AtPush(w)
      BY <1>0, <2>4, WherePerformed DEF AtPush
    <3>2. pushes = 0 /\ step[7] = "finished" /\ \A v \in Workers : AtPush(v) => v = w
      BY <1>0, <3>1 DEF PushIsMarked
    <3>3. pushes' = 1
      BY <1>6, <2>4, <3>2, WorldWrites
    <3>4. ~AtPush(w)'
      BY <1>0, <2>4 DEF SendPush, Goto, AtPush, TypeOK
    <3>5. \A v \in Workers : ~AtPush(v)'
      BY <2>1, <3>2, <3>4
    <3>6. QED
      BY <1>1, <3>2, <3>3, <3>5 DEF PushIsMarked
  <2>5. CASE ~MarkPush(w) /\ ~SendPush(w)
    <3>1. UNCHANGED pushes
      BY <1>6, <2>5, WorldWrites
    <3>2. QED
      BY <1>2, <2>1, <2>2, <2>5, <3>1
  <2>6. QED
    BY <2>3, <2>4, <2>5
<1>7. QED
  BY <1>3, <1>4, <1>5, <1>6, StepKinds

\* The end of the publish step is recorded after the announcement.
LEMMA PublishedIsMarkedStep == ASSUME Inv, [Next]_vars PROVE PublishedIsMarked'
<1>0. TypeOK /\ ClaimsDiffer /\ PublishedIsMarked /\ published \in Nat
  BY DEF Inv, TypeOK
<1>1. 9 \in Positions
  BY StepNames
<1>2. Announced => Announced'
  <2>1. UNCHANGED datasets /\ published <= published'
    <3>1. CASE UNCHANGED vars \/ EndFromOutside
      BY <1>0, <3>1 DEF vars, EndFromOutside, dataVars, worldVars
    <3>2. ASSUME NEW w \in Workers, Claim(w) \/ Leaves(w)
          PROVE  UNCHANGED datasets /\ published <= published'
      BY <1>0, <3>2, ClaimFrame, LeaveFrame DEF dataVars, worldVars
    <3>3. ASSUME NEW w \in Workers, Works(w)
          PROVE  UNCHANGED datasets /\ published <= published'
      BY <1>0, <3>3, DataWrites, WorldWrites
    <3>4. QED
      BY <3>1, <3>2, <3>3, StepKinds
  <2>2. QED
    BY <1>0, <2>1, TypeOKStep DEF Announced, Inv, TypeOK
<1> DEFINE Past(v) == place[v] \in {"mark", "finish"} /\ pos[v] = 9
<1>3. ASSUME NEW v \in Workers, Past(v)' PROVE Announced'
  <2>1. CASE Alone(v)
    BY <1>0, <1>2, <1>3, <2>1 DEF Alone, PublishedIsMarked
  <2>2. CASE Claim(v)
    BY <1>0, <1>3, <2>2, ClaimFrame
  <2>3. CASE Leaves(v)
    BY <1>0, <1>3, <2>3, LeaveFrame
  <2>4. CASE Works(v)
    <3>1. Perform(v) /\ pos[v] = 9
      BY <1>0, <1>3, <2>4, BetweenSteps, PerformMoves DEF Works
    <3>2. ReadRunView(v) \/ PublishCompletion(v) \/ MarkPublished(v)
      <4>1. ~NotifyPage(v) /\ ~EndPages(v)
        BY <3>1 DEF Inv, PlacesOfSteps, NotifyPage, EndPages
      <4>2. QED
        BY <1>0, <3>1, <4>1, WherePerformed DEF Perform
    <3>3. CASE ReadRunView(v)
      <4>1. datasets = "nothing"
        BY <1>0, <1>3, <3>3 DEF ReadRunView, Goto, TypeOK
      <4>2. QED
        BY <1>2, <4>1 DEF Announced
    <3>4. CASE PublishCompletion(v)
      BY <1>0, <3>4 DEF PublishCompletion, Announced
    <3>5. CASE MarkPublished(v)
      BY <1>0, <1>2, <3>5, WherePerformed DEF PublishedIsMarked
    <3>6. QED
      BY <3>2, <3>3, <3>4, <3>5
  <2>5. CASE UNCHANGED vars \/ EndFromOutside
    BY <2>1, <2>5 DEF vars, workVars, EndFromOutside, Alone
  <2>6. QED
    BY <1>0, <2>1, <2>2, <2>3, <2>4, <2>5, StepKinds, ClaimFrame, LeaveFrame, WorkFrame
<1>4. step'[9] = "finished" => Announced'
  <2> SUFFICES ASSUME step'[9] = "finished", step[9] # "finished" PROVE Announced'
    BY <1>0, <1>2 DEF PublishedIsMarked
  <2>1. PICK w \in Workers : Works(w)
    BY <1>0, DatabaseCases DEF rowVars
  <2>2. /\ FinishInside(w) \/ MarkPush(w) \/ MarkPublished(w) \/ FinishStep(w)
        /\ pos[w] = 9
    <3>1. /\ step \in [Positions -> {"absent", "started", "finished"}]
          /\ pos[w] \in Positions
      BY <1>0 DEF TypeOK
    <3>2. ~(UNCHANGED step)
      OBVIOUS
    <3>3. step' # [step EXCEPT ![pos[w]] = "started"]
      BY <1>1, <3>1
    <3>4. QED
      BY <1>0, <1>1, <2>1, <3>1, <3>2, <3>3, RowWrites
  <2>3. MarkPublished(w) \/ FinishStep(w)
    BY <1>0, <2>2, WherePerformed
  <2>4. place[w] \in {"mark", "finish"}
    BY <1>0, <2>3, WherePerformed DEF FinishStep
  <2>5. QED
    BY <1>0, <1>2, <2>2, <2>4 DEF PublishedIsMarked
<1>5. QED
  BY <1>3, <1>4 DEF PublishedIsMarked

\* A run is done when its last step is.
LEMMA DoneIsFinishedStep == ASSUME Inv, [Next]_vars PROVE DoneIsFinished'
<1>0. TypeOK /\ OwnerInOrder /\ PlacesOfSteps /\ DoneIsFinished
  BY DEF Inv
<1> SUFFICES ASSUME runState' = "done", NEW i \in Positions PROVE step'[i] = "finished"
  BY DEF DoneIsFinished
<1>1. CASE runState = "done"
  BY <1>0, <1>1, FinishedStays DEF DoneIsFinished
<1>2. CASE runState # "done"
  <2>1. PICK w \in Workers : FinishRun(w)
    <3>1. ~(UNCHANGED vars) /\ ~EndFromOutside
      BY <1>2 DEF vars, EndFromOutside
    <3>2. \A w \in Workers : ~Claim(w) /\ ~Works(w) /\ ~Stop(w) /\ ~FailRun(w)
      BY <1>0, <1>2, ClaimFrame, WorkFrame DEF Stop, FailRun
    <3>3. QED
      BY <3>1, <3>2, StepKinds DEF Leaves
  <2>2. IsOwner(w) /\ place[w] = "end" /\ UNCHANGED step
    BY <2>1, OwnsIsOwner DEF FinishRun, rowVars
  <2>3. pos[w] = 10 /\ Positions = 1 .. 10
    BY <1>0, <2>2, StepNames DEF PlacesOfSteps
  <2>4. step[i] = "finished"
    BY <1>0, <2>2, <2>3 DEF OwnerInOrder
  <2>5. QED
    BY <2>2, <2>4
<1>3. QED
  BY <1>1, <1>2


-----------------------------------------------------------------------------
\* The invariant holds of what the datasets leave.
LEMMA InvInit == Init => Inv
<1> SUFFICES ASSUME Init PROVE Inv
  OBVIOUS
<1>0. PICK changed \in SUBSET Sites :
        /\ \E q \in InOrder(changed) : changes = [i \in DOMAIN q |-> <<"site", q[i]>>]
        /\ unlisted \in SUBSET Sites
        /\ wrongLinks \in SUBSET (changed \cup unlisted)
  BY DEF Init
<1>1. PICK q \in InOrder(changed) : changes = [i \in DOMAIN q |-> <<"site", q[i]>>]
  BY <1>0
<1>2. changes \in Seq({"site", "link"} \X Sites)
  <2>1. Cardinality(changed) \in Nat
    BY SitesFinite, FS_Subset, FS_CardinalityType
  <2>2. DOMAIN q = 1 .. Cardinality(changed) /\ \A i \in DOMAIN q : q[i] \in Sites
    BY DEF InOrder
  <2>3. QED
    BY <1>1, <2>1, <2>2
<1>3. TypeOK
  <2>1. 1 \in Positions /\ 0 \in 0 .. MaxAttempts /\ "idle" \in Places /\ NoPlan \in [Sites -> Nat]
    BY StepNames, AfterStepsAssumption DEF Places, NoPlan
  <2>2. QED
    BY <1>0, <1>2, <2>1 DEF Init, TypeOK
<1>4. /\ \A w \in Workers : place[w] = "idle" /\ own[w] = 0 /\ pos[w] = 1
      /\ \A i \in Positions : step[i] = "absent" /\ lastSeq[i] = 0
      /\ pushes = 0 /\ runState = "running"
  BY DEF Init
<1>5. 1 \in Positions /\ 2 \in Positions /\ 3 \in Positions /\ 4 \in Positions
      /\ 7 \in Positions /\ 9 \in Positions
  BY StepNames
<1>6. ClaimsDiffer /\ PlacesOfSteps /\ OwnerInOrder /\ StepsInOrder /\ NoRowNoProgress
      /\ PlanIsTheRest
  BY <1>4 DEF ClaimsDiffer, PlacesOfSteps, OwnerInOrder, StepsInOrder, NoRowNoProgress,
     PlanIsTheRest, IsOwner
<1>7. PushIsMarked /\ PublishedIsMarked /\ DoneIsFinished
  BY <1>4, <1>5 DEF PushIsMarked, PublishedIsMarked, DoneIsFinished, AtPush
<1>8. \A i \in Positions : ~Performed(i)
  BY <1>4 DEF Performed
<1>9. NotesFollowProgress
  <2> SUFFICES ASSUME NEW i \in {2, 4}, NEW s \in Sites
               PROVE  /\ Notes(i, s) = IF Summary(i, s) > 0 /\ Summary(i, s) <= lastSeq[i] THEN 1 ELSE 0
                      /\ ~Performed(i)
    BY DEF NotesFollowProgress
  <2>1. i \in Positions /\ lastSeq[i] = 0 /\ Notes(i, s) = 0
    BY <1>4, <1>5 DEF Init, Notes
  <2>2. Summary(i, s) \in Nat
    BY <1>3, SummaryIsNat
  <2>3. QED
    BY <1>8, <2>1, <2>2
<1>10. LinksAhead
  <2>1. ASSUME NEW s \in wrongLinks, s \notin unlisted
        PROVE  \E n \in DOMAIN changes : n > lastSeq[3] /\ changes[n] = <<"site", s>>
    <3>1. PICK n \in DOMAIN q : q[n] = s
      BY <1>0, <2>1 DEF InOrder
    <3>2. n \in DOMAIN changes /\ changes[n] = <<"site", s>>
      BY <1>1, <3>1
    <3>3. n > 0
      BY <3>1 DEF InOrder
    <3>4. QED
      BY <1>4, <1>5, <3>2, <3>3
  <2>2. QED
    BY <1>5, <1>8, <2>1 DEF LinksAhead
<1>11. QED
  BY <1>3, <1>6, <1>7, <1>9, <1>10 DEF Inv

\* The invariant is inductive.
LEMMA InvInductive == Spec => []Inv
<1>1. Inv /\ [Next]_vars => Inv'
  <2> SUFFICES ASSUME Inv, [Next]_vars PROVE Inv'
    OBVIOUS
  <2>1. TypeOK' /\ ClaimsDiffer' /\ PlacesOfSteps' /\ OwnerInOrder' /\ StepsInOrder'
        /\ NoRowNoProgress'
    BY TypeOKStep, ClaimsDifferStep, PlacesOfStepsStep, OwnerInOrderStep, RowsInOrderStep
    DEF Inv
  <2>2. NotesFollowProgress' /\ PlanIsTheRest' /\ LinksAhead'
    BY NotesFollowProgressStep, PlanIsTheRestStep, LinksAheadStep
  <2>3. PushIsMarked' /\ PublishedIsMarked' /\ DoneIsFinished'
    BY PushIsMarkedStep, PublishedIsMarkedStep, DoneIsFinishedStep
  <2>4. QED
    BY <2>1, <2>2, <2>3 DEF Inv
<1>2. QED
  BY InvInit, <1>1, PTL DEF Spec

\* Type correctness: the rows of the run, of its steps and of its changes, the
\* notifications, and what every worker has read.
THEOREM TypeCorrect == Spec => []TypeOK
<1>1. Inv => TypeOK
  BY DEF Inv
<1>2. QED
  BY <1>1, InvInductive, PTL

\* startStep: whichever attempts a run goes through, and whatever they leave
\* half done, a step gets a row only when the steps before it are finished.
THEOREM StepsAreInOrder == Spec => []StepsInOrder
<1>1. Inv => StepsInOrder
  BY DEF Inv
<1>2. QED
  BY <1>1, InvInductive, PTL

\* notifyInPages and push: a page of notifications is saved with its progress,
\* and the push is marked before it is sent, so that no watcher is told twice,
\* by any number of attempts, of workers that lost the run, and of pages.
THEOREM NobodyToldTwice == Spec => []ToldAtMostOnce
<1>1. Inv => ToldAtMostOnce
  <2> SUFFICES ASSUME Inv PROVE ToldAtMostOnce
    OBVIOUS
  <2>1. pushes <= 1
    BY DEF Inv, PushIsMarked
  <2>2. ASSUME NEW s \in Sites PROVE siteNotes[s] <= 1 /\ stationNotes[s] <= 1
    <3>1. Notes(2, s) <= 1 /\ Notes(4, s) <= 1
      BY DEF Inv, NotesFollowProgress
    <3>2. Notes(2, s) = siteNotes[s] /\ Notes(4, s) = stationNotes[s]
      BY DEF Notes
    <3>3. QED
      BY <3>1, <3>2
  <2>3. QED
    BY <2>1, <2>2 DEF ToldAtMostOnce
<1>2. QED
  BY <1>1, InvInductive, PTL

\* A run that ends as done has archived every unlisted permit, corrected the
\* links of every changed site, told of every change exactly once and published
\* its completion, however many attempts that took.
THEOREM DoneRunsAreComplete == Spec => []DoneLeftNothingOut
<1>1. Inv => DoneLeftNothingOut
  <2> SUFFICES ASSUME Inv, runState = "done"
               PROVE  /\ unlisted = {}
                      /\ wrongLinks = {}
                      /\ \A s \in Sites :
                           /\ Changed(s, {"site", "link"}) => stationNotes[s] = 1
                           /\ (Changed(s, {"site"}) /\ s \in watched) => siteNotes[s] = 1
                      /\ datasets # "nothing" => published >= 1
    BY DEF DoneLeftNothingOut
  <2>1. /\ step[1] = "finished" /\ step[2] = "finished" /\ step[3] = "finished"
        /\ step[4] = "finished" /\ step[9] = "finished"
    BY StepNames DEF Inv, DoneIsFinished
  <2>2. Performed(1) /\ Performed(2) /\ Performed(3) /\ Performed(4)
    BY <2>1 DEF Performed
  <2>3. unlisted = {} /\ wrongLinks = {}
    BY <2>2 DEF Inv, LinksAhead
  <2>4. datasets # "nothing" => published >= 1
    BY <2>1 DEF Inv, PublishedIsMarked, Announced
  <2>5. ASSUME NEW i \in {2, 4}, NEW s \in Sites, Summary(i, s) > 0 PROVE Notes(i, s) = 1
    BY <2>2, <2>5 DEF Inv, NotesFollowProgress
  <2>6. \A s \in Sites : \A kinds : Changed(s, kinds) => SummarySeq(s, kinds) > 0
    BY SummarySeqIsLast DEF Inv, TypeOK, Changed
  <2>7. ASSUME NEW s \in Sites, Changed(s, {"site", "link"}) PROVE stationNotes[s] = 1
    <3>1. Summary(4, s) > 0
      BY <2>6, <2>7 DEF Summary
    <3>2. Notes(4, s) = 1
      BY <2>5, <3>1
    <3>3. QED
      BY <3>2 DEF Notes
  <2>8. ASSUME NEW s \in Sites, Changed(s, {"site"}), s \in watched PROVE siteNotes[s] = 1
    <3>1. Summary(2, s) > 0
      BY <2>6, <2>8 DEF Summary
    <3>2. Notes(2, s) = 1
      BY <2>5, <3>1
    <3>3. QED
      BY <3>2 DEF Notes
  <2>9. QED
    BY <2>3, <2>4, <2>7, <2>8
<1>2. QED
  BY <1>1, InvInductive, PTL

=============================================================================
