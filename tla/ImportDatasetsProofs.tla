------------------------ MODULE ImportDatasetsProofs ------------------------
(***************************************************************************)
(* Theorems about ImportDatasets, for any datasets, releases, slices and   *)
(* layouts, any readings of the bytes and any number of attempts and changes   *)
(* of the publisher.  The inductive invariant Inv says what the worker has *)
(* in hand at each place of importDataset, what an attempt leaves for the  *)
(* next one, and where a slice that was asked for and is not decided yet   *)
(* will still be met.                                                      *)
(***************************************************************************)
EXTENDS ImportDatasets, TLAPS

\* The places where the worker has a release in hand.
WithRelease == {"obtain", "compare", "settle"}

\* What the worker has in hand: a dataset that is still to be imported while
\* it is inside one, a release of that dataset, and nothing in between.
InHand ==
  /\ pc \in InDataset => dataset \in left
  /\ pc \in WithRelease => release \in Releases
  /\ pc \notin InDataset => toPrepare = {} /\ prepared = {}
  /\ pc = "obtain" /\ ~gotFresh[release] => listedContent[release] # NoContent

\* A release that was obtained has bytes, and it is recorded by the time it
\* is compared with what is stored.
Obtained ==
  /\ \A rel \in prepared : gotContent[rel] # NoContent
  /\ pc \in {"compare", "settle"} =>
       /\ gotContent[release] # NoContent
       /\ \A s \in Covers[release] : <<s, gotContent[release]>> \in recorded

\* Without a run there are no rows of one.
NoRunNoRows ==
  pc = "none" =>
    /\ \A s \in Slices : outcome[s] = "none"
    /\ ~inAfterSteps

\* s was asked for, is listed whatever happens, and none of its datasets failed.
Requested(s) ==
  /\ AlwaysListed(s)
  /\ kind = "replay" \/ approval[s] # NoContent
  /\ \A rel \in Releases : s \in Covers[rel] => row[DatasetOf[rel]] = "pending"

\* The releases that the worker is going to look at, or is looking at.
Ahead == toPrepare \cup prepared \cup (IF pc \in WithRelease THEN {release} ELSE {})

\* No after-step has started, a dataset of s is left to import, and inside that
\* dataset a release of s is still to be prepared, recorded or settled.
StillAhead(s) ==
  /\ ~inAfterSteps
  /\ pc # "after"
  /\ pc \in Working =>
       \E rel \in Releases : s \in Covers[rel] /\ DatasetOf[rel] \in left
  /\ (pc \in InDataset /\ \E rel \in Releases : s \in Covers[rel] /\ DatasetOf[rel] = dataset)
       => \E rel \in Ahead : s \in Covers[rel]

\* A slice that was asked for and is not decided is still ahead.
UndecidedIsAhead ==
  \A s \in Slices : (Requested(s) /\ outcome[s] = "none") => StillAhead(s)

Inv ==
  /\ TypeOK
  /\ InHand
  /\ Obtained
  /\ NoRunNoRows
  /\ CheckpointsTellWhatChanged
  /\ UndecidedIsAhead

-----------------------------------------------------------------------------
\* A worker that drops what it has in hand keeps its types.
LEMMA NothingInHandTyping ==
  ASSUME NothingInHand
  PROVE  /\ dataset' \in Datasets \cup {NoDataset}
         /\ toPrepare' \subseteq Releases
         /\ prepared' \subseteq Releases
         /\ release' \in Releases \cup {NoRelease}
         /\ gotHead' \in [Releases -> {NoHead} \cup 0 .. MaxChanges]
         /\ gotFresh' \in [Releases -> BOOLEAN]
         /\ gotContent' \in [Releases -> Contents \cup {NoContent}]
  BY DEF NothingInHand, NoHead

\* EndRun resets the rows of the run to values of their types.
LEMMA EndRunTyping == ASSUME TypeOK, EndRun PROVE TypeOK'
<1>1. /\ attempt' \in 0 .. MaxAttempts
      /\ approval' \in [Slices -> Contents \cup {NoContent}]
      /\ before' \in [Slices -> Contents \cup {NoContent}]
      /\ outcome' \in [Slices -> Outcomes]
      /\ row' \in [Datasets -> {"absent", "pending", "failed"}]
  BY DatasetsAssumption DEF EndRun, NoApproval, Outcomes
<1>2. pc' \in Working \cup {"none", "queued"}
  BY DEF EndRun
<1>3. QED
  BY <1>1, <1>2, NothingInHandTyping
  DEF TypeOK, EndRun, publisherVars, listingVars

\* decideSlice applies a slice or holds it back.
LEMMA DecideSliceOutcome ==
  ASSUME NEW s, NEW c, NEW read
  PROVE  DecideSlice(s, c, read) \in {"applied", "held"}
  BY DEF DecideSlice

\* enqueueRun fills in the rows of a run.
LEMMA EnqueueTyping ==
  ASSUME TypeOK, NEW k \in {"import", "replay"}, NEW reads \in SUBSET Datasets,
         NEW a \in [Slices -> Contents \cup {NoContent}], Enqueue(k, reads, a)
  PROVE  TypeOK'
<1>1. row' \in [Datasets -> {"absent", "pending", "failed"}]
  BY DEF Enqueue
<1>2. QED
  BY <1>1 DEF TypeOK, Enqueue, publisherVars, listingVars, workVars, gotVars

\* The two ways of queueing a run are enqueueRun with well-typed arguments.
LEMMA QueueIsEnqueue ==
  ASSUME QueueDueImports \/ QueueRequestedRun
  PROVE  \E k \in {"import", "replay"}, reads \in SUBSET Datasets,
            a \in [Slices -> Contents \cup {NoContent}] : Enqueue(k, reads, a)
<1>1. CASE QueueDueImports
  <2>1. NoApproval \in [Slices -> Contents \cup {NoContent}]
    BY DEF NoApproval
  <2>2. QED
    BY <1>1, <2>1 DEF QueueDueImports
<1>2. CASE QueueRequestedRun
  BY <1>2 DEF QueueRequestedRun, MayApprove
<1>3. QED
  BY <1>1, <1>2

\* Every step keeps the types, given what the worker has in hand.
LEMMA TypeOKStep == ASSUME TypeOK, InHand, Obtained, [Next]_vars PROVE TypeOK'
<1> USE DEF TypeOK, publisherVars, listingVars, runVars, workVars, gotVars
<1>1. CASE PublishLayout
  BY <1>1, DatasetsAssumption DEF PublishLayout
<1>2. CASE QueueDueImports \/ QueueRequestedRun
  BY <1>2, QueueIsEnqueue, EnqueueTyping
<1>3. CASE Claim
  <2>1. attempt' \in 0 .. MaxAttempts
    BY <1>3, DatasetsAssumption DEF Claim, HasAttemptLeft
  <2>2. QED
    BY <1>3, <2>1 DEF Claim, Working
<1>4. CASE LoseClaim
  BY <1>4, NothingInHandTyping DEF LoseClaim
<1>5. CASE EndEarly \/ ForgetUnchangedImport \/ FinishRun
  BY <1>5, EndRunTyping DEF EndEarly, ForgetUnchangedImport, FinishRun
<1>6. CASE ObtainRelease
  <2>1. release \in Releases
    BY <1>6 DEF ObtainRelease, InHand, WithRelease
  <2>2. /\ gotContent' \in [Releases -> Contents \cup {NoContent}]
        /\ gotFresh' \in [Releases -> BOOLEAN]
    BY <1>6, <2>1 DEF ObtainRelease
  <2>3. QED
    BY <1>6, <2>1, <2>2 DEF ObtainRelease, Working, InDataset
<1>7. CASE CheckpointUnchanged
  BY <1>7 DEF CheckpointUnchanged, Outcomes, Working, InDataset
<1>8. CASE ReadRelease
  BY <1>8 DEF ReadRelease, Working, InDataset
<1>9. CASE SettleRelease
  <2>1. outcome' \in [Slices -> Outcomes]
    BY <1>9, DecideSliceOutcome DEF SettleRelease, Outcomes
  <2>2. gotContent[release] \in Contents
    BY <1>9 DEF SettleRelease, InHand, WithRelease, Obtained
  <2>3. applied' \in [Slices -> Contents \cup {NoContent}]
    BY <1>9, <2>2 DEF SettleRelease
  <2>4. lastHeld' \in [Slices -> Contents \cup {NoContent}]
    BY <1>9, <2>2 DEF SettleRelease
  <2>5. stored' \in [Slices -> Nat]
    <3>1. \A read \in Readings[gotContent[release]], s \in Slices : read[s].stored \in Nat
      BY <2>2, DatasetsAssumption
    <3>2. QED
      BY <1>9, <3>1 DEF SettleRelease
  <2>6. pc' \in Working
    BY <1>9 DEF SettleRelease, Working, InDataset
  <2>7. QED
    BY <1>9, <2>1, <2>3, <2>4, <2>5, <2>6 DEF SettleRelease
<1>10. CASE EndDataset
  BY <1>10, NothingInHandTyping DEF EndDataset, Working
<1>11. CASE StartAfterSteps
  BY <1>11 DEF StartAfterSteps, Working
<1>12. ASSUME NEW rel \in Releases, PublishFile(rel) PROVE TypeOK'
  BY <1>12, DatasetsAssumption DEF PublishFile
<1>13. ASSUME NEW rel \in Releases, ListingAges(rel) PROVE TypeOK'
  BY <1>13 DEF ListingAges
<1>14. ASSUME NEW rel \in Releases, CheckRelease(rel) PROVE TypeOK'
  BY <1>14 DEF CheckRelease, Working, InDataset, IsListedUnchanged
<1>15. ASSUME NEW rel \in Releases, RecordRelease(rel) PROVE TypeOK'
  <2>1. gotContent[rel] \in Contents
    BY <1>15 DEF RecordRelease, Obtained
  <2>2. recorded' \subseteq Slices \X Contents
    BY <1>15, <2>1, DatasetsAssumption DEF RecordRelease
  <2>3. QED
    BY <1>15, <2>2 DEF RecordRelease, Working, InDataset
<1>16. ASSUME NEW d \in Datasets, BeginDataset(d) PROVE TypeOK'
  BY <1>16, DatasetsAssumption DEF BeginDataset, Discovered, Working, InDataset
<1>17. ASSUME NEW d \in Datasets, FailDataset(d) PROVE TypeOK'
  BY <1>17, NothingInHandTyping DEF FailDataset, Working
<1>18. ASSUME NEW s \in Slices, Remap(s) PROVE TypeOK'
  BY <1>18, DatasetsAssumption DEF Remap
<1>19. CASE UNCHANGED vars
  BY <1>19 DEF vars
<1>20. QED
  BY <1>1, <1>2, <1>3, <1>4, <1>5, <1>6, <1>7, <1>8, <1>9, <1>10, <1>11, <1>12,
     <1>13, <1>14, <1>15, <1>16, <1>17, <1>18, <1>19 DEF Next


\* Every step keeps what the worker has in hand.
LEMMA InHandStep == ASSUME TypeOK, InHand, [Next]_vars PROVE InHand'
<1> USE DEF InHand, WithRelease, InDataset, publisherVars, listingVars, runVars,
            workVars, gotVars
<1>1. CASE \/ PublishLayout
           \/ \E rel \in Releases : PublishFile(rel) \/ ListingAges(rel)
           \/ \E s \in Slices : Remap(s)
  BY <1>1 DEF PublishLayout, PublishFile, ListingAges, Remap
<1>2. CASE QueueDueImports \/ QueueRequestedRun \/ Claim
  BY <1>2 DEF QueueDueImports, QueueRequestedRun, Enqueue, Claim
<1>3. CASE LoseClaim \/ EndDataset \/ \E d \in Datasets : FailDataset(d)
  BY <1>3 DEF LoseClaim, EndDataset, FailDataset, NothingInHand
<1>4. CASE EndEarly \/ ForgetUnchangedImport \/ FinishRun
  BY <1>4 DEF EndEarly, ForgetUnchangedImport, FinishRun, EndRun, NothingInHand
<1>5. CASE CheckpointUnchanged \/ ReadRelease \/ SettleRelease \/ ObtainRelease
  BY <1>5 DEF CheckpointUnchanged, ReadRelease, SettleRelease, ObtainRelease
<1>6. CASE StartAfterSteps
  BY <1>6 DEF StartAfterSteps
<1>7. ASSUME NEW rel \in Releases, CheckRelease(rel) PROVE InHand'
  BY <1>7 DEF CheckRelease, IsListedUnchanged, TypeOK
<1>8. ASSUME NEW rel \in Releases, RecordRelease(rel) PROVE InHand'
  BY <1>8 DEF RecordRelease
<1>9. ASSUME NEW d \in Datasets, BeginDataset(d) PROVE InHand'
  BY <1>9 DEF BeginDataset
<1>10. CASE UNCHANGED vars
  BY <1>10 DEF vars
<1>11. QED
  BY <1>1, <1>2, <1>3, <1>4, <1>5, <1>6, <1>7, <1>8, <1>9, <1>10 DEF Next

\* Every step keeps the bytes of what was obtained, and what was recorded.
LEMMA ObtainedStep == ASSUME TypeOK, InHand, Obtained, [Next]_vars PROVE Obtained'
<1> USE DEF Obtained, publisherVars, listingVars, runVars, workVars, gotVars
<1>1. CASE \/ PublishLayout
           \/ \E rel \in Releases : PublishFile(rel) \/ ListingAges(rel)
           \/ \E s \in Slices : Remap(s)
  BY <1>1 DEF PublishLayout, PublishFile, ListingAges, Remap
<1>2. CASE QueueDueImports \/ QueueRequestedRun \/ Claim
  BY <1>2 DEF QueueDueImports, QueueRequestedRun, Enqueue, Claim
<1>3. CASE LoseClaim \/ EndDataset \/ \E d \in Datasets : FailDataset(d)
  BY <1>3 DEF LoseClaim, EndDataset, FailDataset, NothingInHand
<1>4. CASE EndEarly \/ ForgetUnchangedImport \/ FinishRun
  BY <1>4 DEF EndEarly, ForgetUnchangedImport, FinishRun, EndRun, NothingInHand
<1>5. CASE CheckpointUnchanged \/ ReadRelease \/ SettleRelease \/ StartAfterSteps
  BY <1>5 DEF CheckpointUnchanged, ReadRelease, SettleRelease, StartAfterSteps
<1>6. CASE ObtainRelease
  <2>1. release \in Releases
    BY <1>6 DEF ObtainRelease, InHand, WithRelease
  <2>2. content[release] # NoContent
    BY <2>1, DatasetsAssumption DEF TypeOK
  <2>3. \A rel \in prepared' : gotContent'[rel] # NoContent
    BY <1>6, <2>1, <2>2 DEF ObtainRelease, TypeOK, InHand
  <2>4. QED
    BY <1>6, <2>3 DEF ObtainRelease
<1>7. ASSUME NEW rel \in Releases, CheckRelease(rel) PROVE Obtained'
  BY <1>7 DEF CheckRelease
<1>8. ASSUME NEW rel \in Releases, RecordRelease(rel) PROVE Obtained'
  BY <1>8 DEF RecordRelease
<1>9. ASSUME NEW d \in Datasets, BeginDataset(d) PROVE Obtained'
  BY <1>9 DEF BeginDataset
<1>10. CASE UNCHANGED vars
  BY <1>10 DEF vars
<1>11. QED
  BY <1>1, <1>2, <1>3, <1>4, <1>5, <1>6, <1>7, <1>8, <1>9, <1>10 DEF Next

\* The steps that change the rows of a run, what is applied, or begin or end
\* the run.
LEMMA RowSteps ==
  ASSUME [Next]_vars
  PROVE  \/ /\ UNCHANGED <<outcome, applied, before, lastHeld>>
            /\ recorded \subseteq recorded'
            /\ pc' = "none" <=> pc = "none"
            /\ pc' = "none" => UNCHANGED inAfterSteps
         \/ /\ pc = "none"
            /\ pc' = "queued"
            /\ before' = applied
            /\ UNCHANGED <<outcome, applied, inAfterSteps>>
         \/ EndRun
         \/ CheckpointUnchanged
         \/ SettleRelease
<1> USE DEF publisherVars, listingVars, runVars, workVars, gotVars
<1>1. CASE \/ PublishLayout
           \/ \E rel \in Releases : PublishFile(rel) \/ ListingAges(rel)
           \/ \E s \in Slices : Remap(s)
  BY <1>1 DEF PublishLayout, PublishFile, ListingAges, Remap
<1>2. CASE QueueDueImports \/ QueueRequestedRun
  BY <1>2 DEF QueueDueImports, QueueRequestedRun, Enqueue
<1>3. CASE LoseClaim \/ EndDataset \/ \E d \in Datasets : FailDataset(d)
  BY <1>3 DEF LoseClaim, EndDataset, FailDataset, InDataset, Working
<1>4. CASE EndEarly \/ ForgetUnchangedImport \/ FinishRun
  BY <1>4 DEF EndEarly, ForgetUnchangedImport, FinishRun
<1>5. CASE ReadRelease \/ ObtainRelease \/ StartAfterSteps \/ Claim
  BY <1>5 DEF ReadRelease, ObtainRelease, StartAfterSteps, Claim
<1>6. CASE \E rel \in Releases : CheckRelease(rel)
  BY <1>6 DEF CheckRelease
<1>7. CASE \E rel \in Releases : RecordRelease(rel)
  BY <1>7 DEF RecordRelease
<1>8. CASE \E d \in Datasets : BeginDataset(d)
  BY <1>8 DEF BeginDataset
<1>9. CASE UNCHANGED vars
  BY <1>9 DEF vars
<1>10. QED
  BY <1>1, <1>2, <1>3, <1>4, <1>5, <1>6, <1>7, <1>8, <1>9 DEF Next

\* What the rows say of a run stays true.
LEMMA RowsStep ==
  ASSUME Inv, [Next]_vars
  PROVE  NoRunNoRows' /\ CheckpointsTellWhatChanged'
<1> USE DEF Inv, NoRunNoRows, CheckpointsTellWhatChanged
<1>1. CASE EndRun
  BY <1>1 DEF EndRun
<1>2. CASE CheckpointUnchanged
  <2>1. \A s \in Slices : s \in Covers[release] => outcome[s] = "none"
    BY <1>2 DEF CheckpointUnchanged, CheckpointTaken, Checkpointed
  <2>2. pc' # "none" /\ pc # "none" /\ UNCHANGED <<applied, before, recorded>>
    BY <1>2 DEF CheckpointUnchanged, runVars
  <2>3. \A s \in Slices : outcome'[s] = IF s \in Covers[release] THEN "unchanged" ELSE outcome[s]
    BY <1>2 DEF CheckpointUnchanged
  <2>4. QED
    BY <2>1, <2>2, <2>3
<1>3. CASE SettleRelease
  <2>1. pc' # "none" /\ pc # "none" /\ UNCHANGED <<before, recorded>>
    BY <1>3 DEF SettleRelease, runVars
  <2>a. PICK read \in Readings[gotContent[release]] :
          /\ outcome' = [s \in Slices |-> IF s \in Covers[release]
                                           THEN DecideSlice(s, gotContent[release], read)
                                           ELSE outcome[s]]
          /\ applied' = [s \in Slices |-> IF s \in AppliedSlices(release, read)
                                           THEN gotContent[release] ELSE applied[s]]
    BY <1>3 DEF SettleRelease
  <2>2. SUFFICES ASSUME NEW s \in Slices
                 PROVE  IF outcome'[s] = "applied" THEN <<s, applied'[s]>> \in recorded
                                                   ELSE applied'[s] = before[s]
    BY <2>1
  <2>3. CASE s \in Covers[release]
    <3>1. outcome[s] = "none" /\ outcome'[s] = DecideSlice(s, gotContent[release], read)
      BY <1>3, <2>3, <2>a DEF SettleRelease, CheckpointTaken, Checkpointed
    <3>2. CASE outcome'[s] = "applied"
      <4>1. applied'[s] = gotContent[release]
        BY <2>3, <2>a, <3>1, <3>2 DEF AppliedSlices
      <4>2. QED
        BY <1>3, <2>3, <3>2, <4>1 DEF SettleRelease, Obtained
    <3>3. CASE outcome'[s] # "applied"
      <4>1. applied'[s] = applied[s]
        BY <2>3, <2>a, <3>1, <3>3 DEF AppliedSlices
      <4>2. QED
        BY <2>1, <3>1, <3>3, <4>1
    <3>4. QED
      BY <3>2, <3>3
  <2>4. CASE s \notin Covers[release]
    <3>1. outcome'[s] = outcome[s] /\ applied'[s] = applied[s]
      BY <2>4, <2>a DEF AppliedSlices
    <3>2. QED
      BY <2>1, <3>1
  <2>5. QED
    BY <2>3, <2>4
<1>4. CASE /\ pc = "none"
           /\ pc' = "queued"
           /\ before' = applied
           /\ UNCHANGED <<outcome, applied, inAfterSteps>>
  BY <1>4
<1>5. CASE /\ UNCHANGED <<outcome, applied, before, lastHeld>>
           /\ recorded \subseteq recorded'
           /\ pc' = "none" <=> pc = "none"
           /\ pc' = "none" => UNCHANGED inAfterSteps
  BY <1>5
<1>6. QED
  BY <1>1, <1>2, <1>3, <1>4, <1>5, RowSteps


\* The steps of which UndecidedIsAhead sees nothing.
LEMMA AheadUnseen ==
  ASSUME NEW s \in Slices, (Requested(s) /\ outcome[s] = "none") => StillAhead(s),
         UNCHANGED <<kind, approval, row, outcome, inAfterSteps, pc, left, dataset,
                     toPrepare, prepared, release>>,
         (Requested(s) /\ outcome[s] = "none")'
  PROVE  StillAhead(s)'
  BY DEF StillAhead, Ahead, Requested, AlwaysListed

\* A slice that is asked for stays ahead until it is decided.
LEMMA UndecidedIsAheadStep == ASSUME Inv, [Next]_vars PROVE UndecidedIsAhead'
<1> SUFFICES ASSUME NEW s \in Slices, (Requested(s) /\ outcome[s] = "none")'
             PROVE  StillAhead(s)'
  BY DEF UndecidedIsAhead
<1> USE DEF publisherVars, listingVars, runVars, workVars, gotVars
<1>a. (Requested(s) /\ outcome[s] = "none") => StillAhead(s)
  BY DEF Inv, UndecidedIsAhead
<1>b. AlwaysListed(s)
  BY DEF Requested, AlwaysListed
<1>c. PICK listed \in layout : s \in Covers[listed] /\ listed \in Releases
  BY <1>b, DatasetsAssumption DEF AlwaysListed, Inv, TypeOK
<1>1. CASE \/ PublishLayout
           \/ \E rel \in Releases : PublishFile(rel) \/ ListingAges(rel)
           \/ \E q \in Slices : Remap(q)
  BY <1>1, <1>a, AheadUnseen DEF PublishLayout, PublishFile, ListingAges, Remap
<1>2. CASE QueueDueImports \/ QueueRequestedRun
  <2>1. pc' = "queued" /\ ~inAfterSteps'
    BY <1>2 DEF QueueDueImports, QueueRequestedRun, Enqueue, Inv, NoRunNoRows
  <2>2. QED
    BY <2>1 DEF StillAhead, Working, InDataset
<1>3. CASE Claim
  <2>1. UNCHANGED <<kind, approval, row, outcome, inAfterSteps>> /\ ~inAfterSteps
    BY <1>3, <1>a DEF Claim, Requested, StillAhead
  <2>2. pc' = "datasets" /\ left' = {d \in Datasets : row[d] = "pending"}
    BY <1>3, <2>1 DEF Claim
  <2>3. row[DatasetOf[listed]] = "pending" /\ DatasetOf[listed] \in Datasets
    BY <1>c, <2>1, DatasetsAssumption DEF Requested
  <2>4. QED
    BY <1>c, <2>1, <2>2, <2>3 DEF StillAhead, InDataset
<1>4. CASE LoseClaim
  BY <1>4, <1>a DEF LoseClaim, Requested, StillAhead, Working, InDataset
<1>5. CASE EndEarly \/ ForgetUnchangedImport \/ FinishRun
  BY <1>5 DEF EndEarly, ForgetUnchangedImport, FinishRun, EndRun, StillAhead,
     Working, InDataset
<1>6. CASE ObtainRelease
  <2>1. UNCHANGED <<kind, approval, row, outcome, inAfterSteps, left, dataset>>
    BY <1>6 DEF ObtainRelease
  <2>2. Ahead' = Ahead
    BY <1>6 DEF ObtainRelease, Ahead, WithRelease
  <2>3. QED
    BY <1>6, <1>a, <2>1, <2>2 DEF ObtainRelease, Requested, StillAhead, Working, InDataset
<1>7. CASE CheckpointUnchanged \/ SettleRelease
  <2>1. /\ UNCHANGED <<kind, approval, row, inAfterSteps, left, dataset, toPrepare, prepared>>
        /\ pc \in {"compare", "settle"} /\ pc' = "prepare"
    BY <1>7 DEF CheckpointUnchanged, SettleRelease
  <2>2. s \notin Covers[release] /\ outcome'[s] = outcome[s]
    <3>1. CASE CheckpointUnchanged
      BY <3>1 DEF CheckpointUnchanged
    <3>2. CASE SettleRelease
      BY <3>2, DecideSliceOutcome DEF SettleRelease
    <3>3. QED
      BY <1>7, <3>1, <3>2
  <2>3. Ahead' = toPrepare \cup prepared /\ Ahead = toPrepare \cup prepared \cup {release}
    BY <2>1 DEF Ahead, WithRelease
  <2>4. QED
    BY <1>a, <2>1, <2>2, <2>3 DEF Requested, StillAhead, Working, InDataset
<1>8. CASE ReadRelease
  <2>1. UNCHANGED <<kind, approval, row, outcome, inAfterSteps, left, dataset>>
    BY <1>8 DEF ReadRelease
  <2>2. Ahead' = Ahead
    BY <1>8 DEF ReadRelease, Ahead, WithRelease
  <2>3. QED
    BY <1>8, <1>a, <2>1, <2>2 DEF ReadRelease, Requested, StillAhead, Working, InDataset
<1>9. CASE EndDataset
  <2>1. UNCHANGED <<kind, approval, row, outcome, inAfterSteps>>
    BY <1>9 DEF EndDataset
  <2>2. pc = "prepare" /\ Ahead = {}
    BY <1>9 DEF EndDataset, Ahead, WithRelease
  <2>3. StillAhead(s)
    BY <1>a, <2>1 DEF Requested
  <2>4. PICK rel \in Releases : s \in Covers[rel] /\ DatasetOf[rel] \in left
    BY <2>2, <2>3 DEF StillAhead, Working, InDataset
  <2>5. DatasetOf[rel] # dataset
    BY <2>2, <2>3, <2>4 DEF StillAhead, InDataset
  <2>6. QED
    BY <1>9, <2>3, <2>4, <2>5 DEF EndDataset, StillAhead, InDataset
<1>10. CASE StartAfterSteps
  BY <1>10, <1>a DEF StartAfterSteps, Requested, StillAhead, Working, InDataset
<1>11. ASSUME NEW rel \in Releases, CheckRelease(rel) PROVE StillAhead(s)'
  <2>1. UNCHANGED <<kind, approval, row, outcome, inAfterSteps, left, dataset, prepared>>
    BY <1>11 DEF CheckRelease
  <2>2. pc = "prepare" /\ pc' \in {"prepare", "obtain"} /\ Ahead = toPrepare \cup prepared
    BY <1>11 DEF CheckRelease, Ahead, WithRelease
  <2>3. s \in Covers[rel] => MustRead(rel)
    BY <2>1 DEF Requested, MustRead
  <2>4. \A q \in Ahead : s \in Covers[q] => q \in Ahead'
    BY <1>11, <2>2, <2>3 DEF CheckRelease, Ahead, WithRelease
  <2>5. QED
    BY <1>a, <2>1, <2>2, <2>4 DEF Requested, StillAhead, Working, InDataset
<1>12. ASSUME NEW rel \in Releases, RecordRelease(rel) PROVE StillAhead(s)'
  <2>1. UNCHANGED <<kind, approval, row, outcome, inAfterSteps, left, dataset>>
    BY <1>12 DEF RecordRelease
  <2>2. Ahead' = Ahead
    BY <1>12 DEF RecordRelease, Ahead, WithRelease
  <2>3. QED
    BY <1>12, <1>a, <2>1, <2>2 DEF RecordRelease, Requested, StillAhead, Working, InDataset
<1>13. ASSUME NEW d \in Datasets, BeginDataset(d) PROVE StillAhead(s)'
  <2>1. UNCHANGED <<kind, approval, row, outcome, inAfterSteps, left>> /\ pc = "datasets"
    BY <1>13 DEF BeginDataset
  <2>2. ASSUME NEW rel \in Releases, s \in Covers[rel], DatasetOf[rel] = d
        PROVE  listed \in toPrepare'
    <3>1. DatasetOf[listed] = d
      BY <1>c, <2>2, DatasetsAssumption
    <3>2. s \notin Checkpointed
      BY <2>1 DEF Checkpointed
    <3>3. QED
      BY <1>13, <1>c, <3>1, <3>2 DEF BeginDataset, Discovered
  <2>3. dataset' = d /\ pc' = "prepare"
    BY <1>13 DEF BeginDataset
  <2>4. QED
    BY <1>a, <1>c, <2>1, <2>2, <2>3 DEF Requested, StillAhead, Working, InDataset, Ahead
<1>14. ASSUME NEW d \in Datasets, FailDataset(d) PROVE StillAhead(s)'
  <2>1. UNCHANGED <<kind, approval, outcome, inAfterSteps>>
    BY <1>14 DEF FailDataset
  <2>2. row' = [row EXCEPT ![d] = "failed"] /\ pc' = "datasets" /\ left' = left \ {d}
    BY <1>14 DEF FailDataset
  <2>3. \A rel \in Releases : s \in Covers[rel] => DatasetOf[rel] # d /\ row[DatasetOf[rel]] = "pending"
    BY <2>2, DatasetsAssumption DEF Requested, Inv, TypeOK
  <2>4. StillAhead(s)
    BY <1>a, <1>b, <2>1, <2>3 DEF Requested
  <2>5. pc \in Working
    BY <1>14 DEF FailDataset, Working
  <2>6. QED
    BY <2>1, <2>2, <2>3, <2>4, <2>5 DEF StillAhead, InDataset
<1>15. CASE UNCHANGED vars
  BY <1>15, <1>a, AheadUnseen DEF vars
<1>16. QED
  BY <1>1, <1>2, <1>3, <1>4, <1>5, <1>6, <1>7, <1>8, <1>9, <1>10, <1>11, <1>12,
     <1>13, <1>14, <1>15 DEF Next

-----------------------------------------------------------------------------
\* The invariant is inductive.
LEMMA InvInductive == Spec => []Inv
<1>1. Init => Inv
  <2> SUFFICES ASSUME Init PROVE Inv
    OBVIOUS
  <2>1. TypeOK
    <3>1. /\ head \in [Releases -> 0 .. MaxChanges]
          /\ changes \in 0 .. MaxChanges
          /\ attempt \in 0 .. MaxAttempts
      BY DatasetsAssumption DEF Init
    <3>2. QED
      BY <3>1 DEF Init, TypeOK, NoHead, NoApproval, Outcomes
  <2>2. InHand /\ Obtained
    BY DEF Init, InHand, Obtained, InDataset, WithRelease
  <2>3. NoRunNoRows /\ CheckpointsTellWhatChanged
    BY DEF Init, NoRunNoRows, CheckpointsTellWhatChanged
  <2>4. UndecidedIsAhead
    BY DEF Init, UndecidedIsAhead, StillAhead, Working, InDataset
  <2>5. QED
    BY <2>1, <2>2, <2>3, <2>4 DEF Inv
<1>2. Inv /\ [Next]_vars => Inv'
  BY TypeOKStep, InHandStep, ObtainedStep, RowsStep, UndecidedIsAheadStep DEF Inv
<1>3. QED
  BY <1>1, <1>2, PTL DEF Spec

\* Type correctness: the publisher's files, the rows of datasets, slices,
\* checkpoints and approvals, and what the worker has in hand, in every state of
\* every run and attempt.
THEOREM TypeCorrect == Spec => []TypeOK
<1>1. Inv => TypeOK
  BY DEF Inv
<1>2. QED
  BY <1>1, InvInductive, PTL

\* settleRelease and checkpointIfUnchanged write the checkpoint and the data in
\* one transaction: in whatever step an attempt is lost, the checkpoints of the
\* run tell which slices it changed, and what is applied was recorded.
THEOREM CheckpointsTrue == Spec => []CheckpointsTellWhatChanged
<1>1. Inv => CheckpointsTellWhatChanged
  BY DEF Inv
<1>2. QED
  BY <1>1, InvInductive, PTL

\* The primary key of import_run_slices: a slice with a checkpoint is neither
\* decided nor applied again within its run, by any attempt.
THEOREM SlicesSettledOnce == Spec => SettledOnce
<1> DEFINE Once == \A s \in Slices :
             (outcome[s] # "none" /\ pc' # "none") =>
               outcome'[s] = outcome[s] /\ applied'[s] = applied[s]
<1>1. Inv /\ [Next]_vars => [Once]_vars
  <2> SUFFICES ASSUME Inv, [Next]_vars PROVE Once
    OBVIOUS
  <2>1. CASE EndRun
    BY <2>1 DEF EndRun
  <2>2. CASE CheckpointUnchanged
    BY <2>2 DEF CheckpointUnchanged, CheckpointTaken, Checkpointed
  <2>3. CASE SettleRelease
    BY <2>3 DEF SettleRelease, CheckpointTaken, Checkpointed, AppliedSlices
  <2>4. CASE UNCHANGED <<outcome, applied>>
    BY <2>4
  <2>5. QED
    BY <2>1, <2>2, <2>3, <2>4, RowSteps
<1>2. QED
  BY <1>1, InvInductive, PTL DEF Spec, SettledOnce

\* What is stored for a slice changes by a remap and where a release is settled.
LEMMA StoredSteps ==
  ASSUME [Next]_vars
  PROVE  UNCHANGED stored \/ SettleRelease \/ \E s \in Slices : Remap(s)
<1>1. CASE PublishLayout \/ \E rel \in Releases : PublishFile(rel) \/ ListingAges(rel)
  BY <1>1 DEF PublishLayout, PublishFile, ListingAges
<1>2. CASE QueueDueImports \/ QueueRequestedRun \/ Claim \/ LoseClaim
  BY <1>2 DEF QueueDueImports, QueueRequestedRun, Enqueue, Claim, LoseClaim
<1>3. CASE EndEarly \/ ForgetUnchangedImport \/ FinishRun
  BY <1>3 DEF EndEarly, ForgetUnchangedImport, FinishRun, EndRun
<1>4. CASE ObtainRelease \/ CheckpointUnchanged \/ ReadRelease \/ EndDataset \/ StartAfterSteps
  BY <1>4 DEF ObtainRelease, CheckpointUnchanged, ReadRelease, EndDataset, StartAfterSteps
<1>5. CASE \E rel \in Releases : CheckRelease(rel) \/ RecordRelease(rel)
  BY <1>5 DEF CheckRelease, RecordRelease
<1>6. CASE \E d \in Datasets : BeginDataset(d) \/ FailDataset(d)
  BY <1>6 DEF BeginDataset, FailDataset
<1>7. CASE UNCHANGED vars
  BY <1>7 DEF vars
<1>8. QED
  BY <1>1, <1>2, <1>3, <1>4, <1>5, <1>6, <1>7 DEF Next

\* What decideSlice applies without an approval has enough of the rows.
LEMMA ShrinkGuard ==
  ASSUME NEW live \in Nat, NEW staged \in Nat,
         ~(staged * 100 < live * (100 - HoldShrinkPercent))
  PROVE  100 * (live - staged) <= HoldShrinkPercent * live
<1>1. HoldShrinkPercent \in Int
  BY DatasetsAssumption
<1>2. live * (100 - HoldShrinkPercent) = 100 * live - HoldShrinkPercent * live
  BY <1>1
<1>3. 100 * (live - staged) = 100 * live - staged * 100
  OBVIOUS
<1>4. HoldShrinkPercent * live \in Int
  BY <1>1
<1>5. QED
  BY <1>2, <1>3, <1>4

\* guard.ts: whatever the publisher serves, however its rows and the records they
\* are stored as differ, whatever remaps do in between, and in whichever attempt
\* it is settled, a slice is emptied, or imported from a release with more than
\* hold_shrink_percent fewer rows than it has records, only if these bytes were
\* approved for it.
THEOREM ShrinkNeedsApproval == Spec => ShrinkIsApproved
<1> DEFINE Approved == \A s \in Slices :
             \/ stored'[s] = stored[s]
             \/ Remap(s)
             \/ /\ outcome[s] = "none"
                /\ outcome'[s] = "applied"
                /\ \/ approval[s] = applied'[s]
                   \/ \E read \in Readings[applied'[s]] :
                        /\ stored'[s] = read[s].stored
                        /\ stored[s] > 0 => stored'[s] > 0
                        /\ 100 * (stored[s] - read[s].staged) <= HoldShrinkPercent * stored[s]
<1>1. Inv /\ [Next]_vars => [Approved]_vars
  <2> SUFFICES ASSUME Inv, [Next]_vars, NEW s \in Slices, stored'[s] # stored[s], ~Remap(s)
               PROVE  /\ outcome[s] = "none"
                      /\ outcome'[s] = "applied"
                      /\ \/ approval[s] = applied'[s]
                         \/ \E read \in Readings[applied'[s]] :
                              /\ stored'[s] = read[s].stored
                              /\ stored[s] > 0 => stored'[s] > 0
                              /\ 100 * (stored[s] - read[s].staged) <= HoldShrinkPercent * stored[s]
    OBVIOUS
  <2>1. SettleRelease
    BY StoredSteps DEF Remap, Inv, TypeOK
  <2>2. DEFINE c == gotContent[release]
  <2>3. PICK read \in Readings[c] :
          /\ outcome' = [q \in Slices |->
               IF q \in Covers[release] THEN DecideSlice(q, c, read) ELSE outcome[q]]
          /\ applied' = [q \in Slices |->
               IF q \in AppliedSlices(release, read) THEN c ELSE applied[q]]
          /\ stored' = [q \in Slices |->
               IF q \in AppliedSlices(release, read) THEN read[q].stored ELSE stored[q]]
    BY <2>1 DEF SettleRelease
  <2>4. s \in Covers[release] /\ DecideSlice(s, c, read) = "applied"
    BY <2>3 DEF AppliedSlices
  <2>5. outcome[s] = "none" /\ outcome'[s] = "applied"
    BY <2>1, <2>3, <2>4 DEF SettleRelease, CheckpointTaken, Checkpointed
  <2>6. applied'[s] = c /\ stored'[s] = read[s].stored
    BY <2>3
  <2>7. c \in Contents
    BY <2>1 DEF SettleRelease, Inv, Obtained, InHand, WithRelease, TypeOK
  <2>8. /\ read[s].staged \in Nat
        /\ read[s].stored \in Nat
        /\ read[s].stored <= read[s].staged
        /\ read[s].stored = 0 => read[s].staged = 0
        /\ stored[s] \in Nat
    BY <2>7, DatasetsAssumption DEF Inv, TypeOK
  <2>9. CASE IsApproved(s, c)
    BY <2>5, <2>6, <2>9 DEF IsApproved
  <2>10. CASE ~IsApproved(s, c)
    <3>1. /\ read[s].staged = 0 => stored[s] = 0
          /\ read[s].staged # 0 => ~(read[s].staged * 100 < stored[s] * (100 - HoldShrinkPercent))
      BY <2>4, <2>10 DEF DecideSlice, LiveCount
    <3>2. read[s].staged # 0
      BY <2>6, <2>8, <3>1
    <3>3. 100 * (stored[s] - read[s].staged) <= HoldShrinkPercent * stored[s]
      BY <2>8, <3>1, <3>2, ShrinkGuard
    <3>4. stored'[s] > 0
      BY <2>6, <2>8, <3>2
    <3>5. QED
      BY <2>5, <2>6, <3>3, <3>4
  <2>11. QED
    BY <2>9, <2>10
<1>2. QED
  BY <1>1, InvInductive, PTL DEF Spec, ShrinkIsApproved

\* A run that ends well has decided every slice that it was told to read: the
\* listing that skips an unchanged file never skips one of these, and what one
\* attempt did not settle the next one meets again.
THEOREM RequestsAreDecided == Spec => RequestedIsDecided
<1> DEFINE Decided ==
             (FinishRun \/ ForgetUnchangedImport) =>
               \A s \in Slices :
                 (/\ AlwaysListed(s)
                  /\ kind = "replay" \/ approval[s] # NoContent
                  /\ \A rel \in Releases : s \in Covers[rel] => row[DatasetOf[rel]] = "pending")
                 => outcome[s] # "none"
<1>1. Inv /\ [Next]_vars => [Decided]_vars
  <2> SUFFICES ASSUME Inv, FinishRun \/ ForgetUnchangedImport,
                      NEW s \in Slices, Requested(s), outcome[s] = "none"
               PROVE  FALSE
    BY DEF Requested
  <2>1. StillAhead(s)
    BY DEF Inv, UndecidedIsAhead
  <2>2. CASE FinishRun
    BY <2>1, <2>2 DEF FinishRun, StillAhead
  <2>3. CASE ForgetUnchangedImport
    BY <2>1, <2>3 DEF ForgetUnchangedImport, StillAhead, Working
  <2>4. QED
    BY <2>2, <2>3
<1>2. QED
  BY <1>1, InvInductive, PTL DEF Spec, RequestedIsDecided

\* forgetUnchangedImport deletes only a run after which every slice holds what
\* it held when the run was queued, and that held nothing back.
THEOREM ForgottenRunsWereIdle == Spec => ForgottenRunWasIdle
<1> DEFINE Idle == ForgetUnchangedImport =>
                     applied = before /\ \A s \in Slices : outcome[s] # "held"
<1>1. Inv /\ [Next]_vars => [Idle]_vars
  <2> SUFFICES ASSUME Inv, ForgetUnchangedImport
               PROVE  applied = before /\ \A s \in Slices : outcome[s] # "held"
    OBVIOUS
  <2>1. \A s \in Slices : outcome[s] # "applied" /\ outcome[s] # "held"
    BY DEF ForgetUnchangedImport, HasChangedNothing
  <2>2. \A s \in Slices : applied[s] = before[s]
    BY <2>1 DEF Inv, CheckpointsTellWhatChanged, ForgetUnchangedImport
  <2>3. applied = before
    BY <2>2 DEF Inv, TypeOK
  <2>4. QED
    BY <2>1, <2>3
<1>2. QED
  BY <1>1, InvInductive, PTL DEF Spec, ForgottenRunWasIdle

=============================================================================
