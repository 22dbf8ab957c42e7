------------------------- MODULE ContributionProofs -------------------------
(***************************************************************************)
(* Theorems about what users contribute, by the instances of it in         *)
(* Contributions:                                                          *)
(*   Proposals  photos are kept, and what was reviewed is applied;         *)
(*   Audit      reverts put back once, and overwrite no later edit.        *)
(*                                                                         *)
(* The inductive invariant of the submissions is about the requests under  *)
(* way: the photos of an upload are known to nobody else until they are    *)
(* stored, what is to be unlinked has no attachment any more, and a photo  *)
(* that is to be removed belongs to no other submission, and is not        *)
(* published while its own is pending.                                     *)
(*                                                                         *)
(* That of the audit log is about the transactions under way: a change     *)
(* that has joined an operation finds it open until it commits, what a     *)
(* revert saw is as it was but for the rows it must not touch, and one     *)
(* that holds the row of its operation is alone at it.                     *)
(***************************************************************************)
EXTENDS Contributions, Integers, Sequences, FiniteSets, SequenceTheorems, FiniteSetTheorems, TLAPS

-----------------------------------------------------------------------------
(* The invariant of the submissions.                                       *)

Row == [status : Proposals!Statuses, updated : Nat, draft : Nat, content : BOOLEAN, announced : BOOLEAN, old : BOOLEAN]
Request == [at : {"idle", "upload", "remove", "unlink", "edit", "shown", "review", "delete", "orphans", "rejected"},
            subs : SUBSET Submissions, photos : SUBSET Photos, admin : BOOLEAN, status : Proposals!Statuses,
            seen : [updated : Nat, draft : Nat], read : Nat, sends : BOOLEAN]
ReviewNote == [by : {"nobody", "version", "anyone"}, seen : [updated : Nat, draft : Nat], draft : Nat]

Shapes ==
  /\ sub \in [Submissions -> Row]
  /\ photos \in [Submissions -> SUBSET Photos]
  /\ used \subseteq Photos /\ lost \subseteq used
  /\ req \in [Proposals!Actors -> Request]
  /\ review \in [Submissions -> ReviewNote]
  /\ crashes \in 0 .. MaxCrashes /\ requests \in 0 .. MaxRequests

\* The photos of a submission are its own; they have attachments until it is
\* approved, and are published once it is.
TablesAgree ==
  /\ published \subseteq attachments /\ attachments \subseteq files /\ files \subseteq used
  /\ attachments \subseteq published \cup UNION {photos[s] : s \in Submissions}
  /\ \A s \in Submissions :
       /\ photos[s] \subseteq used
       /\ sub[s].status \in {"pending", "rejected"} => photos[s] \subseteq attachments
       /\ sub[s].status \in {"absent", "removed"} => photos[s] = {}
       /\ sub[s].status # "approved" => photos[s] \cap published = {}
       /\ \A t \in Submissions : s # t => photos[s] \cap photos[t] = {}

LimitKept == \A s \in Submissions : IsFiniteSet(photos[s]) /\ Cardinality(photos[s]) <= PhotoLimit

\* A file is of an attachment, of an upload, or about to go, or a dead process
\* left it.
FilesNamed ==
  \A f \in files :
    \/ f \in attachments \cup lost
    \/ \E r \in Proposals!Actors : req[r].at \in {"upload", "unlink"} /\ f \in req[r].photos

\* What a request has to do with one submission.
ForOne == {"upload", "remove", "edit", "shown", "review", "delete"}
KnowsIts(r) ==
  req[r].at \in ForOne =>
    /\ r \in Requests
    /\ Proposals!The(r) \in Submissions /\ req[r].subs = {Proposals!The(r)}
    /\ sub[Proposals!The(r)].status # "absent"

UploadsNew(r) ==
  req[r].at = "upload" =>
    /\ req[r].photos \subseteq files /\ req[r].photos \cap attachments = {}
    /\ IsFiniteSet(req[r].photos)
    /\ \A s \in Submissions : req[r].photos \cap photos[s] = {}
    /\ \A q \in Proposals!Actors : q # r => req[q].photos \cap req[r].photos = {}

UnlinksUnnamed(r) == req[r].at = "unlink" => req[r].photos \cap attachments = {}

RemovesItsOwn(r) ==
  req[r].at = "remove" =>
    /\ \A s \in Submissions : s # Proposals!The(r) => req[r].photos \cap photos[s] = {}
    /\ sub[Proposals!The(r)].status = "pending" => req[r].photos \cap published = {}

\* A row that is as it was when it was shown has the content it had then.
ShownTruly(r) ==
  req[r].at \in {"shown", "review"} /\ sub[Proposals!The(r)].status = "pending" =>
    /\ req[r].seen.updated <= sub[Proposals!The(r)].updated
    /\ req[r].seen.updated = sub[Proposals!The(r)].updated => req[r].seen.draft = sub[Proposals!The(r)].draft

MayDelete(r) == req[r].at = "delete" => req[r].admin \/ req[r].status = "pending"

Fitting(r) ==
  req[r].photos \subseteq used /\ KnowsIts(r) /\ UploadsNew(r) /\ UnlinksUnnamed(r) /\ RemovesItsOwn(r)
    /\ ShownTruly(r) /\ MayDelete(r)

Editing(s) == {r \in Requests : req[r].at = "edit" /\ req[r].subs = {s}}
EditsBounded == \A s \in Submissions : sub[s].draft + Cardinality(Editing(s)) <= MaxEdits + Cardinality(Requests)

ProposalsInv ==
  /\ Shapes /\ TablesAgree /\ LimitKept /\ FilesNamed /\ EditsBounded /\ Proposals!AppliedAsShown
  /\ \A r \in Proposals!Actors : Fitting(r)

-----------------------------------------------------------------------------
(* What a step keeps.                                                      *)

LEMMA SameCardinality ==
  /\ \A S : Proposals!Cardinality(S) = Cardinality(S)
  /\ \A S : Proposals!IsFiniteSet(S) <=> IsFiniteSet(S)
BY DEF Proposals!Cardinality, Cardinality, Proposals!IsFiniteSet, IsFiniteSet

LEMMA ActorsAre ==
  ASSUME Proposals!SubmissionsAssumption
  PROVE  /\ Requests \subseteq Proposals!Actors
         /\ "orphans" \in Proposals!Actors /\ "rejected" \in Proposals!Actors
         /\ "orphans" \notin Requests /\ "rejected" \notin Requests
         /\ IsFiniteSet(Requests) /\ Cardinality(Requests) \in Nat
         /\ MaxEdits \in Nat /\ MaxRequests \in Nat /\ MaxCrashes \in Nat /\ PhotoLimit \in Nat
<1>1. IsFiniteSet(Requests)
  BY SameCardinality DEF Proposals!SubmissionsAssumption
<1>2. Cardinality(Requests) \in Nat
  BY <1>1, FS_CardinalityType
<1>3. QED
  BY <1>1, <1>2 DEF Proposals!SubmissionsAssumption, Proposals!Actors, Proposals!Tasks

\* A request that changes alone.
LEMMA OneChanges ==
  ASSUME Shapes, NEW r \in Proposals!Actors, NEW b, req' = [req EXCEPT ![r] = b]
  PROVE  /\ req'[r] = b
         /\ \A q \in Proposals!Actors \ {r} : req'[q] = req[q] /\ Proposals!The(q)' = Proposals!The(q)
         /\ b \in Request => req' \in [Proposals!Actors -> Request]
BY DEF Shapes, Proposals!The

LEMMA OneOf ==
  ASSUME NEW r \in Proposals!Actors, NEW s, req[r].subs = {s}
  PROVE  Proposals!The(r) = s
BY DEF Proposals!The

LEMMA IdleIs ==
  /\ Proposals!Idle \in Request
  /\ Proposals!Idle.at = "idle" /\ Proposals!Idle.photos = {}
  /\ \A ps \in SUBSET Photos, at \in {"unlink"} :
       LET b == [Proposals!Idle EXCEPT !.at = at, !.photos = ps]
       IN  b \in Request /\ b.at = at /\ b.photos = ps
BY DEF Proposals!Idle, Request, Proposals!Statuses

\* A request that rests stays as it should be: what others store is not its
\* own, and a row is not pending again and counts up.
LEMMA RestFits ==
  ASSUME ProposalsInv, NEW q \in Proposals!Actors, NEW more,
         req'[q] = req[q], Proposals!The(q)' = Proposals!The(q),
         more \cap req[q].photos = {},
         used \subseteq used',
         attachments' \subseteq attachments \cup more,
         \A s \in Submissions : photos'[s] \subseteq photos[s] \cup more,
         published' \subseteq published \cup UNION {photos[s] : s \in {s \in Submissions : sub'[s].status # "pending"}},
         req[q].at = "upload" => req[q].photos \subseteq files',
         req[q].at = "upload" => \A p \in Proposals!Actors : p # q => req'[p].photos \cap req[q].photos = {},
         \A s \in Submissions :
           /\ sub[s].status # "absent" => sub'[s].status # "absent"
           /\ sub[s].status # "absent" /\ sub'[s].status = "pending" =>
                /\ sub[s].status = "pending"
                /\ sub'[s].updated \in Nat
                /\ sub[s].updated < sub'[s].updated \/ (sub'[s].updated = sub[s].updated /\ sub'[s].draft = sub[s].draft)
  PROVE  Fitting(q)'
<1> DEFINE s == Proposals!The(q)
<1>1. Fitting(q) /\ req[q] \in Request /\ sub \in [Submissions -> Row]
  BY DEF ProposalsInv, Shapes
<1>2. KnowsIts(q)' /\ (req[q].photos \subseteq used)' /\ MayDelete(q)'
  BY <1>1 DEF Fitting, KnowsIts, MayDelete
<1>3. UploadsNew(q)'
  BY <1>1 DEF Fitting, UploadsNew
<1>4. UnlinksUnnamed(q)'
  BY <1>1 DEF Fitting, UnlinksUnnamed
<1>5. RemovesItsOwn(q)'
  <2>1. ASSUME req[q].at = "remove"
        PROVE  /\ \A t \in Submissions : t # s => req[q].photos \cap photos'[t] = {}
               /\ sub'[s].status = "pending" => req[q].photos \cap published' = {}
    <3>1. s \in Submissions /\ sub[s].status # "absent"
      BY <1>1, <2>1 DEF Fitting, KnowsIts, ForOne
    <3>2. \A t \in Submissions : t # s => req[q].photos \cap photos[t] = {}
      BY <1>1, <2>1 DEF Fitting, RemovesItsOwn
    <3>3. ASSUME sub'[s].status = "pending"
          PROVE  req[q].photos \cap published' = {}
      <4>1. req[q].photos \cap published = {}
        BY <1>1, <2>1, <3>1, <3>3 DEF Fitting, RemovesItsOwn
      <4>2. \A t \in Submissions : sub'[t].status # "pending" => t # s
        BY <3>3
      <4>3. QED
        BY <3>2, <4>1, <4>2
    <3>4. QED
      BY <3>2, <3>3
  <2>2. QED
    BY <2>1 DEF RemovesItsOwn
<1>6. ShownTruly(q)'
  <2>1. ASSUME req[q].at \in {"shown", "review"}, sub'[s].status = "pending"
        PROVE  /\ req[q].seen.updated <= sub'[s].updated
               /\ req[q].seen.updated = sub'[s].updated => req[q].seen.draft = sub'[s].draft
    <3>1. s \in Submissions /\ sub[s].status # "absent"
      BY <1>1, <2>1 DEF Fitting, KnowsIts, ForOne
    <3>2. /\ sub[s].status = "pending" /\ sub'[s].updated \in Nat
          /\ sub[s].updated < sub'[s].updated \/ (sub'[s].updated = sub[s].updated /\ sub'[s].draft = sub[s].draft)
      BY <2>1, <3>1
    <3>3. /\ req[q].seen.updated <= sub[s].updated
          /\ req[q].seen.updated = sub[s].updated => req[q].seen.draft = sub[s].draft
      BY <1>1, <2>1, <3>2 DEF Fitting, ShownTruly
    <3>4. sub[s].updated \in Nat /\ req[q].seen.updated \in Nat
      BY <1>1, <3>1 DEF Row, Request
    <3>5. QED
      BY <3>2, <3>3, <3>4
  <2>2. QED
    BY <2>1 DEF ShownTruly
<1>7. QED
  BY <1>2, <1>3, <1>4, <1>5, <1>6 DEF Fitting

\* Where nobody begins an edit and no submission counts one.
LEMMA EditsRest ==
  ASSUME Proposals!SubmissionsAssumption, ProposalsInv, Shapes',
         \A s \in Submissions : sub'[s].draft <= sub[s].draft,
         \A r \in Requests : req'[r].at = "edit" => req'[r] = req[r]
  PROVE  EditsBounded'
<1> SUFFICES ASSUME NEW s \in Submissions
             PROVE  sub'[s].draft + Cardinality(Editing(s)') <= MaxEdits + Cardinality(Requests)
  BY DEF EditsBounded
<1>1. Editing(s)' \subseteq Editing(s)
  BY DEF Editing
<1>2. Editing(s) \subseteq Requests
  BY DEF Editing
<1>3. IsFiniteSet(Editing(s)) /\ Cardinality(Editing(s)) \in Nat
  BY <1>2, ActorsAre, FS_Subset, FS_CardinalityType
<1>4. Cardinality(Editing(s)') <= Cardinality(Editing(s)) /\ Cardinality(Editing(s)') \in Nat
  BY <1>1, <1>3, FS_Subset, FS_CardinalityType
<1>5. sub[s].draft + Cardinality(Editing(s)) <= MaxEdits + Cardinality(Requests)
  BY DEF ProposalsInv, EditsBounded
<1>6. sub[s].draft \in Nat /\ sub'[s].draft \in Nat
  BY DEF ProposalsInv, Shapes, Row
<1>7. QED
  BY <1>3, <1>4, <1>5, <1>6, ActorsAre

\* A step of a request that leaves the tables alone.
LEMMA RequestAlone ==
  ASSUME Proposals!SubmissionsAssumption, ProposalsInv,
         NEW r \in Proposals!Actors, NEW b \in Request,
         req' = [req EXCEPT ![r] = b],
         UNCHANGED <<sub, photos, attachments, published, files, used, review>>,
         lost \subseteq lost', lost' \subseteq used,
         crashes' \in 0 .. MaxCrashes, requests' \in 0 .. MaxRequests,
         req[r].at \in {"upload", "unlink"} => req[r].photos \subseteq lost' \/ (b.at = "unlink" /\ b.photos = req[r].photos) \/ req[r].photos = {},
         b.photos \subseteq used,
         \A q \in Proposals!Actors \ {r} : req[q].at = "upload" => b.photos \cap req[q].photos = {},
         Fitting(r)',
         EditsBounded'
  PROVE  ProposalsInv'
<1>1. /\ req'[r] = b
      /\ \A q \in Proposals!Actors \ {r} : req'[q] = req[q] /\ Proposals!The(q)' = Proposals!The(q)
      /\ req' \in [Proposals!Actors -> Request]
  BY OneChanges DEF ProposalsInv
<1>2. Shapes'
  BY <1>1 DEF ProposalsInv, Shapes
<1>3. TablesAgree' /\ LimitKept' /\ Proposals!AppliedAsShown'
  BY DEF ProposalsInv, TablesAgree, LimitKept, Proposals!AppliedAsShown
<1>4. FilesNamed'
  <2> SUFFICES ASSUME NEW f \in files', f \notin attachments', f \notin lost'
               PROVE  \E q \in Proposals!Actors : req'[q].at \in {"upload", "unlink"} /\ f \in req'[q].photos
    BY DEF FilesNamed
  <2>1. PICK q \in Proposals!Actors : req[q].at \in {"upload", "unlink"} /\ f \in req[q].photos
    BY DEF ProposalsInv, FilesNamed
  <2>2. CASE q = r
    BY <1>1, <2>1, <2>2
  <2>3. CASE q # r
    BY <1>1, <2>1, <2>3
  <2>4. QED
    BY <2>2, <2>3
<1>5. ASSUME NEW q \in Proposals!Actors, q # r
      PROVE  Fitting(q)'
  <2>1. req[q].at = "upload" => req[q].photos \subseteq files'
    BY DEF ProposalsInv, Fitting, UploadsNew
  <2>2. req[q].at = "upload" => \A p \in Proposals!Actors : p # q => req'[p].photos \cap req[q].photos = {}
    BY <1>1, <1>5 DEF ProposalsInv, Fitting, UploadsNew
  <2>3. \A s \in Submissions : sub'[s].updated \in Nat
    BY DEF ProposalsInv, Shapes, Row
  <2>4. req'[q] = req[q] /\ Proposals!The(q)' = Proposals!The(q)
    BY <1>1, <1>5
  <2>5. {} \cap req[q].photos = {}
    OBVIOUS
  <2>6. QED
    BY <2>1, <2>2, <2>3, <2>4, <2>5, RestFits
<1>6. QED
  BY <1>2, <1>3, <1>4, <1>5 DEF ProposalsInv

-----------------------------------------------------------------------------
(* Requests that begin.                                                    *)

\* A request begins with what it has read, and no photos of its own or of
\* those that upload.
LEMMA BeginKeeps ==
  ASSUME Proposals!SubmissionsAssumption, ProposalsInv,
         NEW r \in Proposals!Actors, NEW b \in Request,
         Proposals!Begin(r, b),
         UNCHANGED <<sub, photos, attachments, published, files, used, review, lost, crashes>>,
         b.photos \subseteq used,
         \A q \in Proposals!Actors \ {r} : req[q].at = "upload" => b.photos \cap req[q].photos = {},
         Fitting(r)', EditsBounded'
  PROVE  ProposalsInv'
<1>1. req[r].at = "idle" /\ req' = [req EXCEPT ![r] = b]
  BY IdleIs DEF Proposals!Begin
<1>2. requests' \in 0 .. MaxRequests
  BY ActorsAre DEF Proposals!Begin, ProposalsInv, Shapes
<1>3. lost' = lost /\ lost \subseteq used /\ crashes' \in 0 .. MaxCrashes
  BY DEF ProposalsInv, Shapes
<1>4. QED
  BY <1>1, <1>2, <1>3, RequestAlone

\* A request that begins for one submission, which is there.
LEMMA BeginForOne ==
  ASSUME Proposals!SubmissionsAssumption, ProposalsInv,
         NEW r \in Requests, NEW s \in Submissions, NEW b \in Request,
         Proposals!Begin(r, b),
         UNCHANGED <<sub, photos, attachments, published, files, used, review, lost, crashes>>,
         b.at \in ForOne, b.subs = {s}, Proposals!Exists(s)
  PROVE  /\ r \in Proposals!Actors /\ req'[r] = b /\ Proposals!The(r)' = s /\ KnowsIts(r)'
         /\ \A q \in Proposals!Actors \ {r} : req'[q] = req[q]
         /\ b.at # "edit" => EditsBounded'
<1>1. r \in Proposals!Actors /\ req' = [req EXCEPT ![r] = b]
  BY ActorsAre DEF Proposals!Begin
<1>2. /\ req'[r] = b /\ req' \in [Proposals!Actors -> Request]
      /\ \A q \in Proposals!Actors \ {r} : req'[q] = req[q]
  BY <1>1, OneChanges DEF ProposalsInv
<1>3. Proposals!The(r)' = s
  BY <1>2 DEF Proposals!The
<1>4. KnowsIts(r)'
  BY <1>2, <1>3 DEF KnowsIts, Proposals!Exists
<1>5. ASSUME b.at # "edit"
      PROVE  EditsBounded'
  <2>1. requests' \in 0 .. MaxRequests
    BY ActorsAre DEF Proposals!Begin, ProposalsInv, Shapes
  <2>2. Shapes'
    BY <1>2, <2>1 DEF ProposalsInv, Shapes
  <2>3. \A t \in Submissions : sub'[t].draft <= sub[t].draft
    BY DEF ProposalsInv, Shapes, Row
  <2>4. \A q \in Requests : req'[q].at = "edit" => req'[q] = req[q]
    BY <1>2, <1>5, ActorsAre
  <2>5. QED
    BY <2>2, <2>3, <2>4, EditsRest
<1>6. QED
  BY <1>1, <1>2, <1>3, <1>4, <1>5

LEMMA UploadBegins ==
  ASSUME Proposals!SubmissionsAssumption, ProposalsInv, NEW r \in Requests, NEW s \in Submissions,
         Proposals!uploadSubmissionPhotos(r, s)
  PROVE  ProposalsInv'
<1> DEFINE b == [Proposals!Idle EXCEPT !.at = "upload", !.subs = {s}, !.read = Proposals!Cardinality(photos[s])]
<1>1. Proposals!Cardinality(photos[s]) \in Nat
  BY SameCardinality, FS_CardinalityType DEF ProposalsInv, LimitKept
<1>2. b \in Request /\ b.at = "upload" /\ b.subs = {s} /\ b.photos = {}
  BY <1>1 DEF Proposals!Idle, Request, Proposals!Statuses
<1>3. /\ Proposals!Begin(r, b) /\ Proposals!Exists(s)
      /\ UNCHANGED <<sub, photos, attachments, published, files, used, review, lost, crashes>>
  BY DEF Proposals!uploadSubmissionPhotos, Proposals!Exists
<1> HIDE DEF b
<1>4. /\ r \in Proposals!Actors /\ req'[r] = b /\ Proposals!The(r)' = s /\ KnowsIts(r)' /\ EditsBounded'
  BY <1>2, <1>3, BeginForOne DEF ForOne
<1>5. Fitting(r)'
  <2>1. UploadsNew(r)'
    BY <1>2, <1>4, FS_EmptySet DEF UploadsNew
  <2>2. QED
    BY <1>2, <1>4, <2>1 DEF Fitting, UnlinksUnnamed, RemovesItsOwn, ShownTruly, MayDelete
<1>6. QED
  BY <1>2, <1>3, <1>4, <1>5, BeginKeeps

LEMMA RemovalBegins ==
  ASSUME Proposals!SubmissionsAssumption, ProposalsInv, NEW r \in Requests, NEW s \in Submissions, NEW p \in Photos,
         Proposals!findPhotoEditableSubmission(r, s, p)
  PROVE  ProposalsInv'
<1> DEFINE b == [Proposals!Idle EXCEPT !.at = "remove", !.subs = {s}, !.photos = {p}]
<1>1. b \in Request /\ b.at = "remove" /\ b.subs = {s} /\ b.photos = {p}
  BY DEF Proposals!Idle, Request, Proposals!Statuses
<1>2. /\ Proposals!Begin(r, b) /\ Proposals!Exists(s) /\ sub[s].status = "pending" /\ p \in photos[s]
      /\ UNCHANGED <<sub, photos, attachments, published, files, used, review, lost, crashes>>
  BY DEF Proposals!findPhotoEditableSubmission, Proposals!Exists
<1> HIDE DEF b
<1>3. /\ r \in Proposals!Actors /\ req'[r] = b /\ Proposals!The(r)' = s /\ KnowsIts(r)' /\ EditsBounded'
  BY <1>1, <1>2, BeginForOne DEF ForOne
<1>4. p \in used /\ p \notin published /\ \A t \in Submissions : t # s => p \notin photos[t]
  BY <1>2 DEF ProposalsInv, TablesAgree
<1>5. \A q \in Proposals!Actors \ {r} : req[q].at = "upload" => b.photos \cap req[q].photos = {}
  BY <1>1, <1>2 DEF ProposalsInv, Fitting, UploadsNew
<1>6. Fitting(r)'
  <2>1. RemovesItsOwn(r)'
    BY <1>1, <1>2, <1>3, <1>4 DEF RemovesItsOwn
  <2>2. QED
    BY <1>1, <1>2, <1>3, <1>4, <2>1 DEF Fitting, UnlinksUnnamed, UploadsNew, ShownTruly, MayDelete
<1>7. QED
  BY <1>1, <1>2, <1>3, <1>4, <1>5, <1>6, BeginKeeps

LEMMA ShowBegins ==
  ASSUME Proposals!SubmissionsAssumption, ProposalsInv, NEW r \in Requests, NEW s \in Submissions,
         Proposals!Show(r, s)
  PROVE  ProposalsInv'
<1> DEFINE b == [Proposals!Idle EXCEPT !.at = "shown", !.subs = {s},
                                       !.seen = [updated |-> sub[s].updated, draft |-> sub[s].draft]]
<1>1. sub[s] \in Row
  BY DEF ProposalsInv, Shapes
<1>2. /\ b \in Request /\ b.at = "shown" /\ b.subs = {s} /\ b.photos = {}
      /\ b.seen.updated = sub[s].updated /\ b.seen.draft = sub[s].draft
  BY <1>1 DEF Proposals!Idle, Request, Proposals!Statuses, Row
<1>3. /\ Proposals!Begin(r, b) /\ Proposals!Exists(s)
      /\ UNCHANGED <<sub, photos, attachments, published, files, used, review, lost, crashes>>
  BY DEF Proposals!Show, Proposals!Exists
<1> HIDE DEF b
<1>4. /\ r \in Proposals!Actors /\ req'[r] = b /\ Proposals!The(r)' = s /\ KnowsIts(r)' /\ EditsBounded'
  BY <1>2, <1>3, BeginForOne DEF ForOne
<1>5. Fitting(r)'
  <2>1. ShownTruly(r)'
    BY <1>1, <1>2, <1>3, <1>4 DEF ShownTruly, Row
  <2>2. QED
    BY <1>2, <1>4, <2>1 DEF Fitting, UnlinksUnnamed, UploadsNew, RemovesItsOwn, MayDelete
<1>6. QED
  BY <1>2, <1>3, <1>4, <1>5, BeginKeeps

LEMMA DeletionBegins ==
  ASSUME Proposals!SubmissionsAssumption, ProposalsInv, NEW r \in Requests, NEW s \in Submissions, NEW admin \in BOOLEAN,
         Proposals!readForRemoval(r, s, admin)
  PROVE  ProposalsInv'
<1> DEFINE b == [Proposals!Idle EXCEPT !.at = "delete", !.subs = {s}, !.admin = admin, !.status = sub[s].status]
<1>1. sub[s] \in Row
  BY DEF ProposalsInv, Shapes
<1>2. /\ b \in Request /\ b.at = "delete" /\ b.subs = {s} /\ b.photos = {}
      /\ b.admin = admin /\ b.status = sub[s].status
  BY <1>1 DEF Proposals!Idle, Request, Proposals!Statuses, Row
<1>3. /\ Proposals!Begin(r, b) /\ Proposals!Exists(s) /\ (admin \/ sub[s].status = "pending")
      /\ UNCHANGED <<sub, photos, attachments, published, files, used, review, lost, crashes>>
  BY DEF Proposals!readForRemoval
<1> HIDE DEF b
<1>4. /\ r \in Proposals!Actors /\ req'[r] = b /\ Proposals!The(r)' = s /\ KnowsIts(r)' /\ EditsBounded'
  BY <1>2, <1>3, BeginForOne DEF ForOne
<1>5. Fitting(r)'
  BY <1>2, <1>3, <1>4 DEF Fitting, UnlinksUnnamed, UploadsNew, RemovesItsOwn, MayDelete, ShownTruly
<1>6. QED
  BY <1>2, <1>3, <1>4, <1>5, BeginKeeps

\* An edit begins while the drafts are below their bound, whoever edits by then.
LEMMA EditBegins ==
  ASSUME Proposals!SubmissionsAssumption, ProposalsInv, NEW r \in Requests, NEW s \in Submissions,
         Proposals!findEditableSubmission(r, s)
  PROVE  ProposalsInv'
<1>1. PICK admin \in BOOLEAN :
        Proposals!Begin(r, [Proposals!Idle EXCEPT !.at = "edit", !.subs = {s}, !.admin = admin, !.status = sub[s].status])
  BY DEF Proposals!findEditableSubmission
<1> DEFINE b == [Proposals!Idle EXCEPT !.at = "edit", !.subs = {s}, !.admin = admin, !.status = sub[s].status]
<1>2. sub[s] \in Row
  BY DEF ProposalsInv, Shapes
<1>3. b \in Request /\ b.at = "edit" /\ b.subs = {s} /\ b.photos = {}
  BY <1>2 DEF Proposals!Idle, Request, Proposals!Statuses, Row
<1>4. /\ Proposals!Begin(r, b) /\ Proposals!Exists(s) /\ sub[s].draft < MaxEdits
      /\ UNCHANGED <<sub, photos, attachments, published, files, used, review, lost, crashes>>
  BY <1>1 DEF Proposals!findEditableSubmission
<1> HIDE DEF b
<1>5. /\ r \in Proposals!Actors /\ req'[r] = b /\ Proposals!The(r)' = s /\ KnowsIts(r)'
      /\ \A q \in Proposals!Actors \ {r} : req'[q] = req[q]
  BY <1>3, <1>4, BeginForOne DEF ForOne
<1>6. Fitting(r)'
  BY <1>3, <1>5 DEF Fitting, UnlinksUnnamed, UploadsNew, RemovesItsOwn, MayDelete, ShownTruly
<1>7. EditsBounded'
  <2> SUFFICES ASSUME NEW t \in Submissions
               PROVE  sub'[t].draft + Cardinality(Editing(t)') <= MaxEdits + Cardinality(Requests)
    BY DEF EditsBounded
  <2>1. /\ Editing(t)' \subseteq Requests
        /\ IsFiniteSet(Editing(t)') /\ Cardinality(Editing(t)') \in Nat
        /\ Cardinality(Editing(t)') <= Cardinality(Requests)
    <3>1. Editing(t)' \subseteq Requests
      BY DEF Editing
    <3>2. QED
      BY <3>1, ActorsAre, FS_Subset, FS_CardinalityType
  <2>2. sub'[t] = sub[t] /\ sub[t].draft \in Nat
    BY <1>4 DEF ProposalsInv, Shapes, Row
  <2>3. CASE t = s
    BY <1>4, <2>1, <2>2, <2>3, ActorsAre
  <2>4. CASE t # s
    <3>1. Editing(t)' = Editing(t)
      <4>1. req[r].at = "idle"
        BY <1>4, IdleIs DEF Proposals!Begin
      <4>2. \A q \in Requests : req'[q].at = "edit" /\ req'[q].subs = {t} <=> req[q].at = "edit" /\ req[q].subs = {t}
        BY <1>3, <1>5, <2>4, <4>1, ActorsAre
      <4>3. QED
        BY <4>2 DEF Editing
    <3>2. QED
      BY <2>2, <3>1 DEF ProposalsInv, EditsBounded
  <2>5. QED
    BY <2>3, <2>4
<1>8. QED
  BY <1>3, <1>4, <1>5, <1>6, <1>7, BeginKeeps

\* A clean-up begins with the submissions it has found.
LEMMA CleanupBegins ==
  ASSUME Proposals!SubmissionsAssumption, ProposalsInv, NEW r \in Proposals!Actors, NEW b \in Request,
         Proposals!Begin(r, b), b.at \in {"orphans", "rejected"}, b.photos = {},
         UNCHANGED <<sub, photos, attachments, published, files, used, review, lost, crashes>>
  PROVE  ProposalsInv'
<1>1. req' = [req EXCEPT ![r] = b]
  BY DEF Proposals!Begin
<1>2. /\ req'[r] = b /\ req' \in [Proposals!Actors -> Request]
      /\ \A q \in Proposals!Actors \ {r} : req'[q] = req[q]
  BY <1>1, OneChanges DEF ProposalsInv
<1>3. Fitting(r)'
  BY <1>2 DEF Fitting, KnowsIts, ForOne, UnlinksUnnamed, UploadsNew, RemovesItsOwn, MayDelete, ShownTruly
<1>4. EditsBounded'
  <2>1. requests' \in 0 .. MaxRequests
    BY ActorsAre DEF Proposals!Begin, ProposalsInv, Shapes
  <2>2. Shapes'
    BY <1>2, <2>1 DEF ProposalsInv, Shapes
  <2>3. \A t \in Submissions : sub'[t].draft <= sub[t].draft
    BY DEF ProposalsInv, Shapes, Row
  <2>4. \A q \in Requests : req'[q].at = "edit" => req'[q] = req[q]
    BY <1>2, ActorsAre
  <2>5. QED
    BY <2>2, <2>3, <2>4, EditsRest
<1>5. QED
  BY <1>3, <1>4, BeginKeeps

LEMMA OrphansBegin ==
  ASSUME Proposals!SubmissionsAssumption, ProposalsInv, Proposals!selectOrphans
  PROVE  ProposalsInv'
<1> DEFINE b == [Proposals!Idle EXCEPT !.at = "orphans", !.subs = {s \in Submissions : Proposals!Orphaned(s)}]
<1>1. b \in Request /\ b.at = "orphans" /\ b.photos = {}
  BY DEF Proposals!Idle, Request, Proposals!Statuses
<1>2. /\ Proposals!Begin("orphans", b)
      /\ UNCHANGED <<sub, photos, attachments, published, files, used, review, lost, crashes>>
  BY DEF Proposals!selectOrphans
<1> HIDE DEF b
<1>3. QED
  BY <1>1, <1>2, ActorsAre, CleanupBegins

LEMMA RejectedBegin ==
  ASSUME Proposals!SubmissionsAssumption, ProposalsInv, NEW r \in Requests \cup {"rejected"}, Proposals!selectRejected(r)
  PROVE  ProposalsInv'
<1> DEFINE b == [Proposals!Idle EXCEPT !.at = "rejected", !.subs = {s \in Submissions : Proposals!RejectedWithPhotos(s)}]
<1>1. b \in Request /\ b.at = "rejected" /\ b.photos = {}
  BY DEF Proposals!Idle, Request, Proposals!Statuses
<1>2. /\ Proposals!Begin(r, b)
      /\ UNCHANGED <<sub, photos, attachments, published, files, used, review, lost, crashes>>
  BY DEF Proposals!selectRejected
<1> HIDE DEF b
<1>3. QED
  BY <1>1, <1>2, ActorsAre, CleanupBegins

-----------------------------------------------------------------------------
(* Requests that end, and leave files to be unlinked or nothing.           *)

LEMMA UnlinkIs ==
  ASSUME Proposals!SubmissionsAssumption, ProposalsInv, NEW r \in Proposals!Actors, NEW ps \in SUBSET Photos,
         Proposals!Unlink(r, ps)
  PROVE  \E b \in Request :
           /\ req' = [req EXCEPT ![r] = b] /\ req'[r] = b
           /\ b.photos = ps /\ b.at = IF ps = {} THEN "idle" ELSE "unlink"
           /\ req' \in [Proposals!Actors -> Request]
           /\ \A q \in Proposals!Actors \ {r} : req'[q] = req[q] /\ Proposals!The(q)' = Proposals!The(q)
<1> DEFINE b == IF ps = {} THEN Proposals!Idle ELSE [Proposals!Idle EXCEPT !.at = "unlink", !.photos = ps]
<1>1. b \in Request /\ b.photos = ps /\ b.at = IF ps = {} THEN "idle" ELSE "unlink"
  BY IdleIs
<1>2. req' = [req EXCEPT ![r] = b]
  BY DEF Proposals!Unlink, Proposals!End, Proposals!Go
<1> HIDE DEF b
<1>3. QED
  BY <1>1, <1>2, OneChanges DEF ProposalsInv

LEMMA UnlinkFits ==
  ASSUME NEW r, req'[r].at \in {"idle", "unlink"}, req'[r].photos \subseteq used', req'[r].photos \cap attachments' = {}
  PROVE  Fitting(r)'
BY DEF Fitting, KnowsIts, ForOne, UnlinksUnnamed, UploadsNew, RemovesItsOwn, MayDelete, ShownTruly

\* Nobody begins to edit.
LEMMA NoEditBegins ==
  ASSUME Proposals!SubmissionsAssumption, ProposalsInv, Shapes', NEW r \in Proposals!Actors, req'[r].at # "edit",
         \A q \in Proposals!Actors \ {r} : req'[q] = req[q],
         \A s \in Submissions : sub'[s].draft <= sub[s].draft
  PROVE  EditsBounded'
<1>1. \A q \in Requests : req'[q].at = "edit" => req'[q] = req[q]
  BY ActorsAre
<1>2. QED
  BY <1>1, EditsRest

\* A request ends that has left the tables alone.
LEMMA EndAlone ==
  ASSUME Proposals!SubmissionsAssumption, ProposalsInv, NEW r \in Proposals!Actors, NEW ps \in SUBSET Photos,
         Proposals!Unlink(r, ps),
         UNCHANGED <<sub, photos, attachments, published, files, used, review>>,
         lost \subseteq lost', lost' \subseteq used,
         crashes' \in 0 .. MaxCrashes, requests' \in 0 .. MaxRequests,
         req[r].at \in {"upload", "unlink"} => req[r].photos \subseteq lost' \/ ps = req[r].photos,
         ps = {} \/ (ps = req[r].photos /\ req[r].at = "upload")
  PROVE  ProposalsInv'
<1>1. PICK b \in Request :
        /\ req' = [req EXCEPT ![r] = b] /\ req'[r] = b
        /\ b.photos = ps /\ b.at = IF ps = {} THEN "idle" ELSE "unlink"
        /\ req' \in [Proposals!Actors -> Request]
        /\ \A q \in Proposals!Actors \ {r} : req'[q] = req[q] /\ Proposals!The(q)' = Proposals!The(q)
  BY UnlinkIs
<1>2. Fitting(r) /\ ps \subseteq used
  BY DEF ProposalsInv, Fitting
<1>3. Fitting(r)'
  <2>1. ps \cap attachments = {}
    BY <1>2 DEF Fitting, UploadsNew
  <2>2. QED
    BY <1>1, <1>2, <2>1, UnlinkFits
<1>4. Shapes'
  BY <1>1 DEF ProposalsInv, Shapes
<1>5. EditsBounded'
  <2>1. \A s \in Submissions : sub'[s].draft <= sub[s].draft
    BY DEF ProposalsInv, Shapes, Row
  <2>2. QED
    BY <1>1, <1>4, <2>1, NoEditBegins
<1>6. \A q \in Proposals!Actors \ {r} : req[q].at = "upload" => b.photos \cap req[q].photos = {}
  BY <1>1 DEF ProposalsInv, Fitting, UploadsNew
<1>7. QED
  BY <1>1, <1>2, <1>3, <1>5, <1>6, RequestAlone

LEMMA RefuseKeeps ==
  ASSUME Proposals!SubmissionsAssumption, ProposalsInv, NEW r \in Proposals!Actors, Proposals!Refuse(r)
  PROVE  ProposalsInv'
<1>1. Proposals!Unlink(r, {})
  BY DEF Proposals!Refuse, Proposals!Unlink
<1>2. QED
  BY <1>1, EndAlone DEF Proposals!Refuse, ProposalsInv, Shapes

LEMMA FailUploadKeeps ==
  ASSUME Proposals!SubmissionsAssumption, ProposalsInv, NEW r \in Proposals!Actors, Proposals!failUpload(r)
  PROVE  ProposalsInv'
<1>1. req[r].photos \in SUBSET Photos
  BY DEF ProposalsInv, Shapes, Request
<1>2. QED
  BY <1>1, EndAlone DEF Proposals!failUpload, ProposalsInv, Shapes

LEMMA CrashKeeps ==
  ASSUME Proposals!SubmissionsAssumption, ProposalsInv, NEW r \in Proposals!Actors, Proposals!Crash(r)
  PROVE  ProposalsInv'
<1>1. Proposals!Unlink(r, {})
  BY DEF Proposals!Crash, Proposals!Unlink
<1>2. lost \subseteq lost' /\ lost' \subseteq used
  BY DEF Proposals!Crash, ProposalsInv, Shapes, Fitting
<1>3. crashes' \in 0 .. MaxCrashes /\ requests' \in 0 .. MaxRequests
  BY ActorsAre DEF Proposals!Crash, ProposalsInv, Shapes
<1>4. req[r].at \in {"upload", "unlink"} => req[r].photos \subseteq lost'
  BY DEF Proposals!Crash
<1>5. UNCHANGED <<sub, photos, attachments, published, files, used, review>>
  BY DEF Proposals!Crash
<1>6. QED
  BY <1>1, <1>2, <1>3, <1>4, <1>5, EndAlone

LEMMA ReadForReviewKeeps ==
  ASSUME Proposals!SubmissionsAssumption, ProposalsInv, NEW r \in Proposals!Actors, NEW sends \in BOOLEAN,
         Proposals!readForReview(r, sends)
  PROVE  ProposalsInv'
<1> DEFINE b == [req[r] EXCEPT !.at = "review", !.sends = sends, !.read = sub[Proposals!The(r)].updated]
<1>1. Fitting(r) /\ req[r] \in Request /\ req \in [Proposals!Actors -> Request]
  BY DEF ProposalsInv, Shapes
<1>2. req[r].at = "shown" /\ r \in Requests /\ Proposals!The(r) \in Submissions /\ req[r].subs = {Proposals!The(r)}
  BY <1>1 DEF Proposals!readForReview, Fitting, KnowsIts, ForOne
<1>3. sub[Proposals!The(r)] \in Row
  BY <1>2 DEF ProposalsInv, Shapes
<1>4. /\ b \in Request /\ b.at = "review" /\ b.photos = req[r].photos /\ b.subs = req[r].subs /\ b.seen = req[r].seen
  BY <1>1, <1>3 DEF Request, Row
<1>5. req' = [req EXCEPT ![r] = b]
  BY <1>1 DEF Proposals!readForReview
<1>6. /\ UNCHANGED <<sub, photos, attachments, published, files, used, review, lost, crashes, requests>>
  BY DEF Proposals!readForReview
<1> HIDE DEF b
<1>7. /\ req'[r] = b /\ req' \in [Proposals!Actors -> Request]
      /\ \A q \in Proposals!Actors \ {r} : req'[q] = req[q]
  BY <1>4, <1>5, OneChanges DEF ProposalsInv
<1>8. Proposals!The(r)' = Proposals!The(r)
  BY <1>4, <1>7 DEF Proposals!The
<1>9. Fitting(r)'
  <2>1. ShownTruly(r)'
    BY <1>1, <1>2, <1>4, <1>6, <1>7, <1>8 DEF Fitting, ShownTruly
  <2>2. KnowsIts(r)'
    BY <1>1, <1>2, <1>4, <1>6, <1>7, <1>8 DEF Fitting, KnowsIts, ForOne
  <2>3. QED
    BY <1>1, <1>4, <1>6, <1>7, <2>1, <2>2 DEF Fitting, UnlinksUnnamed, UploadsNew, RemovesItsOwn, MayDelete
<1>10. Shapes'
  BY <1>6, <1>7 DEF ProposalsInv, Shapes
<1>11. EditsBounded'
  <2>1. \A s \in Submissions : sub'[s].draft <= sub[s].draft
    BY <1>6 DEF ProposalsInv, Shapes, Row
  <2>2. QED
    BY <1>4, <1>7, <1>10, <2>1, NoEditBegins
<1>12. \A q \in Proposals!Actors \ {r} : req[q].at = "upload" => b.photos \cap req[q].photos = {}
  BY <1>4 DEF ProposalsInv, Fitting, UploadsNew
<1>13. b.photos \subseteq used
  BY <1>1, <1>4 DEF Fitting
<1>14. lost \subseteq lost' /\ lost' \subseteq used /\ crashes' \in 0 .. MaxCrashes /\ requests' \in 0 .. MaxRequests
  BY <1>6 DEF ProposalsInv, Shapes
<1>15. QED
  BY <1>2, <1>4, <1>5, <1>6, <1>9, <1>11, <1>12, <1>13, <1>14, RequestAlone

-----------------------------------------------------------------------------
(* Requests that commit.                                                   *)

\* A row that is decided or removed is not pending again, and a change of a
\* pending one counts.
RowsGoOn ==
  \A s \in Submissions :
    /\ sub[s].status # "absent" => sub'[s].status # "absent"
    /\ sub[s].status # "absent" /\ sub'[s].status = "pending" =>
         /\ sub[s].status = "pending"
         /\ sub[s].updated < sub'[s].updated \/ (sub'[s].updated = sub[s].updated /\ sub'[s].draft = sub[s].draft)

\* What a commit adds are the photos of its own upload ("more"), and what it
\* takes away it unlinks.
LEMMA CommitKeeps ==
  ASSUME Proposals!SubmissionsAssumption, ProposalsInv, NEW r \in Proposals!Actors, NEW ps \in SUBSET Photos,
         Proposals!Unlink(r, ps),
         UNCHANGED <<files, used, lost, crashes, requests>>,
         sub' \in [Submissions -> Row], photos' \in [Submissions -> SUBSET Photos],
         review' \in [Submissions -> ReviewNote],
         Proposals!AppliedAsShown', TablesAgree', LimitKept', RowsGoOn,
         (\A s \in Submissions : sub'[s].draft <= sub[s].draft) \/ EditsBounded',
         NEW more, more = {} \/ (req[r].at = "upload" /\ more = req[r].photos),
         attachments' \subseteq attachments \cup more,
         \A s \in Submissions : photos'[s] \subseteq photos[s] \cup more,
         published' \subseteq published \cup UNION {photos[s] : s \in {s \in Submissions : sub'[s].status # "pending"}},
         attachments \subseteq attachments' \cup ps,
         req[r].at = "upload" => req[r].photos \subseteq attachments',
         req[r].at # "unlink",
         \A p \in ps : p \in attachments \cup req[r].photos \/ \E s \in Submissions : p \in photos[s],
         ps \cap attachments' = {}
  PROVE  ProposalsInv'
<1>1. PICK b \in Request :
        /\ req' = [req EXCEPT ![r] = b] /\ req'[r] = b
        /\ b.photos = ps /\ b.at = IF ps = {} THEN "idle" ELSE "unlink"
        /\ req' \in [Proposals!Actors -> Request]
        /\ \A q \in Proposals!Actors \ {r} : req'[q] = req[q] /\ Proposals!The(q)' = Proposals!The(q)
  BY UnlinkIs
<1>2. Shapes'
  BY <1>1 DEF ProposalsInv, Shapes
<1>3. EditsBounded'
  BY <1>1, <1>2, NoEditBegins
<1>4. FilesNamed'
  <2> SUFFICES ASSUME NEW f \in files', f \notin attachments', f \notin lost'
               PROVE  \E q \in Proposals!Actors : req'[q].at \in {"upload", "unlink"} /\ f \in req'[q].photos
    BY DEF FilesNamed
  <2>1. CASE f \in attachments
    BY <1>1, <2>1
  <2>2. CASE f \notin attachments
    <3>1. PICK q \in Proposals!Actors : req[q].at \in {"upload", "unlink"} /\ f \in req[q].photos
      BY <2>2 DEF ProposalsInv, FilesNamed
    <3>2. q # r
      BY <3>1
    <3>3. QED
      BY <1>1, <3>1, <3>2
  <2>3. QED
    BY <2>1, <2>2
<1>5. ps \subseteq used
  <2>1. attachments \subseteq used /\ \A s \in Submissions : photos[s] \subseteq used
    BY DEF ProposalsInv, TablesAgree
  <2>2. req[r].photos \subseteq used
    BY DEF ProposalsInv, Fitting
  <2>3. QED
    BY <2>1, <2>2
<1>6. Fitting(r)'
  BY <1>1, <1>5, UnlinkFits
<1>7. ASSUME NEW q \in Proposals!Actors, q # r
      PROVE  Fitting(q)'
  <2>1. req'[q] = req[q] /\ Proposals!The(q)' = Proposals!The(q)
    BY <1>1, <1>7
  <2>2. more \cap req[q].photos = {}
    BY <1>7 DEF ProposalsInv, Fitting, UploadsNew
  <2>3. req[q].at = "upload" => req[q].photos \subseteq files'
    BY DEF ProposalsInv, Fitting, UploadsNew
  <2>4. ASSUME req[q].at = "upload", NEW p \in Proposals!Actors, p # q
        PROVE  req'[p].photos \cap req[q].photos = {}
    <3>1. UploadsNew(q)
      BY DEF ProposalsInv, Fitting
    <3>2. CASE p = r
      <4>1. /\ req[q].photos \cap attachments = {} /\ req[q].photos \cap req[r].photos = {}
            /\ \A s \in Submissions : req[q].photos \cap photos[s] = {}
        BY <1>7, <2>4, <3>1 DEF UploadsNew
      <4>2. ps \cap req[q].photos = {}
        BY <4>1
      <4>3. QED
        BY <1>1, <3>2, <4>2
    <3>3. CASE p # r
      BY <1>1, <2>4, <3>1, <3>3 DEF UploadsNew
    <3>4. QED
      BY <3>2, <3>3
  <2>5. \A s \in Submissions :
           /\ sub[s].status # "absent" => sub'[s].status # "absent"
           /\ sub[s].status # "absent" /\ sub'[s].status = "pending" =>
                /\ sub[s].status = "pending"
                /\ sub'[s].updated \in Nat
                /\ sub[s].updated < sub'[s].updated \/ (sub'[s].updated = sub[s].updated /\ sub'[s].draft = sub[s].draft)
    BY DEF RowsGoOn, Row
  <2>6. QED
    BY <2>1, <2>2, <2>3, <2>4, <2>5, RestFits
<1>8. QED
  BY <1>2, <1>3, <1>4, <1>6, <1>7 DEF ProposalsInv

\* A commit that adds nothing.
LEMMA TakeKeeps ==
  ASSUME Proposals!SubmissionsAssumption, ProposalsInv, NEW r \in Proposals!Actors, NEW ps \in SUBSET Photos,
         Proposals!Unlink(r, ps),
         UNCHANGED <<files, used, lost, crashes, requests>>,
         sub' \in [Submissions -> Row], photos' \in [Submissions -> SUBSET Photos],
         review' \in [Submissions -> ReviewNote],
         Proposals!AppliedAsShown', TablesAgree', LimitKept', RowsGoOn,
         (\A s \in Submissions : sub'[s].draft <= sub[s].draft) \/ EditsBounded',
         attachments' \subseteq attachments,
         \A s \in Submissions : photos'[s] \subseteq photos[s],
         published' \subseteq published \cup UNION {photos[s] : s \in {s \in Submissions : sub'[s].status # "pending"}},
         attachments \subseteq attachments' \cup ps,
         req[r].at \notin {"upload", "unlink"},
         \A p \in ps : p \in attachments \cup req[r].photos \/ \E s \in Submissions : p \in photos[s],
         ps \cap attachments' = {}
  PROVE  ProposalsInv'
<1>1. PICK more : more = {}
  OBVIOUS
<1>2. /\ more = {} \/ (req[r].at = "upload" /\ more = req[r].photos)
      /\ attachments' \subseteq attachments \cup more
      /\ \A s \in Submissions : photos'[s] \subseteq photos[s] \cup more
      /\ req[r].at = "upload" => req[r].photos \subseteq attachments'
      /\ req[r].at # "unlink"
  BY <1>1
<1>3. QED
  BY <1>2, CommitKeeps

\* The submission of a request, and what the tables say of it.
LEMMA ItsOwn ==
  ASSUME ProposalsInv, NEW r \in Proposals!Actors, req[r].at \in ForOne
  PROVE  /\ r \in Requests /\ Proposals!The(r) \in Submissions
         /\ sub[Proposals!The(r)] \in Row /\ sub[Proposals!The(r)].status # "absent"
         /\ req[r] \in Request /\ req[r].photos \subseteq used /\ used \subseteq Photos
<1>1. Fitting(r)
  BY DEF ProposalsInv
<1>2. QED
  BY <1>1 DEF ProposalsInv, Shapes, Fitting, KnowsIts

\* The rows that changes leave.
LEMMA ReviewChanges ==
  ASSUME NEW x \in Row, NEW status \in Proposals!Statuses
  PROVE  LET y == [x EXCEPT !.status = status, !.updated = @ + 1]
         IN  y \in Row /\ y.status = status /\ y.draft = x.draft
<1>1. x.updated + 1 \in Nat
  BY DEF Row
<1>2. QED
  BY <1>1 DEF Row

LEMMA EditChanges ==
  ASSUME NEW x \in Row, NEW d \in Nat, NEW c \in BOOLEAN
  PROVE  LET y == [x EXCEPT !.updated = @ + 1, !.draft = d, !.content = c]
         IN  y \in Row /\ y.status = x.status /\ y.updated = x.updated + 1 /\ y.draft = d
<1>1. x.updated + 1 \in Nat
  BY DEF Row
<1>2. QED
  BY <1>1 DEF Row

\* What stays as it is.
LEMMA RowsRest == ASSUME ProposalsInv, UNCHANGED sub PROVE RowsGoOn /\ sub' \in [Submissions -> Row] /\ \A s \in Submissions : sub'[s].draft <= sub[s].draft
BY DEF ProposalsInv, Shapes, Row, RowsGoOn

LEMMA StoreKeeps ==
  ASSUME Proposals!SubmissionsAssumption, ProposalsInv, NEW r \in Proposals!Actors, Proposals!storePhotos(r)
  PROVE  ProposalsInv'
<1> DEFINE s == Proposals!The(r)
           more == req[r].photos
<1>1. /\ req[r].at = "upload" /\ sub[s].status = "pending"
      /\ Cardinality(photos[s]) + Cardinality(more) <= PhotoLimit
      /\ attachments' = attachments \cup more
      /\ photos' = [photos EXCEPT ![s] = @ \cup more]
      /\ UNCHANGED <<sub, published, files, used, review, lost, crashes, requests>>
  BY SameCardinality DEF Proposals!storePhotos, Proposals!Fits
<1>2. Proposals!Unlink(r, {})
  BY DEF Proposals!storePhotos, Proposals!Unlink
<1>3. s \in Submissions /\ more \subseteq used /\ used \subseteq Photos
  BY <1>1, ItsOwn DEF ForOne
<1>4. /\ more \subseteq files /\ more \cap attachments = {} /\ IsFiniteSet(more)
      /\ \A t \in Submissions : more \cap photos[t] = {}
  BY <1>1 DEF ProposalsInv, Fitting, UploadsNew
<1>5. /\ photos \in [Submissions -> SUBSET Photos]
      /\ photos' \in [Submissions -> SUBSET Photos]
      /\ photos'[s] = photos[s] \cup more /\ \A t \in Submissions : t # s => photos'[t] = photos[t]
  <2>1. photos \in [Submissions -> SUBSET Photos]
    BY DEF ProposalsInv, Shapes
  <2>2. QED
    BY <1>1, <1>3, <2>1
<1> HIDE DEF s, more
<1>6. TablesAgree'
  <2>1. published' \subseteq attachments' /\ attachments' \subseteq files' /\ files' \subseteq used'
    BY <1>1, <1>4 DEF ProposalsInv, TablesAgree
  <2>2. attachments' \subseteq published' \cup UNION {photos'[t] : t \in Submissions}
    BY <1>1, <1>3, <1>5 DEF ProposalsInv, TablesAgree
  <2>3. \A t \in Submissions :
          /\ photos'[t] \subseteq used'
          /\ sub'[t].status \in {"pending", "rejected"} => photos'[t] \subseteq attachments'
          /\ sub'[t].status \in {"absent", "removed"} => photos'[t] = {}
          /\ sub'[t].status # "approved" => photos'[t] \cap published' = {}
    BY <1>1, <1>3, <1>4, <1>5 DEF ProposalsInv, TablesAgree
  <2>4. \A t, u \in Submissions : t # u => photos'[t] \cap photos'[u] = {}
    BY <1>4, <1>5 DEF ProposalsInv, TablesAgree
  <2>5. QED
    BY <2>1, <2>2, <2>3, <2>4 DEF TablesAgree
<1>7. LimitKept'
  <2>1. IsFiniteSet(photos[s])
    BY <1>3 DEF ProposalsInv, LimitKept
  <2>2. /\ IsFiniteSet(photos[s] \cup more)
        /\ Cardinality(photos[s] \cup more) = Cardinality(photos[s]) + Cardinality(more) - Cardinality(photos[s] \cap more)
    BY <1>4, <2>1, FS_Union
  <2>3. Cardinality(photos[s] \cap more) = 0
    <3>1. photos[s] \cap more = {}
      BY <1>3, <1>4
    <3>2. QED
      BY <3>1, FS_EmptySet
  <2>4. Cardinality(photos[s]) \in Nat /\ Cardinality(more) \in Nat
    BY <1>4, <2>1, FS_CardinalityType
  <2>5. IsFiniteSet(photos'[s]) /\ Cardinality(photos'[s]) <= PhotoLimit
    BY <1>1, <1>5, <2>2, <2>3, <2>4, ActorsAre
  <2>6. QED
    BY <1>5, <2>5 DEF ProposalsInv, LimitKept
<1>8. Proposals!AppliedAsShown' /\ review' = review
  BY <1>1 DEF ProposalsInv, Proposals!AppliedAsShown
<1>9. RowsGoOn /\ sub' \in [Submissions -> Row] /\ \A t \in Submissions : sub'[t].draft <= sub[t].draft
  BY <1>1, RowsRest
<1>10. /\ attachments' \subseteq attachments \cup more /\ attachments \subseteq attachments' \cup {}
       /\ \A t \in Submissions : photos'[t] \subseteq photos[t] \cup more
       /\ published' = published /\ req[r].photos \subseteq attachments'
  BY <1>1, <1>5 DEF more
<1>11. review' \in [Submissions -> ReviewNote]
  BY <1>8 DEF ProposalsInv, Shapes
<1>12. more = req[r].photos
  BY DEF more
<1>13. /\ {} \in SUBSET Photos /\ {} \cap attachments' = {}
       /\ \A p \in {} : p \in attachments \cup req[r].photos \/ \E t \in Submissions : p \in photos[t]
       /\ published' \subseteq published \cup UNION {photos[t] : t \in {t \in Submissions : sub'[t].status # "pending"}}
  BY <1>10
<1>14. more = {} \/ (req[r].at = "upload" /\ more = req[r].photos)
  BY <1>1, <1>12
<1>15. /\ req[r].at # "unlink" /\ UNCHANGED <<files, used, lost, crashes, requests>>
       /\ req[r].at = "upload" => req[r].photos \subseteq attachments'
  BY <1>1, <1>10
<1>16. QED
  BY <1>2, <1>5, <1>6, <1>7, <1>8, <1>9, <1>10, <1>11, <1>13, <1>14, <1>15, CommitKeeps

LEMMA RemoveKeeps ==
  ASSUME Proposals!SubmissionsAssumption, ProposalsInv, NEW r \in Proposals!Actors, Proposals!removeSubmissionPhoto(r)
  PROVE  ProposalsInv'
<1> DEFINE s == Proposals!The(r)
           ps == req[r].photos
<1>1. /\ req[r].at = "remove" /\ sub[s].status = "pending"
      /\ photos' = [photos EXCEPT ![s] = @ \ ps]
      /\ attachments' = attachments \ ps /\ published' = published \ ps
      /\ Proposals!Unlink(r, ps)
      /\ UNCHANGED <<sub, files, used, review, lost, crashes, requests>>
  BY DEF Proposals!removeSubmissionPhoto, Proposals!IsPending
<1>2. s \in Submissions /\ ps \subseteq Photos
  BY <1>1, ItsOwn DEF ForOne
<1>3. \A t \in Submissions : t # s => ps \cap photos[t] = {}
  BY <1>1 DEF ProposalsInv, Fitting, RemovesItsOwn
<1>4. /\ photos \in [Submissions -> SUBSET Photos]
      /\ photos' \in [Submissions -> SUBSET Photos]
      /\ photos'[s] = photos[s] \ ps /\ \A t \in Submissions : t # s => photos'[t] = photos[t]
  <2>1. photos \in [Submissions -> SUBSET Photos]
    BY DEF ProposalsInv, Shapes
  <2>2. QED
    BY <1>1, <1>2, <2>1
<1>5. ps = req[r].photos
  OBVIOUS
<1> HIDE DEF s, ps
<1>6. TablesAgree'
  <2>1. published' \subseteq attachments' /\ attachments' \subseteq files' /\ files' \subseteq used'
    BY <1>1 DEF ProposalsInv, TablesAgree
  <2>2. attachments' \subseteq published' \cup UNION {photos'[t] : t \in Submissions}
    <3> SUFFICES ASSUME NEW a \in attachments', a \notin published'
                 PROVE  \E t \in Submissions : a \in photos'[t]
      OBVIOUS
    <3>1. a \in attachments /\ a \notin ps /\ a \notin published
      BY <1>1
    <3>2. PICK t \in Submissions : a \in photos[t]
      BY <3>1 DEF ProposalsInv, TablesAgree
    <3>3. QED
      BY <1>4, <3>1, <3>2
  <2>3. \A t \in Submissions :
          /\ photos'[t] \subseteq used'
          /\ sub'[t].status \in {"pending", "rejected"} => photos'[t] \subseteq attachments'
          /\ sub'[t].status \in {"absent", "removed"} => photos'[t] = {}
          /\ sub'[t].status # "approved" => photos'[t] \cap published' = {}
    BY <1>1, <1>2, <1>3, <1>4 DEF ProposalsInv, TablesAgree
  <2>4. \A t, u \in Submissions : t # u => photos'[t] \cap photos'[u] = {}
    BY <1>4 DEF ProposalsInv, TablesAgree
  <2>5. QED
    BY <2>1, <2>2, <2>3, <2>4 DEF TablesAgree
<1>7. LimitKept'
  <2>1. IsFiniteSet(photos[s]) /\ Cardinality(photos[s]) <= PhotoLimit
    BY <1>2 DEF ProposalsInv, LimitKept
  <2>2. photos'[s] \in SUBSET photos[s]
    BY <1>4
  <2>3. IsFiniteSet(photos'[s]) /\ Cardinality(photos'[s]) <= Cardinality(photos[s])
    BY <2>1, <2>2, FS_Subset
  <2>4. Cardinality(photos'[s]) \in Nat /\ Cardinality(photos[s]) \in Nat
    BY <2>1, <2>3, FS_CardinalityType
  <2>5. Cardinality(photos'[s]) <= PhotoLimit
    BY <2>1, <2>3, <2>4, ActorsAre
  <2>6. QED
    BY <1>4, <2>3, <2>5 DEF ProposalsInv, LimitKept
<1>8. Proposals!AppliedAsShown' /\ review' = review
  BY <1>1 DEF ProposalsInv, Proposals!AppliedAsShown
<1>9. RowsGoOn /\ sub' \in [Submissions -> Row] /\ \A t \in Submissions : sub'[t].draft <= sub[t].draft
  BY <1>1, RowsRest
<1>10. /\ attachments' \subseteq attachments /\ attachments \subseteq attachments' \cup ps
       /\ \A t \in Submissions : photos'[t] \subseteq photos[t]
       /\ published' \subseteq published /\ ps \cap attachments' = {}
  BY <1>1, <1>4
<1>11. review' \in [Submissions -> ReviewNote]
  BY <1>8 DEF ProposalsInv, Shapes
<1>12. /\ \A p \in ps : p \in attachments \cup req[r].photos \/ \E t \in Submissions : p \in photos[t]
       /\ published' \subseteq published \cup UNION {photos[t] : t \in {t \in Submissions : sub'[t].status # "pending"}}
  BY <1>5, <1>10
<1>13. ps \in SUBSET Photos /\ req[r].at \notin {"upload", "unlink"}
  BY <1>1, <1>2
<1>14. Proposals!Unlink(r, ps) /\ UNCHANGED <<files, used, lost, crashes, requests>>
  BY <1>1
<1>15. QED
  BY <1>4, <1>6, <1>7, <1>8, <1>9, <1>10, <1>11, <1>12, <1>13, <1>14, TakeKeeps

LEMMA UpdateKeeps ==
  ASSUME Proposals!SubmissionsAssumption, ProposalsInv, NEW r \in Proposals!Actors, NEW content \in BOOLEAN,
         Proposals!updateSubmission(r, content)
  PROVE  ProposalsInv'
<1> DEFINE s == Proposals!The(r)
           counts == req[r].status = "pending"
<1>1. /\ req[r].at = "edit" /\ Proposals!Unlink(r, {})
      /\ UNCHANGED <<photos, attachments, published, files, used, review, lost, crashes, requests>>
      /\ sub' = [sub EXCEPT ![s].updated = @ + 1,
                            ![s].draft = IF counts THEN @ + 1 ELSE @,
                            ![s].content = IF counts THEN content ELSE @]
  BY DEF Proposals!updateSubmission, Proposals!Unlink
<1>2. s \in Submissions /\ sub[s] \in Row /\ r \in Requests /\ req[r].subs = {s} /\ sub[s].status # "absent"
  <2>1. Fitting(r)
    BY DEF ProposalsInv
  <2>2. QED
    BY <1>1, <2>1, ItsOwn DEF ForOne, Fitting, KnowsIts
<1>3. /\ sub' \in [Submissions -> Row]
      /\ \A t \in Submissions : t # s => sub'[t] = sub[t]
      /\ sub'[s].status = sub[s].status /\ sub'[s].updated = sub[s].updated + 1
      /\ sub'[s].draft \in {sub[s].draft, sub[s].draft + 1}
  <2>1. sub \in [Submissions -> Row]
    BY DEF ProposalsInv, Shapes
  <2>2. sub' = [sub EXCEPT ![s] = [sub[s] EXCEPT !.updated = @ + 1, !.draft = IF counts THEN @ + 1 ELSE @,
                                                  !.content = IF counts THEN content ELSE @]]
    BY <1>1, <1>2, <2>1
  <2> DEFINE row == [sub[s] EXCEPT !.updated = @ + 1, !.draft = IF counts THEN @ + 1 ELSE @,
                                   !.content = IF counts THEN content ELSE @]
  <2>3. /\ row \in Row /\ row.status = sub[s].status /\ row.updated = sub[s].updated + 1
        /\ row.draft \in {sub[s].draft, sub[s].draft + 1}
    <3> DEFINE d == IF counts THEN sub[s].draft + 1 ELSE sub[s].draft
               c == IF counts THEN content ELSE sub[s].content
    <3>0. sub[s] \in Row
      BY <1>2
    <3>1. d \in Nat /\ c \in BOOLEAN /\ d \in {sub[s].draft, sub[s].draft + 1}
      BY <1>2 DEF Row
    <3>2. row = [sub[s] EXCEPT !.updated = @ + 1, !.draft = d, !.content = c]
      OBVIOUS
    <3> HIDE DEF d, c
    <3>3. LET y == [sub[s] EXCEPT !.updated = @ + 1, !.draft = d, !.content = c]
          IN  y \in Row /\ y.status = sub[s].status /\ y.updated = sub[s].updated + 1 /\ y.draft = d
      BY <3>0, <3>1, EditChanges
    <3> HIDE DEF row
    <3>4. QED
      BY <3>1, <3>2, <3>3
  <2> HIDE DEF row
  <2>4. sub' = [sub EXCEPT ![s] = row]
    BY <2>2 DEF row
  <2>5. QED
    BY <1>2, <2>1, <2>3, <2>4
<1> HIDE DEF s, counts
<1>4. RowsGoOn
  <2>1. sub[s].updated \in Nat
    BY <1>2 DEF Row
  <2>2. QED
    BY <1>2, <1>3, <2>1 DEF RowsGoOn
<1>5. TablesAgree' /\ LimitKept' /\ Proposals!AppliedAsShown'
  <2>1. \A t \in Submissions : sub'[t].status = sub[t].status
    BY <1>3
  <2>2. TablesAgree'
    BY <1>1, <2>1 DEF ProposalsInv, TablesAgree
  <2>3. QED
    BY <1>1, <2>2 DEF ProposalsInv, LimitKept, Proposals!AppliedAsShown
<1>6. EditsBounded'
  <2>1. PICK b \in Request :
          /\ req'[r] = b /\ b.at = "idle"
          /\ \A q \in Proposals!Actors \ {r} : req'[q] = req[q] /\ Proposals!The(q)' = Proposals!The(q)
    BY <1>1, UnlinkIs
  <2> SUFFICES ASSUME NEW t \in Submissions
               PROVE  sub'[t].draft + Cardinality(Editing(t)') <= MaxEdits + Cardinality(Requests)
    BY DEF EditsBounded
  <2>2. sub[t].draft + Cardinality(Editing(t)) <= MaxEdits + Cardinality(Requests)
    BY DEF ProposalsInv, EditsBounded
  <2>3. Editing(t)' \subseteq Editing(t) \ {r}
    BY <2>1, ActorsAre DEF Editing
  <2>4. IsFiniteSet(Editing(t)) /\ Cardinality(Editing(t)) \in Nat
    <3>1. Editing(t) \subseteq Requests
      BY DEF Editing
    <3>2. QED
      BY <3>1, ActorsAre, FS_Subset, FS_CardinalityType
  <2>5. /\ IsFiniteSet(Editing(t) \ {r}) /\ Cardinality(Editing(t) \ {r}) \in Nat
        /\ Cardinality(Editing(t) \ {r}) = IF r \in Editing(t) THEN Cardinality(Editing(t)) - 1 ELSE Cardinality(Editing(t))
    BY <2>4, FS_RemoveElement, FS_CardinalityType
  <2>6. Cardinality(Editing(t)') <= Cardinality(Editing(t) \ {r}) /\ Cardinality(Editing(t)') \in Nat
    BY <2>3, <2>5, FS_Subset, FS_CardinalityType
  <2>7. sub[t].draft \in Nat /\ sub'[t].draft \in Nat
    BY <1>3 DEF ProposalsInv, Shapes, Row
  <2>8. CASE t = s
    <3>1. r \in Editing(s)
      BY <1>1, <1>2 DEF Editing
    <3>2. sub'[t].draft <= sub[t].draft + 1
      BY <1>3, <2>7, <2>8
    <3>3. Cardinality(Editing(t) \ {r}) = Cardinality(Editing(t)) - 1
      BY <2>5, <2>8, <3>1
    <3>4. QED
      BY <2>2, <2>4, <2>5, <2>6, <2>7, <3>2, <3>3, ActorsAre
  <2>9. CASE t # s
    <3>1. sub'[t].draft = sub[t].draft
      BY <1>3, <2>9
    <3>2. Cardinality(Editing(t) \ {r}) <= Cardinality(Editing(t))
      BY <2>4, <2>5
    <3>3. QED
      BY <2>2, <2>4, <2>5, <2>6, <2>7, <3>1, <3>2, ActorsAre
  <2>10. QED
    BY <2>8, <2>9
<1>7. /\ photos' \in [Submissions -> SUBSET Photos]
      /\ review' \in [Submissions -> ReviewNote]
  BY <1>1 DEF ProposalsInv, Shapes
<1>8. /\ attachments' \subseteq attachments /\ attachments \subseteq attachments' \cup {} /\ {} \cap attachments' = {}
      /\ \A t \in Submissions : photos'[t] \subseteq photos[t]
      /\ published' \subseteq published \cup UNION {photos[t] : t \in {t \in Submissions : sub'[t].status # "pending"}}
      /\ req[r].at \notin {"upload", "unlink"}
      /\ {} \in SUBSET Photos
      /\ UNCHANGED <<files, used, lost, crashes, requests>>
      /\ \A p \in {} : p \in attachments \cup req[r].photos \/ \E t \in Submissions : p \in photos[t]
  BY <1>1
<1>9. QED
  BY <1>1, <1>3, <1>4, <1>5, <1>6, <1>7, <1>8, TakeKeeps

\* A review applies what was shown, when it was told the version.
LEMMA ReviewIsTrue ==
  ASSUME ProposalsInv, NEW r \in Proposals!Actors, req[r].at = "review", Proposals!lockPendingSubmission(r),
         Proposals!Reviewed(r, Proposals!The(r))
  PROVE  /\ Proposals!AppliedAsShown'
         /\ review' \in [Submissions -> ReviewNote]
<1> DEFINE s == Proposals!The(r)
           entry == [by |-> IF req[r].sends THEN "version" ELSE "anyone", seen |-> req[r].seen, draft |-> sub[s].draft]
<1>1. s \in Submissions /\ sub[s] \in Row /\ req[r] \in Request
  BY ItsOwn DEF ForOne
<1>2. entry \in ReviewNote
  <2>1. sub[s].draft \in Nat /\ req[r].seen \in [updated : Nat, draft : Nat]
    BY <1>1 DEF Row, Request
  <2>2. (IF req[r].sends THEN "version" ELSE "anyone") \in {"nobody", "version", "anyone"}
    OBVIOUS
  <2>3. QED
    BY <2>1, <2>2 DEF ReviewNote
<1>3. entry.by = "version" => entry.draft = entry.seen.draft
  <2>1. ShownTruly(r)
    BY DEF ProposalsInv, Fitting
  <2>2. sub[s].status = "pending" /\ (req[r].sends => sub[s].updated = req[r].seen.updated)
    BY DEF Proposals!lockPendingSubmission
  <2>3. req[r].sends => req[r].seen.draft = sub[s].draft
    BY <2>1, <2>2 DEF ShownTruly
  <2>4. QED
    BY <2>3
<1>4. review' = [review EXCEPT ![s] = entry]
  BY DEF Proposals!Reviewed
<1> HIDE DEF entry
<1>5. review \in [Submissions -> ReviewNote]
  BY DEF ProposalsInv, Shapes
<1>6. review'[s] = entry /\ \A t \in Submissions : t # s => review'[t] = review[t]
  BY <1>1, <1>4, <1>5
<1>7. QED
  BY <1>1, <1>2, <1>3, <1>4, <1>5, <1>6 DEF ProposalsInv, Proposals!AppliedAsShown

\* The row of a submission that is reviewed.
LEMMA ReviewedRow ==
  ASSUME ProposalsInv, NEW s \in Submissions, NEW status \in Proposals!Statuses,
         sub[s].status = "pending", status \notin {"absent", "pending"},
         sub' = [sub EXCEPT ![s].status = status, ![s].updated = @ + 1]
  PROVE  /\ sub' \in [Submissions -> Row] /\ RowsGoOn
         /\ \A t \in Submissions : t # s => sub'[t] = sub[t]
         /\ sub'[s].status = status
         /\ \A t \in Submissions : sub'[t].draft = sub[t].draft /\ sub'[t].draft <= sub[t].draft
<1> DEFINE row == [sub[s] EXCEPT !.status = status, !.updated = @ + 1]
<1>1. sub \in [Submissions -> Row]
  BY DEF ProposalsInv, Shapes
<1>2. sub[s] \in Row
  BY <1>1
<1>3. row \in Row /\ row.status = status /\ row.draft = sub[s].draft
  BY <1>2, ReviewChanges
<1>4. sub' = [sub EXCEPT ![s] = row]
  BY <1>1
<1> HIDE DEF row
<1>5. /\ sub' \in [Submissions -> Row] /\ sub'[s] = row
      /\ \A t \in Submissions : t # s => sub'[t] = sub[t]
  BY <1>1, <1>3, <1>4
<1>6. RowsGoOn
  BY <1>3, <1>5 DEF RowsGoOn
<1>7. \A t \in Submissions : sub'[t].draft = sub[t].draft
  BY <1>3, <1>5
<1>8. \A t \in Submissions : sub[t].draft \in Nat
  BY <1>1 DEF Row
<1>9. QED
  BY <1>3, <1>5, <1>6, <1>7, <1>8

LEMMA RejectKeeps ==
  ASSUME Proposals!SubmissionsAssumption, ProposalsInv, NEW r \in Proposals!Actors, Proposals!rejectSubmissionAction(r)
  PROVE  ProposalsInv'
<1> DEFINE s == Proposals!The(r)
<1>1. /\ req[r].at = "review" /\ sub[s].status = "pending" /\ Proposals!Unlink(r, {})
      /\ sub' = [sub EXCEPT ![s].status = "rejected", ![s].updated = @ + 1]
      /\ UNCHANGED <<photos, attachments, published, files, used, lost, crashes, requests>>
      /\ Proposals!lockPendingSubmission(r) /\ Proposals!Reviewed(r, s)
  BY DEF Proposals!rejectSubmissionAction, Proposals!lockPendingSubmission, Proposals!Unlink
<1>2. s \in Submissions
  BY <1>1, ItsOwn DEF ForOne
<1>3. "rejected" \in Proposals!Statuses
  BY DEF Proposals!Statuses
<1>4. /\ Proposals!AppliedAsShown'
      /\ review' \in [Submissions -> ReviewNote]
  BY <1>1, ReviewIsTrue
<1> HIDE DEF s
<1>5. /\ sub' \in [Submissions -> Row] /\ RowsGoOn
      /\ \A t \in Submissions : t # s => sub'[t] = sub[t]
      /\ sub'[s].status = "rejected"
      /\ \A t \in Submissions : sub'[t].draft <= sub[t].draft
  BY <1>1, <1>2, <1>3, ReviewedRow
<1>6. TablesAgree'
  BY <1>1, <1>2, <1>5 DEF ProposalsInv, TablesAgree
<1>7. LimitKept' /\ photos' \in [Submissions -> SUBSET Photos]
  BY <1>1 DEF ProposalsInv, LimitKept, Shapes
<1>8. /\ attachments' \subseteq attachments /\ attachments \subseteq attachments' \cup {} /\ {} \cap attachments' = {}
      /\ \A t \in Submissions : photos'[t] \subseteq photos[t]
      /\ published' \subseteq published \cup UNION {photos[t] : t \in {t \in Submissions : sub'[t].status # "pending"}}
      /\ req[r].at \notin {"upload", "unlink"}
      /\ {} \in SUBSET Photos
      /\ UNCHANGED <<files, used, lost, crashes, requests>>
      /\ \A p \in {} : p \in attachments \cup req[r].photos \/ \E t \in Submissions : p \in photos[t]
  BY <1>1
<1>9. QED
  BY <1>1, <1>4, <1>5, <1>6, <1>7, <1>8, TakeKeeps

LEMMA ApproveKeeps ==
  ASSUME Proposals!SubmissionsAssumption, ProposalsInv, NEW r \in Proposals!Actors, NEW gone \in SUBSET published,
         Proposals!approveSubmissionAction(r, gone)
  PROVE  ProposalsInv'
<1> DEFINE s == Proposals!The(r)
<1>1. /\ req[r].at = "review" /\ sub[s].status = "pending" /\ Proposals!Unlink(r, gone)
      /\ sub' = [sub EXCEPT ![s].status = "approved", ![s].updated = @ + 1]
      /\ published' = (published \cup photos[s]) \ gone
      /\ attachments' = attachments \ gone
      /\ UNCHANGED <<photos, files, used, lost, crashes, requests>>
      /\ Proposals!lockPendingSubmission(r) /\ Proposals!Reviewed(r, s)
  BY DEF Proposals!approveSubmissionAction, Proposals!lockPendingSubmission
<1>2. s \in Submissions
  BY <1>1, ItsOwn DEF ForOne
<1>3. "approved" \in Proposals!Statuses
  BY DEF Proposals!Statuses
<1>4. /\ Proposals!AppliedAsShown'
      /\ review' \in [Submissions -> ReviewNote]
  BY <1>1, ReviewIsTrue
<1> HIDE DEF s
<1>5. /\ sub' \in [Submissions -> Row] /\ RowsGoOn
      /\ \A t \in Submissions : t # s => sub'[t] = sub[t]
      /\ sub'[s].status = "approved"
      /\ \A t \in Submissions : sub'[t].draft <= sub[t].draft
  BY <1>1, <1>2, <1>3, ReviewedRow
<1>6. TablesAgree'
  <2>1. published' \subseteq attachments' /\ attachments' \subseteq files' /\ files' \subseteq used'
    BY <1>1, <1>2 DEF ProposalsInv, TablesAgree
  <2>2. attachments' \subseteq published' \cup UNION {photos'[t] : t \in Submissions}
    BY <1>1 DEF ProposalsInv, TablesAgree
  <2>3. ASSUME NEW t \in Submissions
        PROVE  /\ photos'[t] \subseteq used'
               /\ sub'[t].status \in {"pending", "rejected"} => photos'[t] \subseteq attachments'
               /\ sub'[t].status \in {"absent", "removed"} => photos'[t] = {}
               /\ sub'[t].status # "approved" => photos'[t] \cap published' = {}
    <3>1. CASE t = s
      BY <1>1, <1>5, <3>1 DEF ProposalsInv, TablesAgree
    <3>2. CASE t # s
      <4>1. photos[t] \cap photos[s] = {}
        BY <1>2, <3>2 DEF ProposalsInv, TablesAgree
      <4>2. /\ photos[t] \subseteq used
            /\ sub[t].status \in {"pending", "rejected"} => photos[t] \subseteq attachments
            /\ sub[t].status \in {"absent", "removed"} => photos[t] = {}
            /\ sub[t].status # "approved" => photos[t] \cap published = {}
        BY DEF ProposalsInv, TablesAgree
      <4>3. QED
        BY <1>1, <1>5, <3>2, <4>1, <4>2
    <3>3. QED
      BY <3>1, <3>2
  <2>4. \A t, u \in Submissions : t # u => photos'[t] \cap photos'[u] = {}
    BY <1>1 DEF ProposalsInv, TablesAgree
  <2>5. QED
    BY <2>1, <2>2, <2>3, <2>4 DEF TablesAgree
<1>7. LimitKept' /\ photos' \in [Submissions -> SUBSET Photos]
  BY <1>1 DEF ProposalsInv, LimitKept, Shapes
<1>8. gone \subseteq attachments /\ gone \in SUBSET Photos
  BY DEF ProposalsInv, TablesAgree, Shapes
<1>9. /\ attachments' \subseteq attachments /\ attachments \subseteq attachments' \cup gone /\ gone \cap attachments' = {}
      /\ \A t \in Submissions : photos'[t] \subseteq photos[t]
      /\ published' \subseteq published \cup UNION {photos[t] : t \in {t \in Submissions : sub'[t].status # "pending"}}
      /\ req[r].at \notin {"upload", "unlink"}
      /\ UNCHANGED <<files, used, lost, crashes, requests>>
      /\ \A p \in gone : p \in attachments \cup req[r].photos \/ \E t \in Submissions : p \in photos[t]
  BY <1>1, <1>2, <1>5, <1>8
<1>10. QED
  BY <1>1, <1>4, <1>5, <1>6, <1>7, <1>8, <1>9, TakeKeeps

\* Submissions lose their photos; those that are not published go.
LEMMA EmptyKeeps ==
  ASSUME Proposals!SubmissionsAssumption, ProposalsInv, NEW r \in Proposals!Actors, req[r].at \notin {"upload", "unlink"},
         NEW of \in SUBSET Submissions, NEW ps, ps = (UNION {photos[s] : s \in of}) \ published,
         Proposals!Unlink(r, ps),
         photos' = [s \in Submissions |-> IF s \in of THEN {} ELSE photos[s]],
         attachments' = attachments \ ps,
         sub' \in [Submissions -> Row],
         \A s \in Submissions \ of : sub'[s] = sub[s],
         \A s \in of : /\ sub[s].status # "absent" /\ sub'[s].status \in {"rejected", "removed"}
                       /\ sub'[s].draft <= sub[s].draft,
         UNCHANGED <<published, files, used, review, lost, crashes, requests>>
  PROVE  ProposalsInv'
<1>1. /\ photos' \in [Submissions -> SUBSET Photos]
      /\ \A s \in of : photos'[s] = {}
      /\ \A s \in Submissions \ of : photos'[s] = photos[s]
  BY DEF ProposalsInv, Shapes
<1>0. ps \cap published = {} /\ \A s \in of : photos[s] \subseteq ps \cup published
  OBVIOUS
<1>2. \A s \in Submissions : photos[s] \subseteq used
  BY DEF ProposalsInv, TablesAgree
<1>3. ps \in SUBSET Photos /\ \A p \in ps : \E s \in of : p \in photos[s]
  BY <1>2 DEF ProposalsInv, Shapes
<1>4. \A s \in Submissions \ of : photos[s] \cap ps = {}
  <2> SUFFICES ASSUME NEW s \in Submissions \ of, NEW p \in photos[s], p \in ps
               PROVE  FALSE
    OBVIOUS
  <2>1. PICK t \in of : p \in photos[t]
    BY <1>3
  <2>2. photos[s] \cap photos[t] = {}
    BY <2>1 DEF ProposalsInv, TablesAgree
  <2>3. QED
    BY <2>1, <2>2
<1>5. RowsGoOn /\ \A s \in Submissions : sub'[s].draft <= sub[s].draft
  <2>1. \A s \in Submissions : sub[s].draft \in Nat
    BY DEF ProposalsInv, Shapes, Row
  <2>2. QED
    BY <2>1 DEF RowsGoOn
<1>6. TablesAgree'
  <2>1. published' \subseteq attachments' /\ attachments' \subseteq files' /\ files' \subseteq used'
    <3>1. published \subseteq attachments /\ attachments \subseteq files /\ files \subseteq used
      BY DEF ProposalsInv, TablesAgree
    <3>2. QED
      BY <1>0, <3>1
  <2>2. attachments' \subseteq published' \cup UNION {photos'[t] : t \in Submissions}
    <3> SUFFICES ASSUME NEW a \in attachments', a \notin published'
                 PROVE  \E t \in Submissions : a \in photos'[t]
      OBVIOUS
    <3>1. a \in attachments /\ a \notin ps /\ a \notin published
      OBVIOUS
    <3>2. PICK t \in Submissions : a \in photos[t]
      BY <3>1 DEF ProposalsInv, TablesAgree
    <3>3. t \notin of
      BY <1>0, <3>1, <3>2
    <3>4. QED
      BY <1>1, <3>2, <3>3
  <2>3. ASSUME NEW t \in Submissions
        PROVE  /\ photos'[t] \subseteq used'
               /\ sub'[t].status \in {"pending", "rejected"} => photos'[t] \subseteq attachments'
               /\ sub'[t].status \in {"absent", "removed"} => photos'[t] = {}
               /\ sub'[t].status # "approved" => photos'[t] \cap published' = {}
    <3>1. CASE t \in of
      BY <1>1, <3>1
    <3>2. CASE t \notin of
      <4>1. /\ photos[t] \subseteq used
            /\ sub[t].status \in {"pending", "rejected"} => photos[t] \subseteq attachments
            /\ sub[t].status \in {"absent", "removed"} => photos[t] = {}
            /\ sub[t].status # "approved" => photos[t] \cap published = {}
        BY DEF ProposalsInv, TablesAgree
      <4>2. photos'[t] = photos[t] /\ sub'[t] = sub[t] /\ photos[t] \cap ps = {}
        BY <1>1, <1>4, <3>2
      <4>3. QED
        BY <4>1, <4>2
    <3>3. QED
      BY <3>1, <3>2
  <2>4. \A t, u \in Submissions : t # u => photos'[t] \cap photos'[u] = {}
    <3>1. \A t, u \in Submissions : t # u => photos[t] \cap photos[u] = {}
      BY DEF ProposalsInv, TablesAgree
    <3>2. \A t \in Submissions : photos'[t] \subseteq photos[t]
      BY <1>1
    <3>3. QED
      BY <3>1, <3>2
  <2>5. QED
    BY <2>1, <2>2, <2>3, <2>4 DEF TablesAgree
<1>7. LimitKept'
  <2> SUFFICES ASSUME NEW s \in Submissions
               PROVE  IsFiniteSet(photos'[s]) /\ Cardinality(photos'[s]) <= PhotoLimit
    BY DEF LimitKept
  <2>1. CASE s \in of
    BY <1>1, <2>1, FS_EmptySet, ActorsAre
  <2>2. CASE s \notin of
    BY <1>1, <2>2 DEF ProposalsInv, LimitKept
  <2>3. QED
    BY <2>1, <2>2
<1>8. Proposals!AppliedAsShown' /\ review' \in [Submissions -> ReviewNote]
  BY DEF ProposalsInv, Shapes, Proposals!AppliedAsShown
<1>9. /\ attachments' \subseteq attachments /\ attachments \subseteq attachments' \cup ps /\ ps \cap attachments' = {}
      /\ \A t \in Submissions : photos'[t] \subseteq photos[t]
      /\ published' \subseteq published \cup UNION {photos[t] : t \in {t \in Submissions : sub'[t].status # "pending"}}
      /\ UNCHANGED <<files, used, lost, crashes, requests>>
      /\ \A p \in ps : p \in attachments \cup req[r].photos \/ \E t \in Submissions : p \in photos[t]
  BY <1>1, <1>3
<1>10. QED
  BY <1>1, <1>3, <1>5, <1>6, <1>7, <1>8, <1>9, TakeKeeps

LEMMA RemovedRow == [Proposals!Absent EXCEPT !.status = "removed"] \in Row
BY DEF Proposals!Absent, Row, Proposals!Statuses

LEMMA DeleteKeeps ==
  ASSUME Proposals!SubmissionsAssumption, ProposalsInv, NEW r \in Proposals!Actors, Proposals!removeSubmission(r)
  PROVE  ProposalsInv'
<1> DEFINE s == Proposals!The(r)
           ps == photos[s] \ published
           of == {s}
           row == [Proposals!Absent EXCEPT !.status = "removed"]
<1>1. /\ req[r].at = "delete" /\ Proposals!Exists(s) /\ Proposals!Unlink(r, ps)
      /\ sub' = [t \in Submissions |-> IF t \in of THEN row ELSE sub[t]]
      /\ photos' = [t \in Submissions |-> IF t \in of THEN {} ELSE photos[t]]
      /\ attachments' = attachments \ ps
      /\ UNCHANGED <<published, files, used, review, lost, crashes, requests>>
  BY DEF Proposals!removeSubmission, Proposals!Unreviewed, Proposals!Removed
<1>2. s \in Submissions /\ sub[s] \in Row
  BY <1>1, ItsOwn DEF ForOne
<1>3. row \in Row /\ row.status = "removed" /\ row.draft = 0
  BY RemovedRow DEF Proposals!Absent
<1>4. sub \in [Submissions -> Row] /\ sub[s].draft \in Nat
  BY <1>2 DEF ProposalsInv, Shapes, Row
<1>5. of \in SUBSET Submissions /\ ps = (UNION {photos[t] : t \in of}) \ published
  <2>1. UNION {photos[t] : t \in of} = photos[s]
    OBVIOUS
  <2>2. QED
    BY <1>2, <2>1
<1>6. sub[s].status # "absent"
  BY <1>1 DEF Proposals!Exists
<1>7. of = {s}
  OBVIOUS
<1> HIDE DEF s, ps, of, row
<1>8. /\ sub' \in [Submissions -> Row]
      /\ \A t \in Submissions \ of : sub'[t] = sub[t]
      /\ \A t \in of : sub'[t] = row
  BY <1>1, <1>3, <1>4, <1>5
<1>9. \A t \in of : /\ sub[t].status # "absent" /\ sub'[t].status \in {"rejected", "removed"}
                    /\ sub'[t].draft <= sub[t].draft
  BY <1>3, <1>4, <1>6, <1>7, <1>8
<1>10. QED
  BY <1>1, <1>5, <1>8, <1>9, EmptyKeeps

LEMMA CleanupKeeps ==
  ASSUME Proposals!SubmissionsAssumption, ProposalsInv, NEW r \in Proposals!Actors, Proposals!cleanupOrphanedSubmissions(r)
  PROVE  ProposalsInv'
<1> DEFINE of == {s \in req[r].subs : Proposals!Orphaned(s)}
           row == [Proposals!Absent EXCEPT !.status = "removed"]
<1>1. /\ req[r].at = "orphans" /\ Proposals!Unlink(r, {})
      /\ sub' = [t \in Submissions |-> IF t \in of THEN row ELSE sub[t]]
      /\ photos' = [t \in Submissions |-> IF t \in of THEN {} ELSE photos[t]]
      /\ attachments' = attachments \ {}
      /\ UNCHANGED <<published, files, used, review, lost, crashes, requests>>
  BY DEF Proposals!cleanupOrphanedSubmissions, Proposals!Removed, Proposals!Unlink
<1>2. row \in Row /\ row.status = "removed" /\ row.draft = 0
  BY RemovedRow DEF Proposals!Absent
<1>3. sub \in [Submissions -> Row] /\ \A s \in Submissions : sub[s].draft \in Nat
  BY DEF ProposalsInv, Shapes, Row
<1>4. of \in SUBSET Submissions
  BY DEF ProposalsInv, Shapes, Request
<1>5. \A s \in of : photos[s] = {} /\ sub[s].status = "pending"
  BY DEF Proposals!Orphaned
<1>6. {} = (UNION {photos[t] : t \in of}) \ published
  BY <1>5
<1> HIDE DEF of, row
<1>7. /\ sub' \in [Submissions -> Row]
      /\ \A t \in Submissions \ of : sub'[t] = sub[t]
      /\ \A t \in of : sub'[t] = row
  BY <1>1, <1>2, <1>3, <1>4
<1>8. \A t \in of : /\ sub[t].status # "absent" /\ sub'[t].status \in {"rejected", "removed"}
                    /\ sub'[t].draft <= sub[t].draft
  BY <1>2, <1>3, <1>4, <1>5, <1>7
<1>9. req[r].at \notin {"upload", "unlink"}
  BY <1>1
<1>10. PICK ps : ps = {}
  OBVIOUS
<1>11. ps = (UNION {photos[t] : t \in of}) \ published /\ Proposals!Unlink(r, ps) /\ attachments' = attachments \ ps
  BY <1>1, <1>6, <1>10
<1>12. QED
  BY <1>1, <1>4, <1>7, <1>8, <1>9, <1>11, EmptyKeeps

LEMMA RejectedGoKeeps ==
  ASSUME Proposals!SubmissionsAssumption, ProposalsInv, NEW r \in Proposals!Actors, Proposals!removeRejectedSubmissionPhotos(r)
  PROVE  ProposalsInv'
<1> DEFINE of == {s \in req[r].subs : Proposals!RejectedWithPhotos(s)}
           ps == (UNION {photos[s] : s \in of}) \ published
<1>1. /\ req[r].at = "rejected" /\ Proposals!Unlink(r, ps)
      /\ sub' = [t \in Submissions |-> IF t \in of THEN [sub[t] EXCEPT !.announced = FALSE] ELSE sub[t]]
      /\ photos' = [t \in Submissions |-> IF t \in of THEN {} ELSE photos[t]]
      /\ attachments' = attachments \ ps
      /\ UNCHANGED <<published, files, used, review, lost, crashes, requests>>
  BY DEF Proposals!removeRejectedSubmissionPhotos
<1>2. sub \in [Submissions -> Row] /\ \A s \in Submissions : sub[s].draft \in Nat
  BY DEF ProposalsInv, Shapes, Row
<1>3. of \in SUBSET Submissions
  BY DEF ProposalsInv, Shapes, Request
<1>4. \A s \in of : sub[s].status = "rejected"
  BY DEF Proposals!RejectedWithPhotos
<1>5. \A x \in Row : LET y == [x EXCEPT !.announced = FALSE] IN y \in Row /\ y.status = x.status /\ y.draft = x.draft
  BY DEF Row
<1>6. ps = (UNION {photos[s] : s \in of}) \ published
  OBVIOUS
<1> HIDE DEF of, ps
<1>7. \A t \in of : /\ sub'[t] \in Row /\ sub'[t].status = sub[t].status /\ sub'[t].draft = sub[t].draft
  BY <1>1, <1>2, <1>3, <1>5
<1>8. \A t \in Submissions \ of : sub'[t] = sub[t]
  BY <1>1
<1>9. sub' \in [Submissions -> Row]
  BY <1>1, <1>2, <1>7, <1>8
<1>10. \A t \in of : /\ sub[t].status # "absent" /\ sub'[t].status \in {"rejected", "removed"}
                     /\ sub'[t].draft <= sub[t].draft
  BY <1>2, <1>3, <1>4, <1>7
<1>11. req[r].at \notin {"upload", "unlink"}
  BY <1>1
<1>12. QED
  BY <1>1, <1>3, <1>6, <1>8, <1>9, <1>10, <1>11, EmptyKeeps

-----------------------------------------------------------------------------
(* Files, and submissions that come and grow old.                          *)

LEMMA DeleteFilesKeeps ==
  ASSUME Proposals!SubmissionsAssumption, ProposalsInv, NEW r \in Proposals!Actors, Proposals!deletePhotoFiles(r)
  PROVE  ProposalsInv'
<1>1. /\ req[r].at = "unlink" /\ Proposals!Unlink(r, {}) /\ files' = files \ req[r].photos
      /\ UNCHANGED <<sub, photos, attachments, published, used, review, lost, crashes, requests>>
  BY DEF Proposals!deletePhotoFiles, Proposals!Unlink
<1>2. {} \in SUBSET Photos
  OBVIOUS
<1>3. PICK b \in Request :
        /\ req'[r] = b /\ b.photos = {} /\ b.at = "idle"
        /\ req' \in [Proposals!Actors -> Request]
        /\ \A q \in Proposals!Actors \ {r} : req'[q] = req[q] /\ Proposals!The(q)' = Proposals!The(q)
  BY <1>1, <1>2, UnlinkIs
<1>4. req[r].photos \cap attachments = {}
  BY <1>1 DEF ProposalsInv, Fitting, UnlinksUnnamed
<1>5. Shapes'
  BY <1>1, <1>3 DEF ProposalsInv, Shapes
<1>6. TablesAgree' /\ LimitKept' /\ Proposals!AppliedAsShown'
  BY <1>1, <1>4 DEF ProposalsInv, TablesAgree, LimitKept, Proposals!AppliedAsShown
<1>7. FilesNamed'
  <2> SUFFICES ASSUME NEW f \in files', f \notin attachments', f \notin lost'
               PROVE  \E q \in Proposals!Actors : req'[q].at \in {"upload", "unlink"} /\ f \in req'[q].photos
    BY DEF FilesNamed
  <2>1. PICK q \in Proposals!Actors : req[q].at \in {"upload", "unlink"} /\ f \in req[q].photos
    BY <1>1 DEF ProposalsInv, FilesNamed
  <2>2. q # r
    BY <1>1, <2>1
  <2>3. QED
    BY <1>3, <2>1, <2>2
<1>8. EditsBounded'
  <2>1. \A s \in Submissions : sub'[s].draft <= sub[s].draft
    BY <1>1 DEF ProposalsInv, Shapes, Row
  <2>2. QED
    BY <1>3, <1>5, <2>1, NoEditBegins
<1>9. Fitting(r)'
  BY <1>3, UnlinkFits
<1>10. ASSUME NEW q \in Proposals!Actors, q # r
       PROVE  Fitting(q)'
  <2>1. req'[q] = req[q] /\ Proposals!The(q)' = Proposals!The(q)
    BY <1>3, <1>10
  <2>2. req[q].at = "upload" => req[q].photos \subseteq files'
    BY <1>1, <1>10 DEF ProposalsInv, Fitting, UploadsNew
  <2>3. req[q].at = "upload" => \A p \in Proposals!Actors : p # q => req'[p].photos \cap req[q].photos = {}
    BY <1>3 DEF ProposalsInv, Fitting, UploadsNew
  <2>4. \A s \in Submissions : sub'[s].updated \in Nat
    BY <1>1 DEF ProposalsInv, Shapes, Row
  <2>5. {} \cap req[q].photos = {}
    OBVIOUS
  <2>6. QED
    BY <1>1, <2>1, <2>2, <2>3, <2>4, <2>5, RestFits
<1>11. QED
  BY <1>5, <1>6, <1>7, <1>8, <1>9, <1>10 DEF ProposalsInv

\* The name of a file is a new one.
LEMMA WriteKeeps ==
  ASSUME Proposals!SubmissionsAssumption, ProposalsInv, NEW r \in Requests, NEW p \in Photos,
         Proposals!writePhotoFiles(r, p)
  PROVE  ProposalsInv'
<1> DEFINE b == [req[r] EXCEPT !.photos = @ \cup {p}]
<1>1. /\ req[r].at = "upload" /\ p \notin used /\ used' = used \cup {p} /\ files' = files \cup {p}
      /\ req' = [req EXCEPT ![r].photos = @ \cup {p}]
      /\ UNCHANGED <<sub, photos, attachments, published, review, lost, crashes, requests>>
  BY DEF Proposals!writePhotoFiles
<1>2. r \in Proposals!Actors /\ req \in [Proposals!Actors -> Request] /\ req[r] \in Request
  BY ActorsAre DEF ProposalsInv, Shapes
<1>3. b \in Request /\ b.at = "upload" /\ b.photos = req[r].photos \cup {p} /\ b.subs = req[r].subs
  BY <1>1, <1>2 DEF Request
<1>4. req' = [req EXCEPT ![r] = b]
  BY <1>1, <1>2
<1> HIDE DEF b
<1>5. /\ req'[r] = b /\ req' \in [Proposals!Actors -> Request]
      /\ \A q \in Proposals!Actors \ {r} : req'[q] = req[q] /\ Proposals!The(q)' = Proposals!The(q)
  BY <1>2, <1>3, <1>4, OneChanges DEF ProposalsInv
<1>6. Proposals!The(r)' = Proposals!The(r)
  BY <1>3, <1>5 DEF Proposals!The
<1>7. Fitting(r) /\ \A q \in Proposals!Actors : Fitting(q) /\ req[q].photos \subseteq used
  BY <1>2 DEF ProposalsInv, Fitting
<1>8. attachments \subseteq files /\ files \subseteq used /\ \A s \in Submissions : photos[s] \subseteq used
  BY DEF ProposalsInv, TablesAgree
<1>9. Shapes'
  BY <1>1, <1>5 DEF ProposalsInv, Shapes
<1>10. TablesAgree' /\ LimitKept' /\ Proposals!AppliedAsShown'
  BY <1>1 DEF ProposalsInv, TablesAgree, LimitKept, Proposals!AppliedAsShown
<1>11. FilesNamed'
  <2> SUFFICES ASSUME NEW f \in files', f \notin attachments', f \notin lost'
               PROVE  \E q \in Proposals!Actors : req'[q].at \in {"upload", "unlink"} /\ f \in req'[q].photos
    BY DEF FilesNamed
  <2>1. CASE f = p
    BY <1>2, <1>3, <1>5, <2>1
  <2>2. CASE f # p
    <3>1. PICK q \in Proposals!Actors : req[q].at \in {"upload", "unlink"} /\ f \in req[q].photos
      BY <1>1, <2>2 DEF ProposalsInv, FilesNamed
    <3>2. QED
      BY <1>3, <1>5, <3>1
  <2>3. QED
    BY <2>1, <2>2
<1>12. EditsBounded'
  <2>1. \A s \in Submissions : sub'[s].draft <= sub[s].draft
    BY <1>1 DEF ProposalsInv, Shapes, Row
  <2>2. QED
    BY <1>2, <1>3, <1>5, <1>9, <2>1, NoEditBegins
<1>13. Fitting(r)'
  <2>1. KnowsIts(r)'
    BY <1>1, <1>3, <1>5, <1>6, <1>7 DEF Fitting, KnowsIts, ForOne
  <2>2. UploadsNew(r)'
    <3>1. IsFiniteSet(b.photos)
      BY <1>1, <1>3, <1>7, FS_AddElement DEF Fitting, UploadsNew
    <3>2. b.photos \subseteq files' /\ b.photos \cap attachments' = {}
      BY <1>1, <1>3, <1>7, <1>8 DEF Fitting, UploadsNew
    <3>3. \A s \in Submissions : b.photos \cap photos'[s] = {}
      BY <1>1, <1>3, <1>7, <1>8 DEF Fitting, UploadsNew
    <3>4. \A q \in Proposals!Actors : q # r => req'[q].photos \cap b.photos = {}
      BY <1>1, <1>3, <1>5, <1>7 DEF Fitting, UploadsNew
    <3>5. QED
      BY <1>5, <3>1, <3>2, <3>3, <3>4 DEF UploadsNew
  <2>3. QED
    BY <1>1, <1>3, <1>5, <1>7, <2>1, <2>2 DEF Fitting, UnlinksUnnamed, RemovesItsOwn, MayDelete, ShownTruly
<1>14. ASSUME NEW q \in Proposals!Actors, q # r
       PROVE  Fitting(q)'
  <2>1. req'[q] = req[q] /\ Proposals!The(q)' = Proposals!The(q)
    BY <1>5, <1>14
  <2>2. req[q].at = "upload" => req[q].photos \subseteq files'
    BY <1>1, <1>7 DEF Fitting, UploadsNew
  <2>3. ASSUME req[q].at = "upload", NEW o \in Proposals!Actors, o # q
        PROVE  req'[o].photos \cap req[q].photos = {}
    <3>1. req[o].photos \cap req[q].photos = {} /\ p \notin req[q].photos
      BY <1>1, <1>7, <2>3 DEF Fitting, UploadsNew
    <3>2. req'[o].photos \subseteq req[o].photos \cup {p}
      BY <1>3, <1>5
    <3>3. QED
      BY <3>1, <3>2
  <2>4. \A s \in Submissions : sub'[s].updated \in Nat
    BY <1>1 DEF ProposalsInv, Shapes, Row
  <2>5. {} \cap req[q].photos = {}
    OBVIOUS
  <2>6. QED
    BY <1>1, <2>1, <2>2, <2>3, <2>4, <2>5, RestFits
<1>15. QED
  BY <1>9, <1>10, <1>11, <1>12, <1>13, <1>14 DEF ProposalsInv

\* A row that comes or grows old, and nothing else.
LEMMA RowKeeps ==
  ASSUME Proposals!SubmissionsAssumption, ProposalsInv, NEW s \in Submissions, NEW row \in Row,
         sub' = [sub EXCEPT ![s] = row],
         row.status = sub[s].status \/ (sub[s].status = "absent" /\ row.status = "pending"),
         row.updated = sub[s].updated, row.draft = sub[s].draft,
         UNCHANGED <<photos, attachments, published, files, used, req, review, lost, crashes, requests>>
  PROVE  ProposalsInv'
<1>1. sub \in [Submissions -> Row]
  BY DEF ProposalsInv, Shapes
<1>2. sub' \in [Submissions -> Row] /\ sub'[s] = row /\ \A t \in Submissions : t # s => sub'[t] = sub[t]
  BY <1>1
<1>3. Shapes'
  BY <1>2 DEF ProposalsInv, Shapes
<1>4. TablesAgree'
  BY <1>2 DEF ProposalsInv, TablesAgree
<1>5. LimitKept' /\ FilesNamed' /\ Proposals!AppliedAsShown'
  BY DEF ProposalsInv, LimitKept, FilesNamed, Proposals!AppliedAsShown
<1>6. EditsBounded'
  <2>1. \A t \in Submissions : sub'[t].draft <= sub[t].draft
    BY <1>1, <1>2 DEF Row
  <2>2. \A q \in Requests : req'[q].at = "edit" => req'[q] = req[q]
    OBVIOUS
  <2>3. QED
    BY <1>3, <2>1, <2>2, EditsRest
<1>7. ASSUME NEW q \in Proposals!Actors
      PROVE  Fitting(q)'
  <2>1. req'[q] = req[q] /\ Proposals!The(q)' = Proposals!The(q)
    BY DEF Proposals!The
  <2>2. req[q].at = "upload" => req[q].photos \subseteq files'
    BY DEF ProposalsInv, Fitting, UploadsNew
  <2>3. req[q].at = "upload" => \A p \in Proposals!Actors : p # q => req'[p].photos \cap req[q].photos = {}
    BY DEF ProposalsInv, Fitting, UploadsNew
  <2>4. \A t \in Submissions :
           /\ sub[t].status # "absent" => sub'[t].status # "absent"
           /\ sub[t].status # "absent" /\ sub'[t].status = "pending" =>
                /\ sub[t].status = "pending"
                /\ sub'[t].updated \in Nat
                /\ sub[t].updated < sub'[t].updated \/ (sub'[t].updated = sub[t].updated /\ sub'[t].draft = sub[t].draft)
    BY <1>1, <1>2 DEF Row
  <2>5. {} \cap req[q].photos = {}
    OBVIOUS
  <2>6. QED
    BY <2>1, <2>2, <2>3, <2>4, <2>5, RestFits
<1>8. QED
  BY <1>3, <1>4, <1>5, <1>6, <1>7 DEF ProposalsInv

LEMMA CreateKeeps ==
  ASSUME Proposals!SubmissionsAssumption, ProposalsInv, NEW s \in Submissions,
         NEW content \in BOOLEAN, NEW announced \in BOOLEAN,
         Proposals!processSubmission(s, content, announced)
  PROVE  ProposalsInv'
<1> DEFINE row == [Proposals!Absent EXCEPT !.status = "pending", !.content = content, !.announced = announced]
<1>1. row \in Row /\ row.status = "pending" /\ row.updated = 0 /\ row.draft = 0
  BY DEF Row, Proposals!Absent, Proposals!Statuses
<1>2. /\ sub[s] = Proposals!Absent /\ sub' = [sub EXCEPT ![s] = row]
      /\ UNCHANGED <<photos, attachments, published, files, used, req, review, lost, crashes, requests>>
  BY DEF Proposals!processSubmission
<1>3. sub[s].status = "absent" /\ sub[s].updated = 0 /\ sub[s].draft = 0
  BY <1>2 DEF Proposals!Absent
<1> HIDE DEF row
<1>4. QED
  BY <1>1, <1>2, <1>3, RowKeeps

LEMMA GrowKeeps ==
  ASSUME Proposals!SubmissionsAssumption, ProposalsInv, NEW s \in Submissions, Proposals!GrowOld(s)
  PROVE  ProposalsInv'
<1> DEFINE row == [sub[s] EXCEPT !.old = TRUE]
<1>1. sub \in [Submissions -> Row]
  BY DEF ProposalsInv, Shapes
<1>2. row \in Row /\ row.status = sub[s].status /\ row.updated = sub[s].updated /\ row.draft = sub[s].draft
  BY <1>1 DEF Row
<1>3. /\ sub' = [sub EXCEPT ![s] = row]
      /\ UNCHANGED <<photos, attachments, published, files, used, req, review, lost, crashes, requests>>
  BY <1>1 DEF Proposals!GrowOld
<1> HIDE DEF row
<1>4. QED
  BY <1>2, <1>3, RowKeeps

LEMMA ProposalsInit ==
  ASSUME Proposals!SubmissionsAssumption, Proposals!Init
  PROVE  ProposalsInv
<1>1. Proposals!Absent \in Row /\ Proposals!Absent.draft = 0 /\ Proposals!Absent.status = "absent"
  BY DEF Row, Proposals!Absent, Proposals!Statuses
<1>2. Proposals!NoReview \in ReviewNote /\ Proposals!NoReview.by = "nobody"
  BY DEF Proposals!NoReview, ReviewNote
<1>3. /\ sub = [s \in Submissions |-> Proposals!Absent] /\ photos = [s \in Submissions |-> {}]
      /\ attachments = {} /\ published = {} /\ files = {} /\ used = {} /\ lost = {}
      /\ req = [r \in Proposals!Actors |-> Proposals!Idle]
      /\ review = [s \in Submissions |-> Proposals!NoReview]
      /\ crashes = 0 /\ requests = 0
  BY DEF Proposals!Init
<1>4. /\ \A s \in Submissions : sub[s] = Proposals!Absent /\ photos[s] = {} /\ review[s] = Proposals!NoReview
      /\ \A r \in Proposals!Actors : req[r] = Proposals!Idle
  BY <1>3
<1>5. Shapes
  <2>1. MaxCrashes \in Nat /\ MaxRequests \in Nat
    BY ActorsAre
  <2>2. Proposals!Idle \in Request
    BY IdleIs
  <2>3. crashes \in 0 .. MaxCrashes /\ requests \in 0 .. MaxRequests
    BY <1>3, <2>1
  <2>4. /\ sub \in [Submissions -> Row] /\ photos \in [Submissions -> SUBSET Photos]
        /\ used \subseteq Photos /\ lost \subseteq used
    BY <1>1, <1>3
  <2>5. req \in [Proposals!Actors -> Request] /\ review \in [Submissions -> ReviewNote]
    BY <1>2, <1>3, <2>2
  <2>6. QED
    BY <2>3, <2>4, <2>5 DEF Shapes
<1>6. TablesAgree /\ FilesNamed /\ Proposals!AppliedAsShown
  BY <1>1, <1>2, <1>3, <1>4 DEF TablesAgree, FilesNamed, Proposals!AppliedAsShown
<1>7. LimitKept
  <2>1. PhotoLimit \in Nat
    BY ActorsAre
  <2> SUFFICES ASSUME NEW s \in Submissions
               PROVE  IsFiniteSet(photos[s]) /\ Cardinality(photos[s]) <= PhotoLimit
    BY DEF LimitKept
  <2>2. IsFiniteSet(photos[s]) /\ Cardinality(photos[s]) = 0
    BY <1>4, FS_EmptySet
  <2>3. QED
    BY <2>1, <2>2
<1>8. EditsBounded
  <2>1. \A s \in Submissions : Editing(s) = {}
    <3>1. \A r \in Requests : req[r].at = "idle"
      BY <1>4, IdleIs, ActorsAre
    <3>2. QED
      BY <3>1 DEF Editing
  <2>2. \A s \in Submissions : Cardinality(Editing(s)) = 0 /\ sub[s].draft = 0
    BY <1>1, <1>4, <2>1, FS_EmptySet
  <2>3. QED
    <3>1. MaxEdits \in Nat /\ Cardinality(Requests) \in Nat
      BY ActorsAre
    <3> SUFFICES ASSUME NEW s \in Submissions
                 PROVE  sub[s].draft + Cardinality(Editing(s)) <= MaxEdits + Cardinality(Requests)
      BY DEF EditsBounded
    <3>2. QED
      BY <2>2, <3>1
<1>9. \A r \in Proposals!Actors : Fitting(r)
  BY <1>4, IdleIs DEF Fitting, KnowsIts, ForOne, UnlinksUnnamed, UploadsNew, RemovesItsOwn, MayDelete, ShownTruly
<1>10. QED
  BY <1>5, <1>6, <1>7, <1>8, <1>9 DEF ProposalsInv

LEMMA ProposalsInductive ==
  ASSUME Proposals!SubmissionsAssumption, ProposalsInv, [Proposals!Next]_(Proposals!vars)
  PROVE  ProposalsInv'
<1>1. CASE UNCHANGED Proposals!vars
  <2>1. UNCHANGED <<sub, photos, attachments, published, files, used, req, review, lost, crashes, requests>>
    BY <1>1 DEF Proposals!vars
  <2>2. Shapes' /\ TablesAgree' /\ LimitKept' /\ FilesNamed' /\ Proposals!AppliedAsShown'
    BY <2>1 DEF ProposalsInv, Shapes, TablesAgree, LimitKept, FilesNamed, Proposals!AppliedAsShown
  <2>3. EditsBounded'
    BY <2>1 DEF ProposalsInv, EditsBounded, Editing
  <2>4. \A r \in Proposals!Actors : Fitting(r)'
    BY <2>1 DEF ProposalsInv, Fitting, KnowsIts, ForOne, UnlinksUnnamed, UploadsNew, RemovesItsOwn, MayDelete, ShownTruly,
                Proposals!The
  <2>5. QED
    BY <2>2, <2>3, <2>4 DEF ProposalsInv
<1>2. ASSUME NEW s \in Submissions,
             \/ Proposals!GrowOld(s)
             \/ \E content, announced \in BOOLEAN : Proposals!processSubmission(s, content, announced)
      PROVE  ProposalsInv'
  BY <1>2, GrowKeeps, CreateKeeps
<1>3. ASSUME NEW r \in Requests, NEW s \in Submissions,
             \/ Proposals!uploadSubmissionPhotos(r, s) \/ Proposals!findEditableSubmission(r, s) \/ Proposals!Show(r, s)
             \/ \E admin \in BOOLEAN : Proposals!readForRemoval(r, s, admin)
             \/ \E p \in Photos : Proposals!findPhotoEditableSubmission(r, s, p)
      PROVE  ProposalsInv'
  BY <1>3, UploadBegins, EditBegins, ShowBegins, DeletionBegins, RemovalBegins
<1>4. ASSUME NEW r \in Requests, NEW p \in Photos, Proposals!writePhotoFiles(r, p)
      PROVE  ProposalsInv'
  BY <1>4, WriteKeeps
<1>5. ASSUME NEW r \in Proposals!Actors, Proposals!Commit(r) \/ Proposals!Crash(r)
      PROVE  ProposalsInv'
  BY <1>5, StoreKeeps, FailUploadKeeps, RemoveKeeps, DeleteFilesKeeps, UpdateKeeps, ReadForReviewKeeps, ApproveKeeps,
     RejectKeeps, RefuseKeeps, DeleteKeeps, CleanupKeeps, RejectedGoKeeps, CrashKeeps DEF Proposals!Commit
<1>6. ASSUME NEW r \in Requests \cup {"rejected"}, Proposals!selectRejected(r)
      PROVE  ProposalsInv'
  BY <1>6, RejectedBegin
<1>7. QED
  BY <1>1, <1>2, <1>3, <1>4, <1>5, <1>6, OrphansBegin DEF Proposals!Next

LEMMA InvKeepsPhotos ==
  ASSUME Proposals!SubmissionsAssumption, ProposalsInv
  PROVE  /\ Proposals!TypeOK /\ Proposals!ShownPhotosExist /\ Proposals!NoStrayFiles /\ Proposals!NoStrayAttachments
         /\ Proposals!PhotoLimitKept
<1>1. Proposals!TypeOK
  <2>1. \A s \in Submissions : sub[s].draft \in 0 .. MaxEdits + Cardinality(Requests)
    <3> SUFFICES ASSUME NEW s \in Submissions
                 PROVE  sub[s].draft \in 0 .. MaxEdits + Cardinality(Requests)
      OBVIOUS
    <3>1. sub[s].draft + Cardinality(Editing(s)) <= MaxEdits + Cardinality(Requests) /\ sub[s].draft \in Nat
      BY DEF ProposalsInv, EditsBounded, Shapes, Row
    <3>2. Cardinality(Editing(s)) \in Nat
      <4>1. Editing(s) \subseteq Requests
        BY DEF Editing
      <4>2. QED
        BY <4>1, ActorsAre, FS_Subset, FS_CardinalityType
    <3>3. QED
      BY <3>1, <3>2, ActorsAre
  <2>2. sub \in [Submissions -> [status : Proposals!Statuses, updated : Nat, draft : 0 .. MaxEdits + Cardinality(Requests),
                                 content : BOOLEAN, announced : BOOLEAN, old : BOOLEAN]]
    <3>1. sub \in [Submissions -> Row]
      BY DEF ProposalsInv, Shapes
    <3>2. \A x \in Row : x.draft \in 0 .. MaxEdits + Cardinality(Requests) =>
             x \in [status : Proposals!Statuses, updated : Nat, draft : 0 .. MaxEdits + Cardinality(Requests),
                    content : BOOLEAN, announced : BOOLEAN, old : BOOLEAN]
      BY DEF Row
    <3>3. QED
      BY <2>1, <3>1, <3>2
  <2>3. \A r \in Proposals!Actors : req[r].at \in {"idle", "upload", "remove", "unlink", "edit", "shown", "review", "delete",
                                                    "orphans", "rejected"}
    BY DEF ProposalsInv, Shapes, Request
  <2>4. /\ attachments \subseteq Photos /\ published \subseteq Photos /\ files \subseteq used /\ used \subseteq Photos
        /\ lost \subseteq used /\ crashes \in 0 .. MaxCrashes /\ requests \in 0 .. MaxRequests
        /\ photos \in [Submissions -> SUBSET Photos]
    BY DEF ProposalsInv, Shapes, TablesAgree
  <2>5. QED
    BY <2>2, <2>3, <2>4, SameCardinality DEF Proposals!TypeOK
<1>2. Proposals!ShownPhotosExist /\ Proposals!NoStrayAttachments
  BY DEF ProposalsInv, TablesAgree, Proposals!ShownPhotosExist, Proposals!NoStrayAttachments
<1>3. Proposals!NoStrayFiles
  BY DEF ProposalsInv, FilesNamed, Proposals!NoStrayFiles
<1>4. Proposals!PhotoLimitKept
  BY SameCardinality DEF ProposalsInv, LimitKept, Proposals!PhotoLimitKept
<1>5. QED
  BY <1>1, <1>2, <1>3, <1>4

\* What is published changes by a removal, of what is not published, and by an
\* approval.
LEMMA StepPublishes ==
  ASSUME ProposalsInv, [Proposals!Next]_(Proposals!vars)
  PROVE  Proposals!PublishedStays
<1>1. ASSUME NEW r \in Proposals!Actors, Proposals!removeSubmissionPhoto(r)
      PROVE  published' = published
  <2>1. /\ req[r].at = "remove" /\ sub[Proposals!The(r)].status = "pending"
        /\ published' = published \ req[r].photos
    BY <1>1 DEF Proposals!removeSubmissionPhoto, Proposals!IsPending
  <2>2. req[r].photos \cap published = {}
    BY <2>1 DEF ProposalsInv, Fitting, RemovesItsOwn
  <2>3. QED
    BY <2>1, <2>2
<1>2. ASSUME NEW r \in Proposals!Actors, NEW gone \in SUBSET published, Proposals!approveSubmissionAction(r, gone)
      PROVE  Proposals!PublishedStays
  <2> DEFINE s == Proposals!The(r)
  <2>1. /\ req[r].at = "review" /\ sub[s].status = "pending"
        /\ sub' = [sub EXCEPT ![s].status = "approved", ![s].updated = @ + 1]
    BY <1>2 DEF Proposals!approveSubmissionAction, Proposals!lockPendingSubmission
  <2>2. s \in Submissions /\ "approved" \in Proposals!Statuses
    BY <2>1, ItsOwn DEF ForOne, Proposals!Statuses
  <2> HIDE DEF s
  <2>3. sub'[s].status = "approved"
    BY <2>1, <2>2, ReviewedRow
  <2>4. QED
    BY <2>1, <2>2, <2>3 DEF Proposals!PublishedStays
<1>3. ASSUME published' = published
      PROVE  Proposals!PublishedStays
  BY <1>3 DEF Proposals!PublishedStays
<1>4. CASE UNCHANGED Proposals!vars
  BY <1>3, <1>4 DEF Proposals!vars
<1>5. ASSUME NEW r \in Proposals!Actors, Proposals!Commit(r) \/ Proposals!Crash(r)
      PROVE  Proposals!PublishedStays
  BY <1>1, <1>2, <1>3, <1>5
     DEF Proposals!Commit, Proposals!Crash, Proposals!storePhotos, Proposals!failUpload, Proposals!deletePhotoFiles,
         Proposals!updateSubmission, Proposals!readForReview, Proposals!rejectSubmissionAction, Proposals!Refuse,
         Proposals!removeSubmission, Proposals!cleanupOrphanedSubmissions, Proposals!removeRejectedSubmissionPhotos
<1>6. CASE \E s \in Submissions :
             \/ Proposals!GrowOld(s)
             \/ \E content, announced \in BOOLEAN : Proposals!processSubmission(s, content, announced)
  BY <1>3, <1>6 DEF Proposals!GrowOld, Proposals!processSubmission
<1>7. CASE \/ \E r \in Requests, s \in Submissions :
                \/ Proposals!uploadSubmissionPhotos(r, s) \/ Proposals!findEditableSubmission(r, s) \/ Proposals!Show(r, s)
                \/ \E admin \in BOOLEAN : Proposals!readForRemoval(r, s, admin)
                \/ \E p \in Photos : Proposals!findPhotoEditableSubmission(r, s, p)
           \/ \E r \in Requests, p \in Photos : Proposals!writePhotoFiles(r, p)
           \/ \E r \in Requests \cup {"rejected"} : Proposals!selectRejected(r)
           \/ Proposals!selectOrphans
  BY <1>3, <1>7
     DEF Proposals!uploadSubmissionPhotos, Proposals!findEditableSubmission, Proposals!Show, Proposals!readForRemoval,
         Proposals!findPhotoEditableSubmission, Proposals!writePhotoFiles, Proposals!selectRejected, Proposals!selectOrphans
<1>8. QED
  BY <1>4, <1>5, <1>6, <1>7 DEF Proposals!Next

\* A row stays, comes, is reviewed, or is removed: by the clean-up when it has
\* nothing, else by a request that read the status it has.
RowStep(s) ==
  \/ sub'[s].status = sub[s].status /\ (sub[s].status = "pending" \/ sub'[s].draft = sub[s].draft)
  \/ sub[s].status \in {"absent", "pending"} /\ sub'[s].status \in {"pending", "approved", "rejected"}
  \/ sub'[s].status = "removed" /\ sub[s].status = "pending" /\ photos[s] = {} /\ ~sub[s].content
  \/ sub'[s].status = "removed" /\ \E r \in Requests : /\ req[r].at = "delete" /\ req'[r] # req[r]
                                                       /\ req[r].admin \/ sub[s].status = "pending"

LEMMA StepRows ==
  ASSUME Proposals!SubmissionsAssumption, ProposalsInv, [Proposals!Next]_(Proposals!vars), NEW s \in Submissions
  PROVE  RowStep(s)
<1> USE DEF RowStep
<1>1. sub \in [Submissions -> Row]
  BY DEF ProposalsInv, Shapes
<1>2. ASSUME UNCHANGED sub
      PROVE  RowStep(s)
  BY <1>2
<1>3. CASE UNCHANGED Proposals!vars
  BY <1>2, <1>3 DEF Proposals!vars
<1>4. ASSUME NEW t \in Submissions, Proposals!GrowOld(t)
      PROVE  RowStep(s)
  BY <1>1, <1>4 DEF Proposals!GrowOld
<1>5. ASSUME NEW t \in Submissions, NEW content \in BOOLEAN, NEW announced \in BOOLEAN,
             Proposals!processSubmission(t, content, announced)
      PROVE  RowStep(s)
  BY <1>1, <1>5 DEF Proposals!processSubmission, Proposals!Absent
<1>6. CASE \/ \E r \in Requests, t \in Submissions :
                \/ Proposals!uploadSubmissionPhotos(r, t) \/ Proposals!findEditableSubmission(r, t) \/ Proposals!Show(r, t)
                \/ \E admin \in BOOLEAN : Proposals!readForRemoval(r, t, admin)
                \/ \E p \in Photos : Proposals!findPhotoEditableSubmission(r, t, p)
           \/ \E r \in Requests, p \in Photos : Proposals!writePhotoFiles(r, p)
           \/ \E r \in Requests \cup {"rejected"} : Proposals!selectRejected(r)
           \/ Proposals!selectOrphans
  BY <1>2, <1>6
     DEF Proposals!uploadSubmissionPhotos, Proposals!findEditableSubmission, Proposals!Show, Proposals!readForRemoval,
         Proposals!findPhotoEditableSubmission, Proposals!writePhotoFiles, Proposals!selectRejected, Proposals!selectOrphans
<1>7. ASSUME NEW r \in Proposals!Actors, NEW content \in BOOLEAN, Proposals!updateSubmission(r, content)
      PROVE  RowStep(s)
  <2> DEFINE t == Proposals!The(r)
  <2>1. /\ req[r].at = "edit" /\ sub[t].status = req[r].status
        /\ sub' = [sub EXCEPT ![t].updated = @ + 1,
                              ![t].draft = IF req[r].status = "pending" THEN @ + 1 ELSE @,
                              ![t].content = IF req[r].status = "pending" THEN content ELSE @]
    BY <1>7 DEF Proposals!updateSubmission, Proposals!Unreviewed
  <2>2. t \in Submissions
    BY <2>1, ItsOwn DEF ForOne
  <2> HIDE DEF t
  <2>3. QED
    BY <1>1, <2>1, <2>2
<1>8. ASSUME NEW r \in Proposals!Actors, NEW gone \in SUBSET published,
             Proposals!approveSubmissionAction(r, gone) \/ Proposals!rejectSubmissionAction(r)
      PROVE  RowStep(s)
  <2> DEFINE t == Proposals!The(r)
  <2>1. /\ req[r].at = "review" /\ sub[t].status = "pending"
        /\ \E status \in {"approved", "rejected"} : sub' = [sub EXCEPT ![t].status = status, ![t].updated = @ + 1]
    BY <1>8 DEF Proposals!approveSubmissionAction, Proposals!rejectSubmissionAction, Proposals!lockPendingSubmission
  <2>2. PICK status \in {"approved", "rejected"} : sub' = [sub EXCEPT ![t].status = status, ![t].updated = @ + 1]
    BY <2>1
  <2>3. t \in Submissions /\ status \in Proposals!Statuses
    BY <2>1, <2>2, ItsOwn DEF ForOne, Proposals!Statuses
  <2> HIDE DEF t
  <2>4. sub'[t].status = status /\ \A u \in Submissions : u # t => sub'[u] = sub[u]
    BY <2>1, <2>2, <2>3, ReviewedRow
  <2>5. QED
    BY <2>1, <2>4
<1>9. ASSUME NEW r \in Proposals!Actors, Proposals!removeSubmission(r)
      PROVE  RowStep(s)
  <2> DEFINE t == Proposals!The(r)
  <2>1. /\ req[r].at = "delete" /\ sub[t].status = req[r].status
        /\ sub' = [u \in Submissions |-> IF u \in {t} THEN [Proposals!Absent EXCEPT !.status = "removed"] ELSE sub[u]]
        /\ Proposals!Unlink(r, photos[t] \ published)
    BY <1>9 DEF Proposals!removeSubmission, Proposals!Removed, Proposals!Unreviewed
  <2>2. r \in Requests /\ t \in Submissions /\ (req[r].admin \/ req[r].status = "pending")
    BY <2>1, ItsOwn DEF ForOne, ProposalsInv, Fitting, MayDelete
  <2>3. photos[t] \ published \in SUBSET Photos
    BY <2>2 DEF ProposalsInv, Shapes
  <2>4. PICK b \in Request : req'[r] = b /\ b.at = IF photos[t] \ published = {} THEN "idle" ELSE "unlink"
    BY <2>1, <2>3, UnlinkIs
  <2>5. req'[r] # req[r]
    BY <2>1, <2>4
  <2> HIDE DEF t
  <2>6. QED
    BY <2>1, <2>2, <2>5 DEF Proposals!Absent
<1>10. ASSUME NEW r \in Proposals!Actors, Proposals!cleanupOrphanedSubmissions(r)
       PROVE  RowStep(s)
  <2>1. sub' = [u \in Submissions |-> IF u \in {v \in req[r].subs : Proposals!Orphaned(v)}
                                      THEN [Proposals!Absent EXCEPT !.status = "removed"] ELSE sub[u]]
    BY <1>10 DEF Proposals!cleanupOrphanedSubmissions, Proposals!Removed
  <2>2. QED
    BY <2>1 DEF Proposals!Orphaned, Proposals!Absent
<1>11. ASSUME NEW r \in Proposals!Actors, Proposals!removeRejectedSubmissionPhotos(r)
       PROVE  RowStep(s)
  <2>1. sub'[s] = sub[s] \/ sub'[s] = [sub[s] EXCEPT !.announced = FALSE]
    BY <1>11 DEF Proposals!removeRejectedSubmissionPhotos
  <2>2. sub[s] \in Row
    BY <1>1
  <2>3. QED
    BY <2>1, <2>2 DEF Row
<1>12. ASSUME NEW r \in Proposals!Actors, Proposals!Commit(r) \/ Proposals!Crash(r)
       PROVE  RowStep(s)
  BY <1>2, <1>7, <1>8, <1>9, <1>10, <1>11, <1>12
     DEF Proposals!Commit, Proposals!Crash, Proposals!storePhotos, Proposals!failUpload, Proposals!deletePhotoFiles,
         Proposals!removeSubmissionPhoto, Proposals!readForReview, Proposals!Refuse
<1>13. QED
  BY <1>3, <1>4, <1>5, <1>6, <1>12 DEF Proposals!Next

\* No photo is lost or left behind, whichever uploads, removals, reviews and
\* clean-ups of however many submissions overlap, and whoever dies.
THEOREM PhotosAreKept == ASSUME Proposals!SubmissionsAssumption PROVE Proposals!Spec => PhotosKept
<1>1. ProposalsInv /\ [Proposals!Next]_(Proposals!vars) => ProposalsInv'
  BY ProposalsInductive
<1>2. Proposals!Init => ProposalsInv
  BY ProposalsInit
<1>3. ProposalsInv =>
        /\ Proposals!TypeOK /\ Proposals!ShownPhotosExist /\ Proposals!NoStrayFiles /\ Proposals!NoStrayAttachments
        /\ Proposals!PhotoLimitKept
  BY InvKeepsPhotos
<1>4. ProposalsInv /\ [Proposals!Next]_(Proposals!vars) => [Proposals!PublishedStays]_(Proposals!vars)
  BY StepPublishes
<1>5. QED
  BY <1>1, <1>2, <1>3, <1>4, PTL DEF Proposals!Spec, PhotosKept

\* A review that names the version applies what the reviewer was shown, a
\* review is final, and a clean-up takes no submission that has anything
\* (lockPendingSubmission, updateSubmission, cleanupOrphanedSubmissions).
THEOREM ReviewsAreTrue == ASSUME Proposals!SubmissionsAssumption PROVE Proposals!Spec => ReviewedAsShown
<1>1. ProposalsInv /\ [Proposals!Next]_(Proposals!vars) => ProposalsInv'
  BY ProposalsInductive
<1>2. Proposals!Init => ProposalsInv
  BY ProposalsInit
<1>3. ProposalsInv => Proposals!TypeOK /\ Proposals!AppliedAsShown
  BY InvKeepsPhotos DEF ProposalsInv
<1> DEFINE final == \A s \in Submissions : sub[s].status \in {"approved", "rejected"} =>
                      \/ sub'[s].status = sub[s].status /\ sub'[s].draft = sub[s].draft
                      \/ sub'[s].status = "removed" /\ \E r \in Requests : req[r].at = "delete" /\ req[r].admin /\ req'[r] # req[r]
           spares == \A s \in Submissions :
                       (Proposals!Exists(s) /\ sub'[s].status = "removed" /\ (photos[s] # {} \/ sub[s].content)) =>
                         \E r \in Requests : req[r].at = "delete" /\ req'[r] # req[r]
<1>4. ProposalsInv /\ [Proposals!Next]_(Proposals!vars) => final /\ spares
  <2> SUFFICES ASSUME ProposalsInv, [Proposals!Next]_(Proposals!vars)
               PROVE  final /\ spares
    OBVIOUS
  <2>1. \A s \in Submissions : RowStep(s)
    BY StepRows
  <2>2. final
    BY <2>1 DEF RowStep
  <2>3. spares
    BY <2>1 DEF RowStep, Proposals!Exists
  <2>4. QED
    BY <2>2, <2>3
<1>5. Proposals!Spec => Proposals!ReviewIsFinal
  BY <1>1, <1>2, <1>4, PTL DEF Proposals!Spec, Proposals!ReviewIsFinal
<1>6. Proposals!Spec => Proposals!CleanupSparesContent
  BY <1>1, <1>2, <1>4, PTL DEF Proposals!Spec, Proposals!CleanupSparesContent
<1>7. Proposals!Spec => [](Proposals!TypeOK /\ Proposals!AppliedAsShown)
  BY <1>1, <1>2, <1>3, PTL DEF Proposals!Spec
<1>8. QED
  BY <1>5, <1>6, <1>7 DEF ReviewedAsShown

-----------------------------------------------------------------------------
(* The invariant of the audit log.                                         *)

\* What has been put back had changed something.
PutBackDiffered ==
  \A j \in DOMAIN entries : entries[j].reverts # Audit!None => Audit!snapshotsDiffer(entries[j].reverts)

\* A change that has joined an operation finds it open until it commits.
JoinedIsOpen ==
  \A w \in Writers :
    /\ tx[w].at = "read" => tx[w].rec \in Records
    /\ tx[w].op # Audit!None =>
         ops[tx[w].op].reverts = Audit!None /\ ops[tx[w].op].by = Audit!None /\ ops[tx[w].op].partial = {}

\* What a revert has seen is as it was, but for the rows that it must not touch.
RevertSees ==
  \A r \in Reverters :
    rev[r].at # "idle" =>
      /\ rev[r].op \in DOMAIN ops /\ rev[r].chosen \subseteq Audit!Of(rev[r].op) /\ rev[r].chosen \subseteq rev[r].seen
      /\ "operation" \notin rev[r].changed => rev[r].seen = Audit!Of(rev[r].op)
      /\ \A x \in Records : x \notin rev[r].changed => rev[r].saw[x] = value[x]

\* A revert that holds the row of its operation is alone at it.
LockedAlone ==
  \A r \in Reverters :
    rev[r].at = "locked" =>
      /\ "operation" \notin rev[r].changed
      /\ \A w \in Writers : tx[w].op # rev[r].op
      /\ \A q \in Reverters : rev[q].at = "locked" /\ rev[q].op = rev[r].op => q = r

AuditInv ==
  /\ Audit!TypeOK /\ Audit!MarkersTellCoverage /\ Audit!RevertedAtMostOnce
  /\ PutBackDiffered /\ JoinedIsOpen /\ RevertSees /\ LockedAlone

-----------------------------------------------------------------------------
(* Steps of the audit log that log nothing.                                *)

TxRow == [at : {"idle", "joined", "read"}, key : Keys \cup {Audit!NoKey}, op : {Audit!None} \cup DOMAIN ops,
          rec : Records \cup {Audit!None}, old : Values]
RevRow == [at : {"idle", "begun", "locked"}, op : {Audit!None} \cup DOMAIN ops, chosen : SUBSET DOMAIN entries,
           seen : SUBSET DOMAIN entries, saw : [Records -> Values], force : BOOLEAN,
           changed : SUBSET (Records \cup {"operation"})]

LEMMA AuditTypes ==
  ASSUME Audit!AuditRevertAssumption, Audit!TypeOK
  PROVE  /\ tx \in [Writers -> TxRow] /\ rev \in [Reverters -> RevRow]
         /\ Len(ops) \in Nat /\ DOMAIN ops = 1 .. Len(ops) /\ Len(ops) <= MaxOperations
         /\ Len(entries) \in Nat /\ DOMAIN entries = 1 .. Len(entries) /\ Len(entries) <= MaxEntries
         /\ \A o \in DOMAIN ops : ops[o] \in Audit!Operation
         /\ \A i \in DOMAIN entries : entries[i] \in Audit!Entry
         /\ MaxOperations \in Nat /\ MaxEntries \in Nat /\ Audit!None = 0 /\ Initial \in Values
         /\ "operation" \notin Records /\ Audit!NoKey \notin Keys
BY DEF Audit!TypeOK, Audit!AuditRevertAssumption, TxRow, RevRow, Audit!None

LEMMA QuietStep ==
  ASSUME Audit!AuditRevertAssumption, AuditInv, UNCHANGED <<value, ops, entries>>,
         tx' \in [Writers -> TxRow], rev' \in [Reverters -> RevRow],
         JoinedIsOpen', RevertSees', LockedAlone'
  PROVE  AuditInv'
<1>1. Audit!TypeOK'
  BY DEF AuditInv, Audit!TypeOK, TxRow, RevRow
<1>2. Audit!MarkersTellCoverage'
  BY DEF AuditInv, Audit!MarkersTellCoverage, Audit!Of, Audit!Reverting, Audit!snapshotsDiffer
<1>3. Audit!RevertedAtMostOnce' /\ PutBackDiffered'
  BY DEF AuditInv, Audit!RevertedAtMostOnce, PutBackDiffered, Audit!snapshotsDiffer
<1>4. QED
  BY <1>1, <1>2, <1>3 DEF AuditInv

\* A change takes a step of its own: it joins what is open and not locked.
LEMMA ChangeMoves ==
  ASSUME Audit!AuditRevertAssumption, AuditInv, UNCHANGED <<value, ops, entries, rev>>,
         NEW w \in Writers, NEW t \in TxRow, tx' = [tx EXCEPT ![w] = t],
         t.at = "read" => t.rec \in Records,
         t.op # Audit!None /\ t.op # tx[w].op =>
           /\ ops[t.op].reverts = Audit!None /\ ops[t.op].by = Audit!None /\ ops[t.op].partial = {}
           /\ \A r \in Reverters : rev[r].at = "locked" => rev[r].op # t.op
  PROVE  AuditInv'
<1>1. tx \in [Writers -> TxRow] /\ rev \in [Reverters -> RevRow]
  BY AuditTypes DEF AuditInv
<1>2. /\ tx' \in [Writers -> TxRow] /\ tx'[w] = t /\ \A v \in Writers : v # w => tx'[v] = tx[v]
      /\ rev' \in [Reverters -> RevRow]
  BY <1>1
<1>3. JoinedIsOpen'
  BY <1>2 DEF AuditInv, JoinedIsOpen
<1>4. RevertSees'
  BY DEF AuditInv, RevertSees, Audit!Of
<1>5. LockedAlone'
  <2>1. ASSUME NEW r \in Reverters, rev[r].at = "locked", NEW v \in Writers
        PROVE  tx'[v].op # rev[r].op
    <3>1. tx[v].op # rev[r].op /\ tx[w].op # rev[r].op /\ rev[r].op \in DOMAIN ops
      BY <2>1 DEF AuditInv, LockedAlone, RevertSees
    <3>2. Audit!None \notin DOMAIN ops
      BY AuditTypes DEF AuditInv
    <3>3. QED
      BY <1>2, <2>1, <3>1, <3>2
  <2>2. QED
    BY <2>1 DEF AuditInv, LockedAlone
<1>6. QED
  BY <1>2, <1>3, <1>4, <1>5, QuietStep

LEMMA IdleTx ==
  ASSUME Audit!AuditRevertAssumption
  PROVE  Audit!NoTx \in TxRow /\ Audit!NoTx.at = "idle" /\ Audit!NoTx.op = Audit!None
BY DEF Audit!AuditRevertAssumption, Audit!NoTx, TxRow

LEMMA JoinStep ==
  ASSUME Audit!AuditRevertAssumption, AuditInv, NEW w \in Writers, NEW k \in Keys \cup {Audit!NoKey},
         Audit!ensureOperation(w, k)
  PROVE  AuditInv'
<1> DEFINE existing == {o \in DOMAIN ops : k # Audit!NoKey /\ ops[o].key = k}
           op == IF \E o \in existing : Audit!canJoinOperation(o) THEN CHOOSE o \in existing : TRUE ELSE Audit!None
           t == [Audit!NoTx EXCEPT !.at = "joined", !.key = k, !.op = op]
<1>1. /\ \A r \in Reverters : rev[r].at = "locked" => rev[r].op \notin existing
      /\ tx' = [tx EXCEPT ![w] = t] /\ UNCHANGED <<value, ops, entries, rev>>
  BY DEF Audit!ensureOperation
<1>2. op # Audit!None => op \in existing /\ Audit!canJoinOperation(op)
  <2> SUFFICES ASSUME NEW o \in existing, Audit!canJoinOperation(o)
               PROVE  LET c == CHOOSE x \in existing : TRUE IN c \in existing /\ Audit!canJoinOperation(c)
    OBVIOUS
  <2>1. \A p \in existing : p = o
    BY DEF AuditInv, Audit!TypeOK
  <2>2. (CHOOSE x \in existing : TRUE) \in existing
    OBVIOUS
  <2>3. QED
    BY <2>1, <2>2
<1>3. op \in {Audit!None} \cup DOMAIN ops
  BY <1>2
<1> HIDE DEF op, existing
<1>4. t \in TxRow /\ t.at = "joined" /\ t.op = op
  BY <1>3 DEF Audit!NoTx, TxRow, Audit!AuditRevertAssumption
<1> HIDE DEF t
<1>5. QED
  BY <1>1, <1>2, <1>4, ChangeMoves DEF Audit!canJoinOperation

LEMMA ReadStep ==
  ASSUME Audit!AuditRevertAssumption, AuditInv, NEW w \in Writers, NEW x \in Records, Audit!readCurrent(w, x)
  PROVE  AuditInv'
<1> DEFINE t == [tx[w] EXCEPT !.at = "read", !.rec = x, !.old = value[x]]
<1>1. tx \in [Writers -> TxRow] /\ value \in [Records -> Values]
  BY AuditTypes DEF AuditInv, Audit!TypeOK
<1>2. tx' = [tx EXCEPT ![w] = t] /\ UNCHANGED <<value, ops, entries, rev>>
  BY <1>1 DEF Audit!readCurrent
<1>3. tx[w] \in TxRow /\ value[x] \in Values
  BY <1>1
<1>4. t \in TxRow /\ t.rec = x /\ t.op = tx[w].op
  BY <1>3 DEF TxRow
<1> HIDE DEF t
<1>5. QED
  BY <1>2, <1>4, ChangeMoves

LEMMA AbandonStep ==
  ASSUME Audit!AuditRevertAssumption, AuditInv, NEW w \in Writers, Audit!abandon(w)
  PROVE  AuditInv'
<1>1. tx' = [tx EXCEPT ![w] = Audit!NoTx] /\ UNCHANGED <<value, ops, entries, rev>>
  BY DEF Audit!abandon
<1>2. QED
  BY <1>1, IdleTx, ChangeMoves

\* A revert takes a step of its own.
LEMMA RevertMoves ==
  ASSUME Audit!AuditRevertAssumption, AuditInv, UNCHANGED <<value, ops, entries, tx>>,
         NEW r \in Reverters, NEW b \in RevRow, rev' = [rev EXCEPT ![r] = b],
         b.at # "idle" =>
           /\ b.op \in DOMAIN ops /\ b.chosen \subseteq Audit!Of(b.op) /\ b.chosen \subseteq b.seen
           /\ "operation" \notin b.changed => b.seen = Audit!Of(b.op)
           /\ \A x \in Records : x \notin b.changed => b.saw[x] = value[x],
         b.at = "locked" =>
           /\ "operation" \notin b.changed
           /\ \A w \in Writers : tx[w].op # b.op
           /\ \A q \in Reverters : rev[q].at = "locked" => rev[q].op # b.op
  PROVE  AuditInv'
<1>1. tx \in [Writers -> TxRow] /\ rev \in [Reverters -> RevRow]
  BY AuditTypes DEF AuditInv
<1>2. /\ rev' \in [Reverters -> RevRow] /\ rev'[r] = b /\ \A q \in Reverters : q # r => rev'[q] = rev[q]
      /\ tx' \in [Writers -> TxRow]
  BY <1>1
<1>3. JoinedIsOpen'
  BY DEF AuditInv, JoinedIsOpen
<1>4. RevertSees'
  <2> SUFFICES ASSUME NEW q \in Reverters, rev'[q].at # "idle"
               PROVE  /\ rev'[q].op \in DOMAIN ops /\ rev'[q].chosen \subseteq Audit!Of(rev'[q].op)
                      /\ rev'[q].chosen \subseteq rev'[q].seen
                      /\ "operation" \notin rev'[q].changed => rev'[q].seen = Audit!Of(rev'[q].op)
                      /\ \A x \in Records : x \notin rev'[q].changed => rev'[q].saw[x] = value[x]
    BY DEF RevertSees, Audit!Of
  <2>1. CASE q = r
    BY <1>2, <2>1
  <2>2. CASE q # r
    BY <1>2, <2>2 DEF AuditInv, RevertSees
  <2>3. QED
    BY <2>1, <2>2
<1>5. LockedAlone'
  BY <1>2 DEF AuditInv, LockedAlone
<1>6. QED
  BY <1>2, <1>3, <1>4, <1>5, QuietStep

LEMMA IdleRevert ==
  ASSUME Audit!AuditRevertAssumption
  PROVE  Audit!NoRevert \in RevRow /\ Audit!NoRevert.at = "idle"
BY DEF Audit!AuditRevertAssumption, Audit!NoRevert, RevRow

LEMMA BeginRevertStep ==
  ASSUME Audit!AuditRevertAssumption, AuditInv, NEW r \in Reverters, NEW o \in DOMAIN ops,
         NEW chosen \in SUBSET Audit!Of(o), NEW force \in BOOLEAN, Audit!beginRevert(r, o, chosen, force)
  PROVE  AuditInv'
<1> DEFINE b == [at |-> "begun", op |-> o, chosen |-> chosen, seen |-> Audit!Of(o), saw |-> value,
                 force |-> force, changed |-> {}]
<1>1. rev' = [rev EXCEPT ![r] = b] /\ UNCHANGED <<value, ops, entries, tx>>
  BY DEF Audit!beginRevert
<1>2. value \in [Records -> Values] /\ Audit!Of(o) \in SUBSET DOMAIN entries
  BY DEF AuditInv, Audit!TypeOK, Audit!Of
<1>3. b \in RevRow
  BY <1>2 DEF RevRow
<1>4. /\ b.at = "begun" /\ b.op = o /\ b.chosen = chosen /\ b.seen = Audit!Of(o) /\ b.saw = value
  OBVIOUS
<1> HIDE DEF b
<1>5. QED
  BY <1>1, <1>3, <1>4, RevertMoves

LEMMA LockStep ==
  ASSUME Audit!AuditRevertAssumption, AuditInv, NEW r \in Reverters, Audit!lockTarget(r)
  PROVE  AuditInv'
<1> DEFINE b == IF "operation" \in rev[r].changed THEN Audit!NoRevert ELSE [rev[r] EXCEPT !.at = "locked"]
<1>1. rev \in [Reverters -> RevRow]
  BY AuditTypes DEF AuditInv
<1>2. /\ rev[r].at = "begun" /\ rev' = [rev EXCEPT ![r] = b] /\ UNCHANGED <<value, ops, entries, tx>>
      /\ \A w \in Writers : tx[w].op # rev[r].op
      /\ \A q \in Reverters : rev[q].at = "locked" => rev[q].op # rev[r].op
  BY <1>1 DEF Audit!lockTarget
<1>3. /\ rev[r].op \in DOMAIN ops /\ rev[r].chosen \subseteq Audit!Of(rev[r].op) /\ rev[r].chosen \subseteq rev[r].seen
      /\ "operation" \notin rev[r].changed => rev[r].seen = Audit!Of(rev[r].op)
      /\ \A x \in Records : x \notin rev[r].changed => rev[r].saw[x] = value[x]
  BY <1>2 DEF AuditInv, RevertSees
<1>4. CASE "operation" \in rev[r].changed
  BY <1>2, <1>4, IdleRevert, RevertMoves
<1>5. CASE "operation" \notin rev[r].changed
  <2>1. rev[r] \in RevRow
    BY <1>1
  <2>2. /\ b \in RevRow /\ b.at = "locked" /\ b.op = rev[r].op /\ b.chosen = rev[r].chosen /\ b.seen = rev[r].seen
        /\ b.saw = rev[r].saw /\ b.changed = rev[r].changed
    BY <1>5, <2>1 DEF RevRow
  <2> HIDE DEF b
  <2>3. QED
    BY <1>2, <1>3, <1>5, <2>2, RevertMoves
<1>6. QED
  BY <1>4, <1>5

LEMMA RefuseRevertStep ==
  ASSUME Audit!AuditRevertAssumption, AuditInv, NEW r \in Reverters, Audit!refuse(r)
  PROVE  AuditInv'
<1>1. rev' = [rev EXCEPT ![r] = Audit!NoRevert] /\ UNCHANGED <<value, ops, entries, tx>>
  BY DEF Audit!refuse
<1>2. QED
  BY <1>1, IdleRevert, RevertMoves

\* A key that expires closes an operation to those that have not joined it.
LEMMA ExpireStep ==
  ASSUME Audit!AuditRevertAssumption, AuditInv, NEW o \in DOMAIN ops, Audit!expireKey(o)
  PROVE  AuditInv'
<1> DEFINE row == [ops[o] EXCEPT !.expired = TRUE]
<1>1. /\ ops \in Seq(Audit!Operation) /\ Len(ops) <= MaxOperations /\ ops[o] \in Audit!Operation
      /\ tx \in [Writers -> TxRow] /\ rev \in [Reverters -> RevRow]
  BY AuditTypes DEF AuditInv, Audit!TypeOK
<1>2. /\ row \in Audit!Operation /\ row.key = ops[o].key /\ row.reverts = ops[o].reverts /\ row.by = ops[o].by
      /\ row.partial = ops[o].partial
  BY <1>1 DEF Audit!Operation
<1>3. ops' = [ops EXCEPT ![o] = row] /\ UNCHANGED <<value, entries, tx, rev>>
  BY <1>1 DEF Audit!expireKey
<1> HIDE DEF row
<1>4. /\ ops' \in Seq(Audit!Operation) /\ Len(ops') = Len(ops) /\ DOMAIN ops' = DOMAIN ops
  BY <1>1, <1>2, <1>3
<1>5. \A p \in DOMAIN ops : /\ ops'[p].key = ops[p].key /\ ops'[p].reverts = ops[p].reverts
                            /\ ops'[p].by = ops[p].by /\ ops'[p].partial = ops[p].partial
  BY <1>1, <1>2, <1>3
<1>6. Audit!TypeOK'
  BY <1>1, <1>3, <1>4, <1>5 DEF AuditInv, Audit!TypeOK
<1>7. Audit!MarkersTellCoverage'
  BY <1>3, <1>4, <1>5 DEF AuditInv, Audit!MarkersTellCoverage, Audit!Of, Audit!Reverting, Audit!snapshotsDiffer
<1>8. Audit!RevertedAtMostOnce' /\ PutBackDiffered'
  BY <1>3 DEF AuditInv, Audit!RevertedAtMostOnce, PutBackDiffered, Audit!snapshotsDiffer
<1>9. JoinedIsOpen'
  <2>1. \A w \in Writers : tx[w].op \in {Audit!None} \cup DOMAIN ops
    BY <1>1 DEF TxRow
  <2>2. QED
    BY <1>3, <1>5, <2>1 DEF AuditInv, JoinedIsOpen
<1>10. RevertSees' /\ LockedAlone'
  BY <1>3, <1>4 DEF AuditInv, RevertSees, LockedAlone, Audit!Of
<1>11. QED
  BY <1>6, <1>7, <1>8, <1>9, <1>10 DEF AuditInv

-----------------------------------------------------------------------------
(* Steps that log.                                                         *)

\* The log grows.
LEMMA Grows ==
  ASSUME Audit!AuditRevertAssumption, AuditInv, NEW es \in Seq(Audit!Entry), entries' = entries \o es
  PROVE  /\ entries' \in Seq(Audit!Entry) /\ Len(entries') = Len(entries) + Len(es)
         /\ DOMAIN entries' = 1 .. Len(entries) + Len(es) /\ DOMAIN entries \subseteq DOMAIN entries'
         /\ \A i \in DOMAIN entries : entries'[i] = entries[i]
         /\ \A i \in DOMAIN entries' \ DOMAIN entries : i - Len(entries) \in DOMAIN es /\ entries'[i] = es[i - Len(entries)]
<1>1. entries \in Seq(Audit!Entry) /\ Len(entries) \in Nat /\ Len(es) \in Nat
  BY DEF AuditInv, Audit!TypeOK
<1>2. DOMAIN entries = 1 .. Len(entries) /\ DOMAIN es = 1 .. Len(es)
  BY <1>1
<1>3. /\ entries' \in Seq(Audit!Entry) /\ Len(entries') = Len(entries) + Len(es)
      /\ \A i \in 1 .. Len(entries) + Len(es) : entries'[i] = IF i <= Len(entries) THEN entries[i] ELSE es[i - Len(entries)]
  BY <1>1
<1>4. DOMAIN entries' = 1 .. Len(entries) + Len(es)
  BY <1>3
<1>5. QED
  BY <1>1, <1>2, <1>3, <1>4

\* What is logged under an operation disturbs the reverts of it, and what is
\* written those that have seen it.
LogStep(others, recs, o, es) ==
  /\ others \in SUBSET Reverters /\ recs \in SUBSET Records
  /\ Audit!Disturb(others, recs, o)
  /\ es \in Seq(Audit!Entry) /\ entries' = entries \o es
  /\ \A i \in DOMAIN es : es[i].op = o \/ es[i].op \notin DOMAIN ops
  /\ DOMAIN ops \subseteq DOMAIN ops'
  /\ \A x \in Records \ recs : value'[x] = value[x]
  /\ \A w \in Writers : tx'[w].op \in {Audit!None, tx[w].op}
  /\ \A q \in others : rev[q].at = "locked" => rev[q].op # o

LEMMA LogKeeps ==
  ASSUME Audit!AuditRevertAssumption, AuditInv, NEW others, NEW recs, NEW o, NEW es, LogStep(others, recs, o, es)
  PROVE  /\ rev' \in [Reverters -> RevRow'] /\ RevertSees' /\ LockedAlone'
         /\ \A p \in DOMAIN ops : Audit!Of(p) \subseteq Audit!Of(p)' /\ (p # o => Audit!Of(p)' = Audit!Of(p))
<1> USE DEF LogStep
<1>1. rev \in [Reverters -> RevRow] /\ "operation" \notin Records /\ Audit!None \notin DOMAIN ops
  BY AuditTypes DEF AuditInv
<1>2. /\ DOMAIN entries \subseteq DOMAIN entries'
      /\ \A i \in DOMAIN entries : entries'[i] = entries[i]
      /\ \A i \in DOMAIN entries' \ DOMAIN entries : entries'[i].op = o \/ entries'[i].op \notin DOMAIN ops
  BY Grows
<1>3. \A p \in DOMAIN ops : Audit!Of(p) \subseteq Audit!Of(p)' /\ (p # o => Audit!Of(p)' = Audit!Of(p))
  BY <1>2 DEF Audit!Of
<1> DEFINE Next(q) == IF q \notin others THEN Audit!NoRevert
                      ELSE IF rev[q].at = "idle" THEN rev[q]
                      ELSE [rev[q] EXCEPT !.changed = @ \cup recs \cup (IF rev[q].op = o THEN {"operation"} ELSE {})]
<1>4. \A q \in Reverters : rev'[q] = Next(q)
  BY DEF Audit!Disturb
<1>5. ASSUME NEW q \in Reverters
      PROVE  /\ rev'[q] \in RevRow'
             /\ rev'[q].at # "idle" =>
                  /\ q \in others
                  /\ rev'[q].at = rev[q].at /\ rev'[q].op = rev[q].op /\ rev'[q].chosen = rev[q].chosen
                  /\ rev'[q].seen = rev[q].seen /\ rev'[q].saw = rev[q].saw
                  /\ rev'[q].changed = rev[q].changed \cup recs \cup (IF rev[q].op = o THEN {"operation"} ELSE {})
  <2>1. rev[q] \in RevRow
    BY <1>1
  <2>2. Audit!NoRevert \in RevRow /\ Audit!NoRevert.at = "idle"
    BY IdleRevert
  <2>3. \A x \in RevRow : x \in RevRow'
    BY <1>2 DEF RevRow
  <2>4. LET c == rev[q].changed \cup recs \cup (IF rev[q].op = o THEN {"operation"} ELSE {})
            y == [rev[q] EXCEPT !.changed = c]
        IN  /\ y \in RevRow /\ y.at = rev[q].at /\ y.op = rev[q].op /\ y.chosen = rev[q].chosen /\ y.seen = rev[q].seen
            /\ y.saw = rev[q].saw /\ y.changed = c
    BY <2>1 DEF RevRow
  <2>5. CASE q \notin others
    BY <1>4, <2>2, <2>3, <2>5
  <2>6. CASE q \in others /\ rev[q].at = "idle"
    BY <1>4, <2>1, <2>3, <2>6
  <2>7. CASE q \in others /\ rev[q].at # "idle"
    BY <1>4, <2>3, <2>4, <2>7
  <2>8. QED
    BY <2>5, <2>6, <2>7
<1>6. rev' \in [Reverters -> RevRow']
  BY <1>5 DEF Audit!Disturb
<1> DEFINE Later(p) == {i \in DOMAIN entries' : entries'[i].op = p}
<1>7. RevertSees'
  <2> SUFFICES ASSUME NEW q \in Reverters, rev'[q].at # "idle"
               PROVE  /\ rev'[q].op \in DOMAIN ops' /\ rev'[q].chosen \subseteq Later(rev'[q].op)
                      /\ rev'[q].chosen \subseteq rev'[q].seen
                      /\ "operation" \notin rev'[q].changed => rev'[q].seen = Later(rev'[q].op)
                      /\ \A x \in Records : x \notin rev'[q].changed => rev'[q].saw[x] = value'[x]
    BY DEF RevertSees, Audit!Of
  <2>1. /\ rev[q].op \in DOMAIN ops /\ rev[q].chosen \subseteq Audit!Of(rev[q].op) /\ rev[q].chosen \subseteq rev[q].seen
        /\ "operation" \notin rev[q].changed => rev[q].seen = Audit!Of(rev[q].op)
        /\ \A x \in Records : x \notin rev[q].changed => rev[q].saw[x] = value[x]
    BY <1>5 DEF AuditInv, RevertSees
  <2>2. \A p \in DOMAIN ops : Audit!Of(p) \subseteq Later(p) /\ (p # o => Later(p) = Audit!Of(p))
    BY <1>3 DEF Audit!Of
  <2>3. /\ rev'[q].op = rev[q].op /\ rev'[q].chosen = rev[q].chosen /\ rev'[q].seen = rev[q].seen /\ rev'[q].saw = rev[q].saw
        /\ rev'[q].changed = rev[q].changed \cup recs \cup (IF rev[q].op = o THEN {"operation"} ELSE {})
    BY <1>5
  <2> HIDE DEF Later
  <2>4. /\ rev'[q].op \in DOMAIN ops' /\ rev'[q].chosen \subseteq Later(rev'[q].op) /\ rev'[q].chosen \subseteq rev'[q].seen
    BY <2>1, <2>2, <2>3
  <2>5. "operation" \notin rev'[q].changed => rev'[q].seen = Later(rev'[q].op)
    BY <2>1, <2>2, <2>3
  <2>6. \A x \in Records : x \notin rev'[q].changed => rev'[q].saw[x] = value'[x]
    BY <2>1, <2>3
  <2>7. QED
    BY <2>4, <2>5, <2>6
<1>8. LockedAlone'
  <2> SUFFICES ASSUME NEW q \in Reverters, rev'[q].at = "locked"
               PROVE  /\ "operation" \notin rev'[q].changed
                      /\ \A w \in Writers : tx'[w].op # rev'[q].op
                      /\ \A p \in Reverters : rev'[p].at = "locked" /\ rev'[p].op = rev'[q].op => p = q
    BY DEF LockedAlone
  <2>1. /\ q \in others /\ rev[q].at = "locked" /\ rev'[q].op = rev[q].op /\ rev[q].op # o /\ rev[q].op \in DOMAIN ops
        /\ rev'[q].changed = rev[q].changed \cup recs
    BY <1>5 DEF AuditInv, RevertSees
  <2>2. "operation" \notin rev'[q].changed
    BY <1>1, <2>1 DEF AuditInv, LockedAlone
  <2>3. \A w \in Writers : tx'[w].op # rev'[q].op
    BY <1>1, <2>1 DEF AuditInv, LockedAlone
  <2>4. \A p \in Reverters : rev'[p].at = "locked" /\ rev'[p].op = rev'[q].op => p = q
    BY <1>5, <2>1 DEF AuditInv, LockedAlone
  <2>5. QED
    BY <2>2, <2>3, <2>4
<1>9. QED
  BY <1>3, <1>6, <1>7, <1>8

\* An open operation has nothing that was put back.
LEMMA OpenIsUnreverted ==
  ASSUME Audit!AuditRevertAssumption, AuditInv, NEW o \in DOMAIN ops,
         ops[o].reverts = Audit!None, ops[o].by = Audit!None, ops[o].partial = {}
  PROVE  Audit!Reverting(o) = {}
<1> DEFINE due == {i \in Audit!Of(o) : Audit!snapshotsDiffer(i)}
           done == {i \in due : \E j \in DOMAIN entries : entries[j].reverts = i /\ entries[j].whole}
<1>1. /\ ~(due # {} /\ due = done)
      /\ ~(Audit!Reverting(o) # {} /\ due # done)
  BY DEF AuditInv, Audit!MarkersTellCoverage
<1>2. ASSUME NEW j \in Audit!Reverting(o)
      PROVE  due # {}
  <2>1. j \in DOMAIN entries /\ entries[j].reverts \in Audit!Of(o)
    BY DEF Audit!Reverting
  <2>2. entries[j].reverts # Audit!None
    BY <2>1, AuditTypes DEF AuditInv, Audit!Of
  <2>3. entries[j].reverts \in due
    BY <2>1, <2>2 DEF AuditInv, PutBackDiffered
  <2>4. QED
    BY <2>3
<1>3. QED
  BY <1>1, <1>2

\* What the step of a change says of the log.
LEMMA RunFacts ==
  ASSUME Audit!AuditRevertAssumption, AuditInv, NEW w \in Writers, NEW v \in Values, Audit!runAuditedOperation(w, v)
  PROVE  \E o \in 1 .. MaxOperations, e \in Audit!Entry :
           /\ tx[w].at = "read" /\ tx[w].rec \in Records
           /\ e.op = o /\ e.reverts = Audit!None
           /\ entries' = entries \o <<e>> /\ Len(entries) < MaxEntries
           /\ o = IF tx[w].op = Audit!None THEN Len(ops) + 1 ELSE tx[w].op
           /\ ops' = IF tx[w].op = Audit!None THEN Append(ops, Audit!createOperation(tx[w].key)) ELSE ops
           /\ value' = [value EXCEPT ![tx[w].rec] = v]
           /\ tx' = [tx EXCEPT ![w] = Audit!NoTx]
           /\ Audit!Disturb(Reverters, {tx[w].rec}, o)
<1> DEFINE o == IF tx[w].op = Audit!None THEN Len(ops) + 1 ELSE tx[w].op
           e == [op |-> o, rec |-> tx[w].rec, old |-> tx[w].old, new |-> v, reverts |-> Audit!None, whole |-> TRUE]
<1>1. tx[w] \in TxRow /\ tx[w].at = "read" /\ tx[w].rec \in Records
  BY AuditTypes DEF AuditInv, JoinedIsOpen, Audit!runAuditedOperation
<1>2. o \in 1 .. MaxOperations
  BY <1>1, AuditTypes DEF AuditInv, Audit!runAuditedOperation, TxRow
<1>3. e \in Audit!Entry
  BY <1>1, <1>2, AuditTypes DEF AuditInv, Audit!Entry, TxRow
<1>4. entries' = Append(entries, e) /\ entries \in Seq(Audit!Entry) /\ Len(entries) < MaxEntries
  BY DEF Audit!runAuditedOperation, AuditInv, Audit!TypeOK
<1>5. e.op = o /\ e.reverts = Audit!None
  OBVIOUS
<1>6. /\ ops' = IF tx[w].op = Audit!None THEN Append(ops, Audit!createOperation(tx[w].key)) ELSE ops
      /\ value' = [value EXCEPT ![tx[w].rec] = v]
      /\ tx' = [tx EXCEPT ![w] = Audit!NoTx]
      /\ Audit!Disturb(Reverters, {tx[w].rec}, o)
  BY DEF Audit!runAuditedOperation, Audit!touched
<1>7. o = IF tx[w].op = Audit!None THEN Len(ops) + 1 ELSE tx[w].op
  OBVIOUS
<1> HIDE DEF o, e
<1>8. entries' = entries \o <<e>>
  BY <1>3, <1>4
<1>9. QED
  BY <1>1, <1>2, <1>3, <1>4, <1>5, <1>6, <1>7, <1>8

\* The markers of one operation, and what has been put back of it.
Due(p) == {i \in Audit!Of(p) : Audit!snapshotsDiffer(i)}
Done(p) == {i \in Due(p) : \E j \in DOMAIN entries : entries[j].reverts = i /\ entries[j].whole}
MarkersTell(p) ==
  ops[p].reverts = Audit!None =>
    /\ ops[p].by # Audit!None <=> Due(p) # {} /\ Due(p) = Done(p)
    /\ ops[p].partial # {} <=> Audit!Reverting(p) # {} /\ Due(p) # Done(p)

LEMMA MarkersOneByOne ==
  /\ Audit!MarkersTellCoverage <=> \A p \in DOMAIN ops : MarkersTell(p)
  /\ Audit!MarkersTellCoverage' <=> \A p \in DOMAIN ops' : MarkersTell(p)'
BY DEF Audit!MarkersTellCoverage, MarkersTell, Due, Done

\* The markers of an operation that nothing was logged under and of which
\* nothing was put back hold still.
LEMMA MarkersStay ==
  ASSUME Audit!AuditRevertAssumption, AuditInv, NEW es \in Seq(Audit!Entry), entries' = entries \o es,
         NEW p \in DOMAIN ops, Audit!Of(p)' = Audit!Of(p),
         ops'[p].reverts = ops[p].reverts, ops'[p].by = ops[p].by, ops'[p].partial = ops[p].partial,
         \A j \in DOMAIN entries' \ DOMAIN entries : entries'[j].reverts \notin Audit!Of(p)
  PROVE  MarkersTell(p)' /\ Audit!Reverting(p)' = Audit!Reverting(p)
<1>1. /\ DOMAIN entries \subseteq DOMAIN entries'
      /\ \A i \in DOMAIN entries : entries'[i] = entries[i]
  BY Grows
<1>2. Audit!Of(p) \subseteq DOMAIN entries
  BY DEF Audit!Of
<1>3. Due(p)' = Due(p)
  BY <1>1, <1>2 DEF Due, Audit!snapshotsDiffer
<1>4. Due(p) \subseteq Audit!Of(p)
  BY DEF Due
<1>5. Done(p)' = Done(p)
  <2>1. \A i \in Due(p) : (\E j \in DOMAIN entries' : entries'[j].reverts = i /\ entries'[j].whole)
                            <=> (\E j \in DOMAIN entries : entries[j].reverts = i /\ entries[j].whole)
    BY <1>1, <1>4
  <2>2. QED
    BY <1>3, <2>1 DEF Done
<1>6. Audit!Reverting(p)' = Audit!Reverting(p)
  BY <1>1 DEF Audit!Reverting
<1>7. MarkersTell(p)
  BY MarkersOneByOne DEF AuditInv
<1>8. QED
  BY <1>3, <1>5, <1>6, <1>7 DEF MarkersTell

\* What is logged without putting anything back leaves every entry as reverted
\* as it was.
LEMMA LoggedIsUnreverted ==
  ASSUME Audit!AuditRevertAssumption, AuditInv, NEW e \in Audit!Entry, e.reverts = Audit!None, entries' = entries \o <<e>>
  PROVE  /\ Audit!RevertedAtMostOnce' /\ PutBackDiffered'
         /\ \A p \in 1 .. MaxOperations : Audit!Reverting(p) = {} => Audit!Reverting(p)' = {}
<1>1. /\ <<e>> \in Seq(Audit!Entry) /\ DOMAIN <<e>> = {1} /\ <<e>>[1] = e
  OBVIOUS
<1>2. /\ DOMAIN entries \subseteq DOMAIN entries' /\ DOMAIN entries' = 1 .. Len(entries) + 1
      /\ \A i \in DOMAIN entries : entries'[i] = entries[i]
      /\ \A i \in DOMAIN entries' \ DOMAIN entries : entries'[i] = e
  BY <1>1, Grows
<1>3. DOMAIN entries = 1 .. Len(entries) /\ Len(entries) \in Nat
  BY AuditTypes DEF AuditInv
<1>4. \A j \in DOMAIN entries' : entries'[j].reverts # Audit!None =>
         /\ j \in DOMAIN entries /\ entries'[j] = entries[j] /\ entries[j].reverts \in DOMAIN entries
  <2>1. \A j \in DOMAIN entries : entries[j].reverts \in 0 .. MaxEntries /\ entries[j].reverts < j
    BY AuditTypes DEF AuditInv, Audit!TypeOK, Audit!Entry
  <2>2. MaxEntries \in Nat
    BY AuditTypes DEF AuditInv
  <2>3. QED
    BY <1>2, <1>3, <2>1, <2>2 DEF Audit!None
<1>5. Audit!RevertedAtMostOnce'
  BY <1>4 DEF AuditInv, Audit!RevertedAtMostOnce
<1>6. PutBackDiffered'
  <2>1. \A i \in DOMAIN entries : Audit!snapshotsDiffer(i)' = Audit!snapshotsDiffer(i)
    BY <1>2 DEF Audit!snapshotsDiffer
  <2>2. QED
    BY <1>2, <1>4 DEF AuditInv, PutBackDiffered, Audit!snapshotsDiffer
<1>7. ASSUME NEW p \in 1 .. MaxOperations, Audit!Reverting(p) = {}
      PROVE  Audit!Reverting(p)' = {}
  <2>1. Audit!None \notin Audit!Of(p)'
    BY <1>2, <1>3 DEF Audit!Of, Audit!None
  <2>2. QED
    BY <1>2, <1>4, <1>7, <2>1 DEF Audit!Reverting, Audit!Of
<1>8. QED
  BY <1>5, <1>6, <1>7

LEMMA RunStep ==
  ASSUME Audit!AuditRevertAssumption, AuditInv, NEW w \in Writers, NEW v \in Values, Audit!runAuditedOperation(w, v)
  PROVE  AuditInv' /\ \A p \in DOMAIN ops : Audit!Reverting(p) # {} => Audit!Of(p)' = Audit!Of(p)
<1>1. PICK o \in 1 .. MaxOperations, e \in Audit!Entry :
        /\ tx[w].at = "read" /\ tx[w].rec \in Records
        /\ e.op = o /\ e.reverts = Audit!None
        /\ entries' = entries \o <<e>> /\ Len(entries) < MaxEntries
        /\ o = IF tx[w].op = Audit!None THEN Len(ops) + 1 ELSE tx[w].op
        /\ ops' = IF tx[w].op = Audit!None THEN Append(ops, Audit!createOperation(tx[w].key)) ELSE ops
        /\ value' = [value EXCEPT ![tx[w].rec] = v]
        /\ tx' = [tx EXCEPT ![w] = Audit!NoTx]
        /\ Audit!Disturb(Reverters, {tx[w].rec}, o)
  BY RunFacts
<1>2. /\ tx \in [Writers -> TxRow] /\ value \in [Records -> Values] /\ ops \in Seq(Audit!Operation)
      /\ Len(ops) \in Nat /\ DOMAIN ops = 1 .. Len(ops) /\ Len(ops) <= MaxOperations
      /\ Len(entries) \in Nat /\ DOMAIN entries = 1 .. Len(entries)
      /\ Audit!None = 0 /\ MaxOperations \in Nat /\ MaxEntries \in Nat
      /\ \A x, y \in DOMAIN ops : ops[x].key = ops[y].key /\ ops[x].key # Audit!NoKey => x = y
      /\ \A i \in DOMAIN entries : entries[i].op \in DOMAIN ops /\ entries[i].reverts < i
  BY AuditTypes DEF AuditInv, Audit!TypeOK
<1>3. tx[w] \in TxRow /\ tx[w].key \in Keys \cup {Audit!NoKey} /\ tx[w].op \in {Audit!None} \cup DOMAIN ops
  BY <1>2 DEF TxRow
<1> DEFINE c == Audit!createOperation(tx[w].key)
<1>4. c \in Audit!Operation /\ c.reverts = Audit!None /\ c.by = Audit!None /\ c.partial = {}
  BY <1>2, <1>3 DEF Audit!createOperation, Audit!Operation
<1>5. \A x \in DOMAIN ops : c.key # Audit!NoKey => ops[x].key # c.key
  BY DEF Audit!createOperation
<1> HIDE DEF c
<1>6. /\ ops' \in Seq(Audit!Operation) /\ DOMAIN ops' = 1 .. Len(ops') /\ Len(ops') <= MaxOperations
      /\ DOMAIN ops \subseteq DOMAIN ops' /\ o \in DOMAIN ops' /\ DOMAIN ops' \subseteq DOMAIN ops \cup {o}
      /\ \A p \in DOMAIN ops : ops'[p] = ops[p]
      /\ ops'[o].reverts = Audit!None /\ ops'[o].by = Audit!None /\ ops'[o].partial = {}
      /\ o \notin DOMAIN ops => ops'[o] = c
  <2>1. CASE tx[w].op = Audit!None
    <3>1. ops' = Append(ops, c) /\ o = Len(ops) + 1
      BY <1>1, <2>1 DEF c
    <3>2. Len(ops') = Len(ops) + 1 /\ ops' \in Seq(Audit!Operation) /\ ops'[Len(ops) + 1] = c
          /\ \A p \in 1 .. Len(ops) : ops'[p] = ops[p]
      BY <1>2, <1>4, <3>1
    <3>3. DOMAIN ops' = 1 .. Len(ops')
      BY <3>2
    <3>4. QED
      BY <1>1, <1>2, <1>4, <3>1, <3>2, <3>3
  <2>2. CASE tx[w].op # Audit!None
    <3>1. ops' = ops /\ o = tx[w].op /\ o \in DOMAIN ops
      BY <1>1, <1>3, <2>2
    <3>2. ops[o].reverts = Audit!None /\ ops[o].by = Audit!None /\ ops[o].partial = {}
      BY <2>2, <3>1 DEF AuditInv, JoinedIsOpen
    <3>3. QED
      BY <1>2, <3>1, <3>2
  <2>3. QED
    BY <2>1, <2>2
<1>7. <<e>> \in Seq(Audit!Entry) /\ DOMAIN <<e>> = {1} /\ <<e>>[1] = e
  OBVIOUS
<1>8. \A i \in DOMAIN <<e>> : <<e>>[i].op = o \/ <<e>>[i].op \notin DOMAIN ops
  BY <1>1, <1>7
<1>9. \A q \in Reverters : rev[q].at = "locked" => rev[q].op # o
  BY <1>1, <1>2 DEF AuditInv, LockedAlone, RevertSees
<1>10. \A x \in Records \ {tx[w].rec} : value'[x] = value[x]
  BY <1>1, <1>2
<1>11. \A u \in Writers : tx'[u].op \in {Audit!None, tx[u].op} /\ tx'[u] \in {Audit!NoTx, tx[u]}
  BY <1>1, <1>2, IdleTx
<1>12. /\ rev' \in [Reverters -> RevRow'] /\ RevertSees' /\ LockedAlone'
       /\ \A p \in DOMAIN ops : Audit!Of(p) \subseteq Audit!Of(p)' /\ (p # o => Audit!Of(p)' = Audit!Of(p))
  <2>1. Reverters \in SUBSET Reverters /\ {tx[w].rec} \in SUBSET Records
    BY <1>1
  <2>2. Audit!Disturb(Reverters, {tx[w].rec}, o) /\ entries' = entries \o <<e>>
    BY <1>1
  <2>3. <<e>> \in Seq(Audit!Entry) /\ \A i \in DOMAIN <<e>> : <<e>>[i].op = o \/ <<e>>[i].op \notin DOMAIN ops
    BY <1>7, <1>8
  <2>4. PICK es \in Seq(Audit!Entry) : es = <<e>>
    BY <2>3
  <2>5. PICK recs \in SUBSET Records : recs = {tx[w].rec}
    BY <2>1
  <2>6. /\ Audit!Disturb(Reverters, recs, o) /\ entries' = entries \o es
        /\ \A i \in DOMAIN es : es[i].op = o \/ es[i].op \notin DOMAIN ops
        /\ \A x \in Records \ recs : value'[x] = value[x]
    BY <1>10, <2>2, <2>3, <2>4, <2>5
  <2>7. DOMAIN ops \subseteq DOMAIN ops' /\ \A u \in Writers : tx'[u].op \in {Audit!None, tx[u].op}
    BY <1>6, <1>11
  <2>8. LogStep(Reverters, recs, o, es)
    BY <1>9, <2>1, <2>6, <2>7 DEF LogStep
  <2>9. QED
    BY <2>8, LogKeeps
<1>13. /\ entries' \in Seq(Audit!Entry) /\ Len(entries') = Len(entries) + 1 /\ DOMAIN entries' = 1 .. Len(entries) + 1
       /\ \A i \in DOMAIN entries : entries'[i] = entries[i]
       /\ entries'[Len(entries) + 1] = e
  <2>1. /\ entries' \in Seq(Audit!Entry) /\ Len(entries') = Len(entries) + 1 /\ DOMAIN entries' = 1 .. Len(entries) + 1
        /\ \A i \in DOMAIN entries : entries'[i] = entries[i]
        /\ \A i \in DOMAIN entries' \ DOMAIN entries : entries'[i] = <<e>>[i - Len(entries)]
    BY <1>1, <1>7, Grows
  <2>2. QED
    BY <1>2, <2>1
<1>14. Audit!TypeOK'
  <2>1. value' \in [Records -> Values]
    BY <1>1, <1>2
  <2>2. \A x, y \in DOMAIN ops' : ops'[x].key = ops'[y].key /\ ops'[x].key # Audit!NoKey => x = y
    BY <1>2, <1>5, <1>6
  <2>3. \A i \in DOMAIN entries' : entries'[i].op \in DOMAIN ops' /\ entries'[i].reverts < i
    BY <1>1, <1>2, <1>6, <1>13
  <2>4. tx' \in [Writers -> TxRow']
    <3>1. \A x \in TxRow : x \in TxRow'
      BY <1>6 DEF TxRow
    <3>2. QED
      BY <1>1, <1>2, <3>1, IdleTx
  <2>5. Len(entries') <= MaxEntries
    BY <1>1, <1>2, <1>13
  <2>6. QED
    BY <1>6, <1>12, <1>13, <2>1, <2>2, <2>3, <2>4, <2>5 DEF Audit!TypeOK, TxRow, RevRow
<1>15. /\ Audit!RevertedAtMostOnce' /\ PutBackDiffered'
       /\ \A p \in 1 .. MaxOperations : Audit!Reverting(p) = {} => Audit!Reverting(p)' = {}
  BY <1>1, LoggedIsUnreverted
<1>16. Audit!Reverting(o) = {}
  <2>1. CASE o \in DOMAIN ops
    BY <1>6, <2>1, OpenIsUnreverted
  <2>2. CASE o \notin DOMAIN ops
    BY <1>2, <2>2 DEF Audit!Reverting, Audit!Of
  <2>3. QED
    BY <2>1, <2>2
<1>17. MarkersTell(o)'
  <2>1. Audit!Reverting(o)' = {}
    BY <1>15, <1>16
  <2>2. Done(o)' = {}
    BY <2>1 DEF Done, Due, Audit!Reverting
  <2>3. QED
    BY <1>6, <2>1, <2>2 DEF MarkersTell
<1>18. ASSUME NEW p \in DOMAIN ops, p # o
       PROVE  MarkersTell(p)'
  <2>1. /\ ops'[p].reverts = ops[p].reverts /\ ops'[p].by = ops[p].by /\ ops'[p].partial = ops[p].partial
        /\ Audit!Of(p)' = Audit!Of(p)
    BY <1>6, <1>12, <1>18
  <2>2. \A j \in DOMAIN entries' \ DOMAIN entries : entries'[j].reverts \notin Audit!Of(p)
    BY <1>1, <1>2, <1>13 DEF Audit!Of
  <2>3. QED
    BY <1>1, <1>7, <1>18, <2>1, <2>2, MarkersStay
<1>19. Audit!MarkersTellCoverage'
  BY <1>6, <1>17, <1>18, MarkersOneByOne
<1>20. JoinedIsOpen'
  BY <1>3, <1>6, <1>11, IdleTx, <1>2 DEF AuditInv, JoinedIsOpen, TxRow
<1>21. QED
  BY <1>12, <1>14, <1>15, <1>16, <1>19, <1>20 DEF AuditInv

-----------------------------------------------------------------------------
(* What a revert writes.                                                   *)

LEMMA SameCount == \A S : Audit!Cardinality(S) = Cardinality(S)
BY DEF Audit!Cardinality, Cardinality, Audit!IsFiniteSet, IsFiniteSet

LEMMA LeastOf ==
  ASSUME NEW S \in SUBSET Nat, S # {}
  PROVE  LET c == CHOOSE i \in S : \A j \in S : i <= j IN c \in S /\ \A j \in S : c <= j
<1> DEFINE R == OpToRel(<, Nat)
<1>1. IsWellFoundedOn(R, Nat)
  BY NatLessThanWellFounded
<1>2. \E i \in S : \A j \in S : ~(<<j, i>> \in R)
  BY <1>1, WFMin
<1>3. \A j, i \in S : j < i => <<j, i>> \in R
  BY DEF OpToRel
<1> HIDE DEF R
<1>4. \A j, i \in S : i <= j \/ j < i
  OBVIOUS
<1>5. \E i \in S : \A j \in S : i <= j
  BY <1>2, <1>3, <1>4
<1>6. QED
  BY <1>5

\* Counted from its greatest element, every element of a finite set of numbers
\* has its place.
AtLeast(S, i) == {j \in S : j >= i}
LEMMA Places ==
  ASSUME NEW S \in SUBSET Nat, IsFiniteSet(S)
  PROVE  /\ Cardinality(S) \in Nat
         /\ \A i \in S : Cardinality(AtLeast(S, i)) \in 1 .. Cardinality(S)
         /\ \A i, j \in S : Cardinality(AtLeast(S, i)) = Cardinality(AtLeast(S, j)) => i = j
         /\ \A k \in 1 .. Cardinality(S) : \E i \in S : Cardinality(AtLeast(S, i)) = k
<1> DEFINE n == Cardinality(S)
           place(i) == Cardinality(AtLeast(S, i))
<1>1. n \in Nat
  BY FS_CardinalityType
<1>2. ASSUME NEW i \in S
      PROVE  /\ AtLeast(S, i) \in SUBSET S /\ i \in AtLeast(S, i) /\ IsFiniteSet(AtLeast(S, i))
             /\ place(i) \in 1 .. n
  <2>1. AtLeast(S, i) \in SUBSET S /\ i \in AtLeast(S, i)
    BY DEF AtLeast
  <2>2. IsFiniteSet(AtLeast(S, i)) /\ place(i) <= n
    BY <2>1, FS_Subset
  <2>3. place(i) \in Nat
    BY <2>2, FS_CardinalityType
  <2>4. place(i) # 0
    BY <2>1, <2>2, FS_EmptySet, Zenon
  <2>5. QED
    BY <1>1, <2>1, <2>2, <2>3, <2>4
<1>3. ASSUME NEW i \in S, NEW j \in S, i < j
      PROVE  place(i) # place(j)
  <2>1. AtLeast(S, j) \in SUBSET AtLeast(S, i) /\ i \notin AtLeast(S, j)
    <3>1. (\A k \in S : k >= j => k >= i) /\ ~(i >= j)
      BY <1>3
    <3>2. QED
      BY <3>1 DEF AtLeast
  <2>2. IsFiniteSet(AtLeast(S, i)) /\ i \in AtLeast(S, i)
    BY <1>2
  <2>3. place(i) = place(j) => AtLeast(S, i) = AtLeast(S, j)
    BY <2>1, <2>2, FS_Subset
  <2>4. QED
    BY <2>1, <2>2, <2>3
<1>4. \A i, j \in S : place(i) = place(j) => i = j
  <2> SUFFICES ASSUME NEW i \in S, NEW j \in S, i # j
               PROVE  place(i) # place(j)
    OBVIOUS
  <2>1. i < j \/ j < i
    OBVIOUS
  <2>2. QED
    BY <1>3, <2>1
<1>5. \A k \in 1 .. n : \E i \in S : place(i) = k
  <2> DEFINE f == [i \in S |-> place(i)]
  <2>1. \A i \in S : place(i) \in 1 .. n
    BY <1>2
  <2> HIDE DEF n, place
  <2>2. f \in [S -> 1 .. n] /\ \A i \in S : f[i] = place(i)
    BY <2>1
  <2> HIDE DEF f
  <2>3. f \in Injection(S, 1 .. n)
    BY <1>4, <2>2 DEF Injection, IsInjective
  <2>4. IsFiniteSet(1 .. n) /\ Cardinality(1 .. n) = n
    BY <1>1, FS_Interval
  <2>5. f \in Surjection(S, 1 .. n)
    BY <2>3, <2>4, FS_Injection DEF n
  <2>6. QED
    BY <2>2, <2>5 DEF Surjection
<1>6. QED
  BY <1>1, <1>2, <1>4, <1>5

\* What a revert that has its row finds to put back.
LEMMA AvailableIs ==
  ASSUME Audit!AuditRevertAssumption, AuditInv, NEW r \in Reverters, rev[r].at = "locked"
  PROVE  /\ rev[r].op \in DOMAIN ops
         /\ Audit!available(r) \in SUBSET Audit!Of(rev[r].op) /\ Audit!available(r) \in SUBSET Nat
         /\ Audit!available(r) \subseteq DOMAIN entries /\ IsFiniteSet(Audit!available(r))
         /\ Audit!available(r) # {} => ops[rev[r].op].reverts = Audit!None
         /\ \A i \in Audit!available(r) :
              /\ i \in rev[r].chosen /\ Audit!snapshotsDiffer(i)
              /\ \A j \in DOMAIN entries : entries[j].reverts # i
<1>1. Len(entries) \in Nat /\ DOMAIN entries = 1 .. Len(entries)
  BY AuditTypes DEF AuditInv
<1>2. rev[r].op \in DOMAIN ops /\ rev[r].chosen \subseteq Audit!Of(rev[r].op)
  BY DEF AuditInv, RevertSees
<1>3. Audit!available(r) \subseteq rev[r].chosen /\ Audit!Of(rev[r].op) \subseteq DOMAIN entries
  BY DEF Audit!available, Audit!Of
<1>4. Audit!available(r) \in SUBSET (1 .. Len(entries))
  BY <1>1, <1>2, <1>3
<1>5. IsFiniteSet(1 .. Len(entries))
  <2>1. ASSUME NEW n \in Nat
        PROVE  IsFiniteSet(1 .. n)
    BY FS_Interval
  <2>2. QED
    BY <1>1, <2>1
<1>6. IsFiniteSet(Audit!available(r))
  BY <1>4, <1>5, FS_Subset
<1>7. \A i \in Audit!available(r) :
        /\ ops[rev[r].op].reverts = Audit!None /\ Audit!snapshotsDiffer(i)
        /\ i \notin Audit!loadActiveRevertCoverage(entries, rev[r].op)
  BY DEF Audit!available
<1>8. \A i \in Audit!available(r) : \A j \in DOMAIN entries : entries[j].reverts # i
  BY <1>1, <1>2, <1>3, <1>7 DEF Audit!loadActiveRevertCoverage, Audit!Of
<1>9. QED
  BY <1>1, <1>2, <1>3, <1>4, <1>6, <1>7, <1>8

LEMMA RestoredIs ==
  ASSUME Audit!AuditRevertAssumption, AuditInv, NEW r \in Reverters, rev[r].at = "locked"
  PROVE  /\ Audit!restored(r) \in [Records -> Values]
         /\ \A x \in Records \ {entries[i].rec : i \in Audit!available(r)} : Audit!restored(r)[x] = value[x]
<1> DEFINE A == Audit!available(r)
           mine(x) == {i \in A : entries[i].rec = x}
           least(x) == CHOOSE i \in mine(x) : \A j \in mine(x) : i <= j
<1>1. A \in SUBSET Nat /\ A \subseteq DOMAIN entries
  BY AvailableIs
<1>2. /\ value \in [Records -> Values] /\ \A i \in DOMAIN entries : entries[i].old \in Values
  BY AuditTypes DEF AuditInv, Audit!TypeOK, Audit!Entry
<1>3. \A x \in Records : Audit!restored(r)[x] = IF mine(x) = {} THEN value[x] ELSE entries[least(x)].old
  BY DEF Audit!restored
<1>4. ASSUME NEW x \in Records, mine(x) # {}
      PROVE  least(x) \in mine(x)
  <2>1. mine(x) \in SUBSET Nat
    BY <1>1
  <2> HIDE DEF mine
  <2>2. QED
    BY <1>4, <2>1, LeastOf
<1>5. ASSUME NEW x \in Records
      PROVE  Audit!restored(r)[x] \in Values
  <2>1. CASE mine(x) = {}
    BY <1>2, <1>3, <2>1
  <2>2. CASE mine(x) # {}
    <3>1. least(x) \in DOMAIN entries
      BY <1>1, <1>4, <2>2
    <3> HIDE DEF least, mine
    <3>2. QED
      BY <1>2, <1>3, <2>2, <3>1
  <2>3. QED
    BY <2>1, <2>2
<1>6. \A x \in Records \ {entries[i].rec : i \in A} : mine(x) = {}
  OBVIOUS
<1>7. DOMAIN Audit!restored(r) = Records /\ Audit!restored(r) = [x \in Records |-> Audit!restored(r)[x]]
  BY DEF Audit!restored
<1> HIDE DEF mine, least
<1>8. Audit!restored(r) \in [Records -> Values]
  BY <1>5, <1>7
<1>9. QED
  BY <1>3, <1>6, <1>8

\* The entries of a revert put back each of those available, once.
LEMMA InverseIs ==
  ASSUME Audit!AuditRevertAssumption, AuditInv, NEW r \in Reverters, rev[r].at = "locked", NEW dropped,
         Len(ops) + 1 <= MaxOperations
  PROVE  LET es == Audit!inverse(r, dropped)
         IN  /\ es \in Seq(Audit!Entry)
             /\ \A k \in DOMAIN es :
                  /\ es[k].op = Len(ops) + 1 /\ es[k].reverts \in Audit!available(r)
                  /\ es[k].rec = entries[es[k].reverts].rec
                  /\ es[k].whole <=> es[k].reverts \notin dropped
             /\ \A k, l \in DOMAIN es : es[k].reverts = es[l].reverts => k = l
<1> DEFINE A == Audit!available(r)
           n == Cardinality(A)
           nth(k) == CHOOSE i \in A : Cardinality(AtLeast(A, i)) = k
           back(k) == [op |-> Len(ops) + 1, rec |-> entries[nth(k)].rec, old |-> rev[r].saw[entries[nth(k)].rec],
                       new |-> Audit!restored(r)[entries[nth(k)].rec], reverts |-> nth(k), whole |-> nth(k) \notin dropped]
<1>1. A \in SUBSET Nat /\ IsFiniteSet(A) /\ A \subseteq DOMAIN entries
  BY AvailableIs
<1>2. Audit!inverse(r, dropped) = [k \in 1 .. n |-> back(k)]
  BY SameCount DEF Audit!inverse, AtLeast
<1>3. n \in Nat /\ \A k \in 1 .. n : nth(k) \in A /\ Cardinality(AtLeast(A, nth(k))) = k
  <2>1. n \in Nat /\ \A k \in 1 .. n : \E i \in A : Cardinality(AtLeast(A, i)) = k
    BY <1>1, Places
  <2>2. QED
    BY <2>1
<1>4. \A k, l \in 1 .. n : nth(k) = nth(l) => k = l
  BY <1>3
<1>5. /\ \A i \in DOMAIN entries : entries[i].rec \in Records /\ i \in 0 .. MaxEntries
      /\ rev[r] \in RevRow /\ Len(ops) + 1 \in 1 .. MaxOperations
  BY AuditTypes DEF AuditInv, Audit!Entry
<1>6. Audit!restored(r) \in [Records -> Values] /\ rev[r].saw \in [Records -> Values]
  BY <1>5, RestoredIs DEF RevRow
<1> HIDE DEF n, nth
<1>7. ASSUME NEW k \in 1 .. n
      PROVE  /\ back(k) \in Audit!Entry /\ back(k).op = Len(ops) + 1 /\ back(k).reverts \in A /\ back(k).reverts = nth(k)
             /\ back(k).rec = entries[back(k).reverts].rec /\ (back(k).whole <=> back(k).reverts \notin dropped)
  <2>1. nth(k) \in A /\ nth(k) \in DOMAIN entries
    BY <1>1, <1>3
  <2> HIDE DEF A
  <2>2. QED
    BY <1>5, <1>6, <2>1 DEF Audit!Entry
<1> HIDE DEF back
<1> DEFINE es == Audit!inverse(r, dropped)
<1>8. es = [k \in 1 .. n |-> back(k)]
  BY <1>2
<1> HIDE DEF es
<1>9. es \in Seq(Audit!Entry) /\ DOMAIN es = 1 .. n /\ \A k \in 1 .. n : es[k] = back(k)
  BY <1>3, <1>7, <1>8
<1>10. \A k, l \in DOMAIN es : es[k].reverts = es[l].reverts => k = l
  BY <1>4, <1>7, <1>9
<1>11. \A k \in DOMAIN es :
         /\ es[k].op = Len(ops) + 1 /\ es[k].reverts \in A
         /\ es[k].rec = entries[es[k].reverts].rec /\ (es[k].whole <=> es[k].reverts \notin dropped)
  BY <1>7, <1>9
<1>12. QED
  BY <1>9, <1>10, <1>11 DEF es

\* What the step of a revert says of the log.
AppliedAs(r, o, es, A, m, c) ==
  /\ o = rev[r].op /\ A = Audit!available(r) /\ rev[r].at = "locked" /\ A # {} /\ A \subseteq Audit!Of(o)
  /\ Audit!resolvePlans(r) /\ Audit!fresh(r)
  /\ \A i \in A : Audit!snapshotsDiffer(i) /\ \A j \in DOMAIN entries : entries[j].reverts # i
  /\ entries' = entries \o es /\ Len(entries) + Len(es) <= MaxEntries
  /\ \A k \in DOMAIN es : es[k].op = Len(ops) + 1 /\ es[k].reverts \in A
  /\ \A k, l \in DOMAIN es : es[k].reverts = es[l].reverts => k = l
  /\ ops[o].reverts = Audit!None /\ Len(ops) + 1 <= MaxOperations
  /\ m = Audit!recomputeMarkerChain(entries', o, Len(ops) + 1, Audit!Of(o))
  /\ m.key = ops[o].key /\ m.reverts = Audit!None
  /\ c.key = Audit!NoKey /\ c.reverts = o /\ c.by = Audit!None /\ c.partial = {}
  /\ ops' = Append([ops EXCEPT ![o] = m], c)
  /\ value' \in [Records -> Values]
  /\ \A x \in Records \ {entries[i].rec : i \in A} : value'[x] = value[x]
  /\ Audit!Disturb(Reverters \ {r}, {entries[i].rec : i \in A}, o)
  /\ tx' = tx

LEMMA ApplyFacts ==
  ASSUME Audit!AuditRevertAssumption, AuditInv, NEW r \in Reverters, NEW dropped, Audit!applyRevert(r, dropped)
  PROVE  \E o \in DOMAIN ops, es \in Seq(Audit!Entry), A \in SUBSET DOMAIN entries, m \in Audit!Operation,
            c \in Audit!Operation : AppliedAs(r, o, es, A, m, c)
<1> DEFINE o == rev[r].op
           es == Audit!inverse(r, dropped)
           A == Audit!available(r)
           m == Audit!recomputeMarkerChain(entries', o, Len(ops) + 1, Audit!Of(o))
           c == [key |-> Audit!NoKey, reverts |-> o, by |-> Audit!None, partial |-> {}, expired |-> FALSE]
<1>1. rev[r].at = "locked" /\ A # {} /\ Audit!resolvePlans(r) /\ Audit!fresh(r)
  BY DEF Audit!applyRevert
<1>2. Len(ops) + 1 <= MaxOperations /\ entries' = entries \o es /\ Len(entries \o es) <= MaxEntries
  BY DEF Audit!applyRevert
<1>3. /\ o \in DOMAIN ops /\ A \in SUBSET DOMAIN entries /\ A \subseteq Audit!Of(o) /\ ops[o].reverts = Audit!None
      /\ \A i \in A : Audit!snapshotsDiffer(i) /\ \A j \in DOMAIN entries : entries[j].reverts # i
  BY <1>1, AvailableIs
<1>4. /\ es \in Seq(Audit!Entry)
      /\ \A k \in DOMAIN es : es[k].op = Len(ops) + 1 /\ es[k].reverts \in A
      /\ \A k, l \in DOMAIN es : es[k].reverts = es[l].reverts => k = l
  BY <1>1, <1>2, InverseIs
<1>5. entries \in Seq(Audit!Entry) /\ Len(ops) \in Nat /\ DOMAIN ops = 1 .. Len(ops) /\ MaxOperations \in Nat
      /\ \A p \in DOMAIN ops : ops[p] \in Audit!Operation
  BY AuditTypes DEF AuditInv, Audit!TypeOK
<1>6. rev[r].seen = Audit!Of(o)
  BY <1>1 DEF AuditInv, RevertSees, LockedAlone
<1>7. ops' = Append([ops EXCEPT ![o] = m], c)
  <2>1. ops' = Append([ops EXCEPT ![o] = Audit!recomputeMarkerChain(entries \o es, o, Len(ops) + 1, rev[r].seen)], c)
    BY DEF Audit!applyRevert, Audit!None
  <2>2. QED
    BY <1>2, <1>6, <2>1
<1>8. value' = Audit!restored(r) /\ tx' = tx /\ Audit!Disturb(Reverters \ {r}, {entries[i].rec : i \in A}, o)
  BY DEF Audit!applyRevert
<1>9. /\ value' \in [Records -> Values]
      /\ \A x \in Records \ {entries[i].rec : i \in A} : value'[x] = value[x]
  BY <1>1, <1>8, RestoredIs
<1>10. c \in Audit!Operation /\ c.key = Audit!NoKey /\ c.reverts = o /\ c.by = Audit!None /\ c.partial = {}
  <2>1. o \in 0 .. MaxOperations /\ 0 \in 0 .. MaxOperations
    BY <1>2, <1>3, <1>5
  <2>2. Audit!NoKey \in Keys \cup {Audit!NoKey} /\ {} \in SUBSET (1 .. MaxOperations)
    OBVIOUS
  <2> HIDE DEF o
  <2>3. QED
    BY <2>1, <2>2 DEF Audit!Operation, Audit!None
<1>11. Len(entries) + Len(es) <= MaxEntries
  BY <1>2, <1>4, <1>5
<1>12. m \in Audit!Operation /\ m.key = ops[o].key /\ m.reverts = Audit!None
  <2> DEFINE full == {i \in Audit!Of(o) : Audit!snapshotsDiffer(i)} \subseteq
                       Audit!loadActiveRevertCoverage(entries', o) \ Audit!incompleteEntryIds(entries', o)
             by == IF full THEN Len(ops) + 1 ELSE Audit!None
             partial == IF full THEN {}
                        ELSE {entries'[j].op : j \in {k \in 1 .. Len(entries') : entries'[k].reverts \in Audit!Of(o)}}
  <2>1. m = [ops[o] EXCEPT !.by = by, !.partial = partial]
    BY DEF Audit!recomputeMarkerChain
  <2>2. by \in 0 .. MaxOperations
    BY <1>2, <1>5 DEF Audit!None
  <2>3. \A j \in DOMAIN entries' : entries'[j].op \in 1 .. MaxOperations
    <3>1. entries' \in Seq(Audit!Entry)
      BY <1>2, <1>4, Grows
    <3>2. \A x \in Audit!Entry : x.op \in 1 .. MaxOperations
      BY DEF Audit!Entry
    <3>3. QED
      BY <3>1, <3>2
  <2>4. DOMAIN entries' = 1 .. Len(entries')
    BY <1>2, <1>4, <1>5, Grows
  <2>5. partial \in SUBSET (1 .. MaxOperations)
    BY <2>3, <2>4
  <2> HIDE DEF by, partial, m
  <2>6. QED
    BY <1>3, <1>5, <2>1, <2>2, <2>5 DEF Audit!Operation
<1>13. m = Audit!recomputeMarkerChain(entries', o, Len(ops) + 1, Audit!Of(o)) /\ o = rev[r].op /\ A = Audit!available(r)
  OBVIOUS
<1> HIDE DEF o, es, A, m, c
<1>14. AppliedAs(r, o, es, A, m, c)
  <2>1. rev[r].at = "locked" /\ A # {} /\ Audit!resolvePlans(r) /\ Audit!fresh(r)
    BY <1>1
  <2>2. /\ A \subseteq Audit!Of(o) /\ ops[o].reverts = Audit!None
        /\ \A i \in A : Audit!snapshotsDiffer(i) /\ \A j \in DOMAIN entries : entries[j].reverts # i
    BY <1>3
  <2>3. /\ \A k \in DOMAIN es : es[k].op = Len(ops) + 1 /\ es[k].reverts \in A
        /\ \A k, l \in DOMAIN es : es[k].reverts = es[l].reverts => k = l
    BY <1>4
  <2>4. tx' = tx /\ Audit!Disturb(Reverters \ {r}, {entries[i].rec : i \in A}, o)
    BY <1>8
  <2>5. entries' = entries \o es /\ Len(entries) + Len(es) <= MaxEntries /\ Len(ops) + 1 <= MaxOperations
    BY <1>2, <1>11
  <2>6. QED
    BY <1>7, <1>9, <1>10, <1>12, <1>13, <2>1, <2>2, <2>3, <2>4, <2>5, Zenon DEF AppliedAs
<1>15. QED
  BY <1>3, <1>4, <1>10, <1>12, <1>14

\* The markers are those of the entries that were seen, which are all there are.
LEMMA MarkersRecomputed ==
  ASSUME Audit!AuditRevertAssumption, AuditInv, NEW es \in Seq(Audit!Entry), entries' = entries \o es,
         NEW o \in DOMAIN ops, Audit!Of(o)' = Audit!Of(o), Len(ops) + 1 # Audit!None,
         NEW A \in SUBSET Audit!Of(o), A # {}, \A i \in A : Audit!snapshotsDiffer(i),
         ops'[o] = Audit!recomputeMarkerChain(entries', o, Len(ops) + 1, Audit!Of(o)),
         ops[o] \in Audit!Operation
  PROVE  MarkersTell(o)'
<1> DEFINE put == {i \in DOMAIN entries' : entries'[i].op = o /\ \E j \in DOMAIN entries' : entries'[j].reverts = i}
           whole == {i \in put : \E j \in DOMAIN entries' : entries'[j].reverts = i /\ entries'[j].whole}
           full == Due(o) \subseteq whole
           by == {entries'[j].op : j \in {k \in DOMAIN entries' : entries'[k].reverts \in Audit!Of(o)}}
<1>1. /\ DOMAIN entries \subseteq DOMAIN entries' /\ DOMAIN entries' = 1 .. Len(entries')
      /\ \A i \in DOMAIN entries : entries'[i] = entries[i]
  <2>1. Len(entries') = Len(entries) + Len(es) /\ DOMAIN entries' = 1 .. Len(entries) + Len(es)
    BY Grows
  <2>2. QED
    BY <2>1, Grows
<1>2. Audit!Of(o) \subseteq DOMAIN entries /\ Audit!Of(o) = {i \in DOMAIN entries' : entries'[i].op = o}
  BY DEF Audit!Of
<1>3. Due(o)' = Due(o) /\ Due(o) = {i \in Audit!Of(o) : Audit!snapshotsDiffer(i)}
  BY <1>1, <1>2 DEF Due, Audit!snapshotsDiffer
<1>4. Done(o)' = Due(o) \cap whole
  BY <1>2, <1>3 DEF Done, Due
<1>5. Audit!loadActiveRevertCoverage(entries', o) \ Audit!incompleteEntryIds(entries', o) = whole
  BY <1>1 DEF Audit!loadActiveRevertCoverage, Audit!incompleteEntryIds
<1>6. ops'[o] = [ops[o] EXCEPT !.by = IF full THEN Len(ops) + 1 ELSE Audit!None, !.partial = IF full THEN {} ELSE by]
  BY <1>1, <1>3, <1>5 DEF Audit!recomputeMarkerChain
<1>7. Audit!Reverting(o)' = {k \in DOMAIN entries' : entries'[k].reverts \in Audit!Of(o)}
  BY DEF Audit!Reverting
<1>8. by # {} <=> Audit!Reverting(o)' # {}
  BY <1>7
<1>9. Due(o) # {}
  BY DEF Due
<1>10. full <=> Due(o)' = Done(o)'
  <2>1. PICK d, w : d = Due(o) /\ w = whole
    OBVIOUS
  <2>2. Due(o)' = d /\ Done(o)' = d \cap w
    BY <1>3, <1>4, <2>1
  <2>3. d \subseteq w <=> d = d \cap w
    OBVIOUS
  <2>4. QED
    BY <2>1, <2>2, <2>3
<1> HIDE DEF full, by, whole, put
<1>11. /\ ops'[o].by = (IF full THEN Len(ops) + 1 ELSE Audit!None)
       /\ ops'[o].partial = (IF full THEN {} ELSE by)
  BY <1>6 DEF Audit!Operation
<1>12. /\ ops'[o].by # Audit!None <=> Due(o)' # {} /\ Due(o)' = Done(o)'
       /\ ops'[o].partial # {} <=> Audit!Reverting(o)' # {} /\ Due(o)' # Done(o)'
  BY <1>3, <1>8, <1>9, <1>10, <1>11
<1>13. QED
  BY <1>12 DEF MarkersTell

\* What a step lets be: operations that have been reverted get no entries, and
\* a revert overwrites what it has seen.
Closes == \A p \in DOMAIN ops : Audit!Reverting(p) # {} => Audit!Of(p)' = Audit!Of(p)

LEMMA ApplyStep ==
  ASSUME Audit!AuditRevertAssumption, AuditInv, NEW r \in Reverters, NEW dropped, Audit!applyRevert(r, dropped)
  PROVE  AuditInv' /\ Closes /\ Audit!LaterEditsSurvive
<1>1. PICK o \in DOMAIN ops, es \in Seq(Audit!Entry), A \in SUBSET DOMAIN entries, m \in Audit!Operation,
           c \in Audit!Operation :
        /\ o = rev[r].op /\ A = Audit!available(r) /\ rev[r].at = "locked" /\ A # {} /\ A \subseteq Audit!Of(o)
        /\ Audit!resolvePlans(r) /\ Audit!fresh(r)
        /\ \A i \in A : Audit!snapshotsDiffer(i) /\ \A j \in DOMAIN entries : entries[j].reverts # i
        /\ entries' = entries \o es /\ Len(entries) + Len(es) <= MaxEntries
        /\ \A k \in DOMAIN es : es[k].op = Len(ops) + 1 /\ es[k].reverts \in A
        /\ \A k, l \in DOMAIN es : es[k].reverts = es[l].reverts => k = l
        /\ ops[o].reverts = Audit!None /\ Len(ops) + 1 <= MaxOperations
        /\ m = Audit!recomputeMarkerChain(entries', o, Len(ops) + 1, Audit!Of(o))
        /\ m.key = ops[o].key /\ m.reverts = Audit!None
        /\ c.key = Audit!NoKey /\ c.reverts = o /\ c.by = Audit!None /\ c.partial = {}
        /\ ops' = Append([ops EXCEPT ![o] = m], c)
        /\ value' \in [Records -> Values]
        /\ \A x \in Records \ {entries[i].rec : i \in A} : value'[x] = value[x]
        /\ Audit!Disturb(Reverters \ {r}, {entries[i].rec : i \in A}, o)
        /\ tx' = tx
  BY ApplyFacts DEF AppliedAs
<1> DEFINE n == Len(ops)
           l == Len(entries)
<1>2. /\ tx \in [Writers -> TxRow] /\ ops \in Seq(Audit!Operation)
      /\ n \in Nat /\ DOMAIN ops = 1 .. n /\ l \in Nat /\ DOMAIN entries = 1 .. l
      /\ Audit!None = 0 /\ MaxOperations \in Nat /\ MaxEntries \in Nat
      /\ \A i \in DOMAIN entries : entries[i].rec \in Records /\ entries[i].op \in DOMAIN ops /\ entries[i].reverts < i
      /\ \A x, y \in DOMAIN ops : ops[x].key = ops[y].key /\ ops[x].key # Audit!NoKey => x = y
  BY AuditTypes DEF AuditInv, Audit!TypeOK, Audit!Entry
<1>3. /\ ops' \in Seq(Audit!Operation) /\ Len(ops') = n + 1 /\ DOMAIN ops' = 1 .. n + 1
      /\ ops'[o] = m /\ ops'[n + 1] = c /\ \A p \in DOMAIN ops : p # o => ops'[p] = ops[p]
  <2>1. [ops EXCEPT ![o] = m] \in Seq(Audit!Operation) /\ Len([ops EXCEPT ![o] = m]) = n
    BY <1>2
  <2>2. \A p \in 1 .. n : [ops EXCEPT ![o] = m][p] = IF p = o THEN m ELSE ops[p]
    BY <1>2
  <2>3. PICK s \in Seq(Audit!Operation) : s = [ops EXCEPT ![o] = m]
    BY <2>1
  <2>4. Len(s) = n /\ ops' = Append(s, c) /\ \A p \in 1 .. n : s[p] = IF p = o THEN m ELSE ops[p]
    BY <1>1, <2>1, <2>2, <2>3
  <2>5. /\ ops' \in Seq(Audit!Operation) /\ Len(ops') = n + 1 /\ ops'[n + 1] = c
        /\ \A p \in 1 .. n : ops'[p] = s[p]
    <3>1. c \in Audit!Operation /\ Len(s) = n /\ ops' = Append(s, c)
      BY <2>4
    <3>2. ops' \in Seq(Audit!Operation) /\ Len(ops') = n + 1
      BY <2>3, <3>1
    <3>3. ops'[n + 1] = c /\ \A p \in 1 .. n : ops'[p] = s[p]
      BY <1>2, <2>3, <3>1
    <3>4. QED
      BY <3>2, <3>3
  <2>6. DOMAIN ops' = 1 .. n + 1
    BY <2>5
  <2>7. QED
    BY <1>2, <2>4, <2>5, <2>6
<1>4. /\ entries' \in Seq(Audit!Entry) /\ Len(entries') = l + Len(es) /\ DOMAIN entries' = 1 .. l + Len(es)
      /\ DOMAIN entries \subseteq DOMAIN entries'
      /\ \A i \in DOMAIN entries : entries'[i] = entries[i]
      /\ \A i \in DOMAIN entries' \ DOMAIN entries : i - l \in DOMAIN es /\ entries'[i] = es[i - l]
  BY <1>1, Grows
<1>5. \A i \in DOMAIN entries' \ DOMAIN entries : /\ entries'[i].op = n + 1 /\ entries'[i].reverts \in A
                                                  /\ i > l
  BY <1>1, <1>2, <1>4
<1>6. \A i, j \in DOMAIN entries' \ DOMAIN entries : entries'[i].reverts = entries'[j].reverts => i = j
  <2> SUFFICES ASSUME NEW i \in DOMAIN entries' \ DOMAIN entries, NEW j \in DOMAIN entries' \ DOMAIN entries,
                      entries'[i].reverts = entries'[j].reverts
               PROVE  i = j
    OBVIOUS
  <2>1. i - l = j - l
    BY <1>1, <1>4
  <2>2. QED
    BY <1>2, <1>4, <2>1
<1>7. n + 1 \notin DOMAIN ops
  BY <1>2
<1>8. /\ rev' \in [Reverters -> RevRow'] /\ RevertSees' /\ LockedAlone'
      /\ \A p \in DOMAIN ops : p # o => Audit!Of(p)' = Audit!Of(p)
  <2>1. Reverters \ {r} \in SUBSET Reverters /\ {entries[i].rec : i \in A} \in SUBSET Records
    BY <1>2
  <2>2. \A q \in Reverters \ {r} : rev[q].at = "locked" => rev[q].op # o
    BY <1>1 DEF AuditInv, LockedAlone
  <2>3. \A i \in DOMAIN es : es[i].op = o \/ es[i].op \notin DOMAIN ops
    BY <1>1, <1>7
  <2>4. DOMAIN ops \subseteq DOMAIN ops'
    BY <1>2, <1>3
  <2>5. \A w \in Writers : tx'[w].op \in {Audit!None, tx[w].op}
    BY <1>1
  <2>6. PICK others \in SUBSET Reverters, recs \in SUBSET Records :
            others = Reverters \ {r} /\ recs = {entries[i].rec : i \in A}
    BY <2>1
  <2>7. /\ Audit!Disturb(others, recs, o) /\ entries' = entries \o es
        /\ \A x \in Records \ recs : value'[x] = value[x]
        /\ \A q \in others : rev[q].at = "locked" => rev[q].op # o
    BY <1>1, <2>2, <2>6
  <2>8. LogStep(others, recs, o, es)
    BY <2>3, <2>4, <2>5, <2>7 DEF LogStep
  <2>9. QED
    BY <2>8, LogKeeps
<1>9. \A p \in DOMAIN ops : Audit!Of(p)' = Audit!Of(p)
  BY <1>4, <1>5, <1>7 DEF Audit!Of
<1> HIDE DEF n, l
<1>10. Audit!TypeOK'
  <2>1. \A x, y \in DOMAIN ops' : ops'[x].key = ops'[y].key /\ ops'[x].key # Audit!NoKey => x = y
    <3>1. \A x \in DOMAIN ops : ops'[x].key = ops[x].key
      BY <1>1, <1>3
    <3>2. \A x \in DOMAIN ops' : x \in DOMAIN ops \/ x = n + 1
      BY <1>2, <1>3
    <3>3. ops'[n + 1].key = Audit!NoKey
      BY <1>1, <1>3
    <3>4. QED
      BY <1>2, <3>1, <3>2, <3>3
  <2>2. \A i \in DOMAIN entries' : entries'[i].op \in DOMAIN ops' /\ entries'[i].reverts < i
    <3>1. ASSUME NEW i \in DOMAIN entries
          PROVE  entries'[i].op \in DOMAIN ops' /\ entries'[i].reverts < i
      BY <1>2, <1>3, <1>4
    <3>2. ASSUME NEW i \in DOMAIN entries' \ DOMAIN entries
          PROVE  entries'[i].op \in DOMAIN ops' /\ entries'[i].reverts < i
      BY <1>2, <1>3, <1>4, <1>5
    <3>3. QED
      BY <3>1, <3>2
  <2>3. tx' \in [Writers -> TxRow']
    <3>1. \A x \in TxRow : x \in TxRow'
      BY <1>2, <1>3 DEF TxRow
    <3>2. QED
      BY <1>1, <1>2, <3>1
  <2>4. Len(entries') <= MaxEntries /\ Len(ops') <= MaxOperations
    BY <1>1, <1>3, <1>4 DEF n, l
  <2>5. QED
    BY <1>1, <1>3, <1>4, <1>8, <2>1, <2>2, <2>3, <2>4 DEF Audit!TypeOK, TxRow, RevRow
<1>11. Audit!RevertedAtMostOnce'
  <2> SUFFICES ASSUME NEW i \in DOMAIN entries', NEW j \in DOMAIN entries', entries'[i].reverts = entries'[j].reverts,
                      entries'[i].reverts # Audit!None
               PROVE  i = j
    BY DEF Audit!RevertedAtMostOnce
  <2>1. CASE i \in DOMAIN entries /\ j \in DOMAIN entries
    BY <1>4, <2>1 DEF AuditInv, Audit!RevertedAtMostOnce
  <2>2. CASE i \notin DOMAIN entries /\ j \notin DOMAIN entries
    BY <1>6, <2>2
  <2>3. ASSUME NEW x \in DOMAIN entries, NEW y \in DOMAIN entries' \ DOMAIN entries
        PROVE  entries'[x].reverts # entries'[y].reverts
    BY <1>1, <1>4, <1>5
  <2>4. QED
    BY <2>1, <2>2, <2>3
<1>12. PutBackDiffered'
  <2>1. \A i \in DOMAIN entries : Audit!snapshotsDiffer(i)' = Audit!snapshotsDiffer(i)
    BY <1>4 DEF Audit!snapshotsDiffer
  <2>2. ASSUME NEW j \in DOMAIN entries', entries'[j].reverts # Audit!None
        PROVE  entries'[j].reverts \in DOMAIN entries /\ Audit!snapshotsDiffer(entries'[j].reverts)
    <3>1. CASE j \in DOMAIN entries
      <4>1. entries'[j] = entries[j] /\ entries[j].reverts \in 0 .. MaxEntries /\ entries[j].reverts < j
        BY <1>2, <1>4, <3>1, AuditTypes DEF AuditInv, Audit!Entry
      <4>2. entries[j].reverts \in DOMAIN entries
        BY <1>2, <2>2, <3>1, <4>1
      <4>3. QED
        BY <2>2, <3>1, <4>1, <4>2 DEF AuditInv, PutBackDiffered
    <3>2. CASE j \notin DOMAIN entries
      BY <1>1, <1>5, <3>2
    <3>3. QED
      BY <3>1, <3>2
  <2>3. \A j \in DOMAIN entries' : entries'[j].reverts # Audit!None =>
           entries'[entries'[j].reverts].old # entries'[entries'[j].reverts].new
    BY <1>4, <2>2 DEF Audit!snapshotsDiffer
  <2>4. QED
    BY <2>3 DEF PutBackDiffered, Audit!snapshotsDiffer
<1>13. MarkersTell(o)'
  <2>1. ops[o] \in Audit!Operation
    BY AuditTypes DEF AuditInv
  <2>2. Len(ops) + 1 # Audit!None
    BY <1>2 DEF n
  <2>3. ops'[o] = Audit!recomputeMarkerChain(entries', o, Len(ops) + 1, Audit!Of(o))
    BY <1>1, <1>3
  <2>4. Audit!Of(o)' = Audit!Of(o)
    BY <1>9
  <2>5. QED
    BY <1>1, <2>1, <2>2, <2>3, <2>4, MarkersRecomputed
<1>14. ASSUME NEW p \in DOMAIN ops, p # o
       PROVE  MarkersTell(p)'
  <2>1. /\ ops'[p].reverts = ops[p].reverts /\ ops'[p].by = ops[p].by /\ ops'[p].partial = ops[p].partial
        /\ Audit!Of(p)' = Audit!Of(p)
    BY <1>3, <1>9, <1>14
  <2>2. \A j \in DOMAIN entries' \ DOMAIN entries : entries'[j].reverts \notin Audit!Of(p)
    BY <1>1, <1>5, <1>14 DEF Audit!Of
  <2>3. QED
    BY <1>1, <2>1, <2>2, MarkersStay
<1>15. ASSUME NEW p \in DOMAIN ops', p \notin DOMAIN ops
       PROVE  MarkersTell(p)'
  <2>1. ops'[p].reverts # Audit!None
    BY <1>1, <1>2, <1>3, <1>15
  <2>2. QED
    BY <2>1 DEF MarkersTell
<1>16. Audit!MarkersTellCoverage'
  <2>1. \A p \in DOMAIN ops' : MarkersTell(p)'
    BY <1>13, <1>14, <1>15
  <2>2. QED
    BY <2>1, MarkersOneByOne
<1>17. JoinedIsOpen'
  <2>1. \A w \in Writers : tx[w].op # o /\ tx[w].op \in {Audit!None} \cup DOMAIN ops
    BY <1>1, <1>2 DEF AuditInv, LockedAlone, TxRow
  <2>2. QED
    BY <1>1, <1>3, <2>1 DEF AuditInv, JoinedIsOpen
<1>18. Closes
  BY <1>9 DEF Closes
<1>19. Audit!LaterEditsSurvive
  <2> SUFFICES ASSUME NEW j \in DOMAIN entries' \ DOMAIN entries,
                      \A q \in Reverters : rev[q].op = entries[entries'[j].reverts].op /\ rev[q].at = "locked" => ~rev[q].force
               PROVE  value[entries[entries'[j].reverts].rec] = entries[entries'[j].reverts].new
    BY DEF Audit!LaterEditsSurvive
  <2>1. PICK i \in A : i = entries'[j].reverts
    BY <1>5
  <2>2. i \in DOMAIN entries /\ entries[i].op = o /\ entries[i].rec \in Records
    BY <1>1, <1>2 DEF Audit!Of
  <2>3. ~rev[r].force
    BY <1>1, <2>1, <2>2
  <2>4. rev[r].saw[entries[i].rec] = entries[i].new
    BY <1>1, <2>3 DEF Audit!resolvePlans
  <2>5. entries[i].rec \notin rev[r].changed
    BY <1>1 DEF Audit!fresh
  <2>6. rev[r].saw[entries[i].rec] = value[entries[i].rec]
    BY <1>1, <2>2, <2>5 DEF AuditInv, RevertSees
  <2>7. QED
    BY <2>1, <2>4, <2>6
<1>20. QED
  BY <1>8, <1>10, <1>11, <1>12, <1>16, <1>17, <1>18, <1>19 DEF AuditInv

\* Only a change and a revert log anything.
LEMMA QuietLetsBe ==
  ASSUME UNCHANGED entries
  PROVE  Closes /\ Audit!LaterEditsSurvive
BY DEF Closes, Audit!Of, Audit!LaterEditsSurvive

LEMMA RunSpares ==
  ASSUME Audit!AuditRevertAssumption, AuditInv, NEW w \in Writers, NEW v \in Values, Audit!runAuditedOperation(w, v)
  PROVE  Audit!LaterEditsSurvive
<1>1. PICK e \in Audit!Entry : e.reverts = Audit!None /\ entries' = entries \o <<e>>
  BY RunFacts
<1>2. <<e>> \in Seq(Audit!Entry) /\ DOMAIN <<e>> = {1} /\ <<e>>[1] = e
  OBVIOUS
<1>3. \A i \in DOMAIN entries' \ DOMAIN entries : i - Len(entries) \in DOMAIN <<e>> /\ entries'[i] = <<e>>[i - Len(entries)]
  BY <1>1, <1>2, Grows
<1>4. \A i \in DOMAIN entries' \ DOMAIN entries : entries'[i].reverts = Audit!None
  BY <1>1, <1>2, <1>3
<1>5. QED
  BY <1>4 DEF Audit!LaterEditsSurvive

LEMMA AuditSteps ==
  ASSUME Audit!AuditRevertAssumption, AuditInv, Audit!Next
  PROVE  AuditInv' /\ Closes /\ Audit!LaterEditsSurvive
<1>1. ASSUME NEW w \in Writers, NEW k \in Keys \cup {Audit!NoKey}, Audit!ensureOperation(w, k)
      PROVE  AuditInv' /\ Closes /\ Audit!LaterEditsSurvive
  <2>1. UNCHANGED entries
    BY <1>1 DEF Audit!ensureOperation
  <2>2. QED
    BY <1>1, <2>1, JoinStep, QuietLetsBe
<1>2. ASSUME NEW w \in Writers, NEW x \in Records, Audit!readCurrent(w, x)
      PROVE  AuditInv' /\ Closes /\ Audit!LaterEditsSurvive
  <2>1. UNCHANGED entries
    BY <1>2 DEF Audit!readCurrent
  <2>2. QED
    BY <1>2, <2>1, ReadStep, QuietLetsBe
<1>3. ASSUME NEW w \in Writers, NEW v \in Values, Audit!runAuditedOperation(w, v)
      PROVE  AuditInv' /\ Closes /\ Audit!LaterEditsSurvive
  BY <1>3, RunStep, RunSpares DEF Closes
<1>4. ASSUME NEW w \in Writers, Audit!abandon(w)
      PROVE  AuditInv' /\ Closes /\ Audit!LaterEditsSurvive
  <2>1. UNCHANGED entries
    BY <1>4 DEF Audit!abandon
  <2>2. QED
    BY <1>4, <2>1, AbandonStep, QuietLetsBe
<1>5. ASSUME NEW o \in DOMAIN ops, Audit!expireKey(o)
      PROVE  AuditInv' /\ Closes /\ Audit!LaterEditsSurvive
  <2>1. UNCHANGED entries
    BY <1>5 DEF Audit!expireKey
  <2>2. QED
    BY <1>5, <2>1, ExpireStep, QuietLetsBe
<1>6. ASSUME NEW r \in Reverters, NEW o \in DOMAIN ops, NEW chosen \in SUBSET Audit!Of(o), NEW force \in BOOLEAN,
             Audit!beginRevert(r, o, chosen, force)
      PROVE  AuditInv' /\ Closes /\ Audit!LaterEditsSurvive
  <2>1. UNCHANGED entries
    BY <1>6 DEF Audit!beginRevert
  <2>2. QED
    BY <1>6, <2>1, BeginRevertStep, QuietLetsBe
<1>7. ASSUME NEW r \in Reverters, Audit!lockTarget(r)
      PROVE  AuditInv' /\ Closes /\ Audit!LaterEditsSurvive
  <2>1. UNCHANGED entries
    BY <1>7 DEF Audit!lockTarget
  <2>2. QED
    BY <1>7, <2>1, LockStep, QuietLetsBe
<1>8. ASSUME NEW r \in Reverters, NEW dropped \in SUBSET rev[r].chosen, Audit!applyRevert(r, dropped)
      PROVE  AuditInv' /\ Closes /\ Audit!LaterEditsSurvive
  BY <1>8, ApplyStep
<1>9. ASSUME NEW r \in Reverters, Audit!refuse(r)
      PROVE  AuditInv' /\ Closes /\ Audit!LaterEditsSurvive
  <2>1. UNCHANGED entries
    BY <1>9 DEF Audit!refuse
  <2>2. QED
    BY <1>9, <2>1, RefuseRevertStep, QuietLetsBe
<1>10. QED
  BY <1>1, <1>2, <1>3, <1>4, <1>5, <1>6, <1>7, <1>8, <1>9 DEF Audit!Next

LEMMA AuditStutters ==
  ASSUME Audit!AuditRevertAssumption, AuditInv, UNCHANGED (Audit!vars)
  PROVE  AuditInv' /\ Closes /\ Audit!LaterEditsSurvive
<1>1. UNCHANGED <<value, ops, entries, tx, rev>>
  BY DEF Audit!vars
<1>2. tx' \in [Writers -> TxRow] /\ rev' \in [Reverters -> RevRow]
  BY <1>1, AuditTypes DEF AuditInv
<1>3. JoinedIsOpen' /\ LockedAlone'
  BY <1>1 DEF AuditInv, JoinedIsOpen, LockedAlone
<1>4. RevertSees'
  BY <1>1 DEF AuditInv, RevertSees, Audit!Of
<1>5. QED
  BY <1>1, <1>2, <1>3, <1>4, QuietStep, QuietLetsBe

LEMMA AuditInit ==
  ASSUME Audit!AuditRevertAssumption, Audit!Init
  PROVE  AuditInv
<1>1. /\ value = [x \in Records |-> Initial] /\ ops = <<>> /\ entries = <<>>
      /\ tx = [w \in Writers |-> Audit!NoTx] /\ rev = [r \in Reverters |-> Audit!NoRevert]
  BY DEF Audit!Init
<1>2. DOMAIN ops = {} /\ DOMAIN entries = {} /\ Len(ops) = 0 /\ Len(entries) = 0
  BY <1>1
<1>3. tx \in [Writers -> TxRow] /\ rev \in [Reverters -> RevRow]
  BY <1>1, IdleTx, IdleRevert
<1>4. Audit!TypeOK
  <2>1. value \in [Records -> Values] /\ 0 <= MaxOperations /\ 0 <= MaxEntries
    BY <1>1 DEF Audit!AuditRevertAssumption
  <2>2. ops \in Seq(Audit!Operation) /\ entries \in Seq(Audit!Entry)
    BY <1>1
  <2>3. QED
    BY <1>2, <1>3, <2>1, <2>2 DEF Audit!TypeOK, TxRow, RevRow
<1>5. /\ \A w \in Writers : tx[w].at = "idle" /\ tx[w].op = Audit!None
      /\ \A r \in Reverters : rev[r].at = "idle"
  BY <1>1, IdleTx, IdleRevert
<1>6. Audit!MarkersTellCoverage /\ Audit!RevertedAtMostOnce /\ PutBackDiffered
  BY <1>2 DEF Audit!MarkersTellCoverage, Audit!RevertedAtMostOnce, PutBackDiffered
<1>7. JoinedIsOpen /\ RevertSees /\ LockedAlone
  BY <1>5 DEF JoinedIsOpen, RevertSees, LockedAlone
<1>8. QED
  BY <1>4, <1>6, <1>7 DEF AuditInv

\* Every entry is put back at most once, the markers of an operation tell what
\* has been, an operation of which anything has been gets no more entries, and
\* a revert that is not forced overwrites no later edit, however many change
\* records and revert operations at once (ensureOperation, runAuditedOperation,
\* applyRevert, recomputeMarkerChain).
THEOREM RevertsHold ==
  ASSUME Audit!AuditRevertAssumption
  PROVE  Audit!Spec => RevertsAreSound
<1> DEFINE closed == \A o \in DOMAIN ops : Audit!Reverting(o) # {} => Audit!Of(o)' = Audit!Of(o)
<1>1. Audit!Init => AuditInv
  BY AuditInit
<1>2. AuditInv /\ [Audit!Next]_(Audit!vars) => AuditInv'
  BY AuditSteps, AuditStutters
<1>3. AuditInv => Audit!TypeOK /\ Audit!MarkersTellCoverage /\ Audit!RevertedAtMostOnce
  BY DEF AuditInv
<1>4. AuditInv /\ [Audit!Next]_(Audit!vars) => [closed]_(Audit!vars) /\ [Audit!LaterEditsSurvive]_(Audit!vars)
  BY AuditSteps DEF Closes
<1>5. Audit!Spec => Audit!ClosedOnceReverted
  BY <1>1, <1>2, <1>4, PTL DEF Audit!Spec, Audit!ClosedOnceReverted
<1>6. Audit!Spec => [][Audit!LaterEditsSurvive]_(Audit!vars)
  BY <1>1, <1>2, <1>4, PTL DEF Audit!Spec
<1>7. Audit!Spec => [](Audit!TypeOK /\ Audit!MarkersTellCoverage /\ Audit!RevertedAtMostOnce)
  BY <1>1, <1>2, <1>3, PTL DEF Audit!Spec
<1>8. QED
  BY <1>5, <1>6, <1>7 DEF RevertsAreSound

=============================================================================
