---------------------------- MODULE Submissions ----------------------------
(***************************************************************************)
(* A submission from its creation to its review or removal, with the       *)
(* photos uploaded to it (features/submissions): requests that upload,     *)
(* remove, edit, review and delete overlap with each other and with the    *)
(* two clean-ups. Each reads the submission, and some write files, before  *)
(* the transaction that locks its row (lockSubmission); a transaction that *)
(* holds the lock is one step. Files are removed after the commit, and a   *)
(* process may die at any point.                                           *)
(*                                                                         *)
(* The proposed content is the number of its last edit; updatedAt is a     *)
(* counter. Permissions decide which of the actions a request may take.    *)
(* All submissions are for one station that has a location.                *)
(***************************************************************************)
EXTENDS Integers, FiniteSets

CONSTANTS Submissions, Photos, Requests,
          PhotoLimit,      \* SUBMISSION_PHOTO_LIMIT
          MaxEdits,        \* bound on the edits of a submission
          MaxCrashes,      \* bound on requests that die
          MaxRequests      \* bound on the requests made

SubmissionsAssumption ==
    /\ PhotoLimit \in Nat \ {0} /\ MaxEdits \in Nat /\ MaxCrashes \in Nat /\ MaxRequests \in Nat
    /\ IsFiniteSet(Requests) /\ Requests \cap {"orphans", "rejected"} = {}

VARIABLES sub,          \* the submissions: status, updatedAt, content, pending_photos, age
          photos,       \* submission_photos
          attachments,  \* attachments
          published,    \* location_photos, by attachment
          files,        \* the photo files on disk
          used,         \* the file names ever drawn
          req,          \* the requests and the tasks under way
          review,       \* what the last review of a submission was given and applied
          lost,         \* files a dead process has left behind
          crashes, requests

vars == <<sub, photos, attachments, published, files, used, req, review, lost, crashes, requests>>

Absent == [status |-> "absent", updated |-> 0, draft |-> 0, content |-> FALSE, announced |-> FALSE, old |-> FALSE]
Statuses == {"absent", "pending", "approved", "rejected", "removed"}
Idle == [at |-> "idle", subs |-> {}, photos |-> {}, admin |-> FALSE, status |-> "absent",
         seen |-> [updated |-> 0, draft |-> 0], read |-> 0, sends |-> FALSE]
\* The two clean-ups of the scheduler have a place of their own.
Tasks == {"orphans", "rejected"}
Actors == Requests \cup Tasks
NoReview == [by |-> "nobody", seen |-> [updated |-> 0, draft |-> 0], draft |-> 0]

Init ==
    /\ sub = [s \in Submissions |-> Absent]
    /\ photos = [s \in Submissions |-> {}]
    /\ attachments = {} /\ published = {} /\ files = {} /\ used = {} /\ lost = {}
    /\ req = [r \in Actors |-> Idle]
    /\ review = [s \in Submissions |-> NoReview]
    /\ crashes = 0 /\ requests = 0

The(r) == CHOOSE s \in req[r].subs : TRUE
\* A request begins at r with the fields of "begun"; it is over when r is idle.
Begin(r, begun) ==
    /\ req[r] = Idle
    /\ r \in Requests => requests < MaxRequests
    /\ requests' = IF r \in Requests THEN requests + 1 ELSE requests
    /\ req' = [req EXCEPT ![r] = begun]
Go(r, at, ps) == req' = [req EXCEPT ![r] = [Idle EXCEPT !.at = at, !.photos = ps]]
End(r) == req' = [req EXCEPT ![r] = Idle]
\* The files of a committed request are removed after the commit.
Unlink(r, ps) == IF ps = {} THEN End(r) ELSE Go(r, "unlink", ps)
Exists(s) == sub[s].status \notin {"absent", "removed"}

-----------------------------------------------------------------------------
(* Creation *)

\* A submission has content, or announces photos, or both.
processSubmission(s, content, announced) ==
    /\ sub[s] = Absent
    /\ content \/ announced
    /\ sub' = [sub EXCEPT ![s] = [Absent EXCEPT !.status = "pending", !.content = content, !.announced = announced]]
    /\ UNCHANGED <<photos, attachments, published, files, used, req, review, lost, crashes, requests>>

\* Ten minutes have passed since the submission was created.
GrowOld(s) ==
    /\ Exists(s) /\ ~sub[s].old
    /\ sub' = [sub EXCEPT ![s].old = TRUE]
    /\ UNCHANGED <<photos, attachments, published, files, used, req, review, lost, crashes, requests>>

-----------------------------------------------------------------------------
(* Photos *)

\* The submission is read, and its photos counted, before the first file is.
uploadSubmissionPhotos(r, s) ==
    /\ sub[s].status = "pending" /\ Cardinality(photos[s]) < PhotoLimit
    /\ Begin(r, [Idle EXCEPT !.at = "upload", !.subs = {s}, !.read = Cardinality(photos[s])])
    /\ UNCHANGED <<sub, photos, attachments, published, files, used, review, lost, crashes>>

writePhotoFiles(r, p) ==
    /\ req[r].at = "upload" /\ p \notin used
    /\ req[r].read + Cardinality(req[r].photos) < PhotoLimit
    /\ used' = used \cup {p}
    /\ files' = files \cup {p}
    /\ req' = [req EXCEPT ![r].photos = @ \cup {p}]
    /\ UNCHANGED <<sub, photos, attachments, published, review, lost, crashes, requests>>

Fits(r) == /\ sub[The(r)].status = "pending"
           /\ Cardinality(photos[The(r)]) + Cardinality(req[r].photos) <= PhotoLimit

storePhotos(r) ==
    /\ req[r].at = "upload" /\ req[r].photos # {}
    /\ Fits(r)
    /\ attachments' = attachments \cup req[r].photos
    /\ photos' = [photos EXCEPT ![The(r)] = @ \cup req[r].photos]
    /\ End(r)
    /\ UNCHANGED <<sub, published, files, used, review, lost, crashes, requests>>

\* The upload fails, under the lock or before: what it has written is removed.
failUpload(r) ==
    /\ req[r].at = "upload"
    /\ Unlink(r, req[r].photos)
    /\ UNCHANGED <<sub, photos, attachments, published, files, used, review, lost, crashes, requests>>

\* The photo and its attachment are read with the submission.
findPhotoEditableSubmission(r, s, p) ==
    /\ sub[s].status = "pending" /\ p \in photos[s]
    /\ Begin(r, [Idle EXCEPT !.at = "remove", !.subs = {s}, !.photos = {p}])
    /\ UNCHANGED <<sub, photos, attachments, published, files, used, review, lost, crashes>>

IsPending(s) == sub[s].status = "pending"

\* A location photo goes with its attachment (ON DELETE CASCADE).
removeSubmissionPhoto(r) ==
    /\ req[r].at = "remove"
    /\ IsPending(The(r))
    /\ photos' = [photos EXCEPT ![The(r)] = @ \ req[r].photos]
    /\ attachments' = attachments \ req[r].photos
    /\ published' = published \ req[r].photos
    /\ Unlink(r, req[r].photos)
    /\ UNCHANGED <<sub, files, used, review, lost, crashes, requests>>

deletePhotoFiles(r) ==
    /\ req[r].at = "unlink"
    /\ files' = files \ req[r].photos
    /\ End(r)
    /\ UNCHANGED <<sub, photos, attachments, published, used, review, lost, crashes, requests>>

-----------------------------------------------------------------------------
(* Edits and reviews *)

findEditableSubmission(r, s) ==
    /\ Exists(s) /\ sub[s].draft < MaxEdits
    /\ \E admin \in BOOLEAN :
         /\ admin \/ sub[s].status = "pending"
         /\ Begin(r, [Idle EXCEPT !.at = "edit", !.subs = {s}, !.admin = admin, !.status = sub[s].status])
    /\ UNCHANGED <<sub, photos, attachments, published, files, used, review, lost, crashes>>

Unreviewed(r) == Exists(The(r)) /\ sub[The(r)].status = req[r].status

\* A reviewed submission takes a review note only; an edit may empty the rest.
updateSubmission(r, content) ==
    LET s == The(r) IN
    /\ req[r].at = "edit"
    /\ Unreviewed(r)
    /\ sub' = [sub EXCEPT ![s].updated = @ + 1,
                          ![s].draft = IF req[r].status = "pending" THEN @ + 1 ELSE @,
                          ![s].content = IF req[r].status = "pending" THEN content ELSE @]
    /\ End(r)
    /\ UNCHANGED <<photos, attachments, published, files, used, review, lost, crashes, requests>>

\* A reviewer is shown the submission.
Show(r, s) ==
    /\ sub[s].status = "pending"
    /\ Begin(r, [Idle EXCEPT !.at = "shown", !.subs = {s},
                             !.seen = [updated |-> sub[s].updated, draft |-> sub[s].draft]])
    /\ UNCHANGED <<sub, photos, attachments, published, files, used, review, lost, crashes>>

\* The review arrives, with or without expectedUpdatedAt: the row is read.
readForReview(r, sends) ==
    /\ req[r].at = "shown" /\ sub[The(r)].status = "pending"
    /\ req' = [req EXCEPT ![r].at = "review", ![r].sends = sends, ![r].read = sub[The(r)].updated]
    /\ UNCHANGED <<sub, photos, attachments, published, files, used, review, lost, crashes, requests>>

\* Mutant: only the status is checked.
lockStatusOnly(r) == sub[The(r)].status = "pending"
lockPendingSubmission(r) ==
    LET s == The(r) IN
    /\ sub[s].status = "pending"
    /\ sub[s].updated = req[r].read
    /\ req[r].sends => sub[s].updated = req[r].seen.updated

Reviewed(r, s) == review' = [review EXCEPT ![s] = [by |-> IF req[r].sends THEN "version" ELSE "anyone",
                                                   seen |-> req[r].seen, draft |-> sub[s].draft]]

\* The photos are published at the station's location. The picks of the
\* submission may take photos off it, which go where no station shows them.
approveSubmissionAction(r, gone) ==
    LET s == The(r) IN
    /\ req[r].at = "review" /\ lockPendingSubmission(r)
    /\ gone \subseteq published /\ (gone # {} => sub[s].content)
    /\ sub' = [sub EXCEPT ![s].status = "approved", ![s].updated = @ + 1]
    /\ published' = (published \cup photos[s]) \ gone
    /\ attachments' = attachments \ gone
    /\ Reviewed(r, s)
    /\ Unlink(r, gone)
    /\ UNCHANGED <<photos, files, used, lost, crashes, requests>>

rejectSubmissionAction(r) ==
    LET s == The(r) IN
    /\ req[r].at = "review" /\ lockPendingSubmission(r)
    /\ sub' = [sub EXCEPT ![s].status = "rejected", ![s].updated = @ + 1]
    /\ Reviewed(r, s)
    /\ End(r)
    /\ UNCHANGED <<photos, attachments, published, files, used, lost, crashes, requests>>

\* The transaction is refused or fails; nothing of it stays.
Refuse(r) ==
    /\ req[r].at \in {"remove", "edit", "shown", "review", "delete"}
    /\ End(r)
    /\ UNCHANGED <<sub, photos, attachments, published, files, used, review, lost, crashes, requests>>

-----------------------------------------------------------------------------
(* Removal *)

readForRemoval(r, s, admin) ==
    /\ Exists(s)
    /\ admin \/ sub[s].status = "pending"
    /\ Begin(r, [Idle EXCEPT !.at = "delete", !.subs = {s}, !.admin = admin, !.status = sub[s].status])
    /\ UNCHANGED <<sub, photos, attachments, published, files, used, review, lost, crashes>>

\* The rows of the submissions and their photos go; published photos stay.
Removed(gone, ps) ==
    /\ sub' = [s \in Submissions |-> IF s \in gone THEN [Absent EXCEPT !.status = "removed"] ELSE sub[s]]
    /\ photos' = [s \in Submissions |-> IF s \in gone THEN {} ELSE photos[s]]
    /\ attachments' = attachments \ ps

\* Mutant: the files of published photos are removed too.
deleteAllPhotos(r) ==
    /\ req[r].at = "delete" /\ Unreviewed(r)
    /\ Removed({The(r)}, photos[The(r)] \ published)
    /\ Unlink(r, photos[The(r)])
    /\ UNCHANGED <<published, files, used, review, lost, crashes, requests>>
removeSubmission(r) ==
    /\ req[r].at = "delete" /\ Unreviewed(r)
    /\ Removed({The(r)}, photos[The(r)] \ published)
    /\ Unlink(r, photos[The(r)] \ published)
    /\ UNCHANGED <<published, files, used, review, lost, crashes, requests>>

\* Announced photos that never came, ten minutes on, and nothing else.
Orphaned(s) == sub[s].status = "pending" /\ sub[s].announced /\ sub[s].old /\ photos[s] = {} /\ ~sub[s].content

selectOrphans ==
    /\ \E s \in Submissions : Orphaned(s)
    /\ Begin("orphans", [Idle EXCEPT !.at = "orphans", !.subs = {s \in Submissions : Orphaned(s)}])
    /\ UNCHANGED <<sub, photos, attachments, published, files, used, review, lost, crashes>>

\* The condition is evaluated once more with the rows locked.
cleanupOrphanedSubmissions(r) ==
    /\ req[r].at = "orphans"
    /\ Removed({s \in req[r].subs : Orphaned(s)}, {})
    /\ End(r)
    /\ UNCHANGED <<published, files, used, review, lost, crashes, requests>>

RejectedWithPhotos(s) == sub[s].status = "rejected" /\ photos[s] # {}

\* The task looks for them, and so does an administrator's request.
selectRejected(r) ==
    /\ \E s \in Submissions : RejectedWithPhotos(s)
    /\ Begin(r, [Idle EXCEPT !.at = "rejected", !.subs = {s \in Submissions : RejectedWithPhotos(s)}])
    /\ UNCHANGED <<sub, photos, attachments, published, files, used, review, lost, crashes>>

removeRejectedSubmissionPhotos(r) ==
    LET of == {s \in req[r].subs : RejectedWithPhotos(s)}
        ps == (UNION {photos[s] : s \in of}) \ published
    IN  /\ req[r].at = "rejected"
        /\ photos' = [s \in Submissions |-> IF s \in of THEN {} ELSE photos[s]]
        /\ attachments' = attachments \ ps
        /\ sub' = [s \in Submissions |-> IF s \in of THEN [sub[s] EXCEPT !.announced = FALSE] ELSE sub[s]]
        /\ Unlink(r, ps)
        /\ UNCHANGED <<published, files, used, review, lost, crashes, requests>>

\* The process dies: files it was about to name or to remove stay on disk.
Crash(r) ==
    /\ req[r] # Idle /\ crashes < MaxCrashes
    /\ crashes' = crashes + 1
    /\ lost' = IF req[r].at \in {"upload", "unlink"} THEN lost \cup req[r].photos ELSE lost
    /\ End(r)
    /\ UNCHANGED <<sub, photos, attachments, published, files, used, review, requests>>

-----------------------------------------------------------------------------

Commit(r) ==
    \/ storePhotos(r) \/ failUpload(r) \/ removeSubmissionPhoto(r) \/ deletePhotoFiles(r)
    \/ \E content \in BOOLEAN : updateSubmission(r, content)
    \/ \E sends \in BOOLEAN : readForReview(r, sends)
    \/ \E gone \in SUBSET published : approveSubmissionAction(r, gone)
    \/ rejectSubmissionAction(r) \/ Refuse(r) \/ removeSubmission(r)
    \/ cleanupOrphanedSubmissions(r) \/ removeRejectedSubmissionPhotos(r)

Next ==
    \/ \E s \in Submissions : GrowOld(s) \/ \E content, announced \in BOOLEAN : processSubmission(s, content, announced)
    \/ \E r \in Requests, s \in Submissions :
         \/ uploadSubmissionPhotos(r, s) \/ findEditableSubmission(r, s) \/ Show(r, s)
         \/ \E admin \in BOOLEAN : readForRemoval(r, s, admin)
         \/ \E p \in Photos : findPhotoEditableSubmission(r, s, p)
    \/ \E r \in Requests, p \in Photos : writePhotoFiles(r, p)
    \/ \E r \in Actors : Commit(r) \/ Crash(r)
    \/ \E r \in Requests \cup {"rejected"} : selectRejected(r)
    \/ selectOrphans

Spec == Init /\ [][Next]_vars

-----------------------------------------------------------------------------
(* Properties *)

TypeOK ==
    /\ sub \in [Submissions -> [status : Statuses, updated : Nat, draft : 0 .. MaxEdits + Cardinality(Requests),
                                content : BOOLEAN, announced : BOOLEAN, old : BOOLEAN]]
    /\ photos \in [Submissions -> SUBSET Photos]
    /\ attachments \subseteq Photos /\ published \subseteq Photos /\ files \subseteq used /\ used \subseteq Photos /\ lost \subseteq used
    /\ \A r \in Actors : req[r].at \in {"idle", "upload", "remove", "unlink", "edit", "shown", "review", "delete", "orphans", "rejected"}
    /\ crashes \in 0 .. MaxCrashes /\ requests \in 0 .. MaxRequests

\* A photo that can be shown has its file: what a location shows has an
\* attachment, and an attachment has its file, whichever of upload, removal,
\* review and clean-up come between each other, and whoever dies.
ShownPhotosExist == published \subseteq attachments /\ attachments \subseteq files

\* A file on disk has an attachment, or a request that will name or remove it
\* is under way. Only a process that died leaves a file behind.
NoStrayFiles == files \subseteq attachments \cup lost \cup UNION {req[r].photos : r \in Actors}

\* An attachment belongs to a submission or is shown at a location.
NoStrayAttachments == attachments \subseteq published \cup UNION {photos[s] : s \in Submissions}

\* Uploads that overlap do not exceed the limit together.
PhotoLimitKept == \A s \in Submissions : Cardinality(photos[s]) <= PhotoLimit

\* A photo that was published leaves the location through an approved
\* submission that takes it off only: its uploader cannot remove it any more.
PublishedStays ==
    \A p \in published : p \notin published' => \E s \in Submissions : sub[s].status = "pending" /\ sub'[s].status = "approved"

\* A submission is reviewed once, its content stays as reviewed, and it is
\* removed after the review by an administrator only.
ReviewIsFinal == [][\A s \in Submissions : sub[s].status \in {"approved", "rejected"} =>
                      \/ sub'[s].status = sub[s].status /\ sub'[s].draft = sub[s].draft
                      \/ sub'[s].status = "removed" /\ \E r \in Requests : req[r].at = "delete" /\ req[r].admin /\ req'[r] # req[r]]_vars

\* The clean-up of submissions whose photos never came removes none that has
\* got photos or content by then.
CleanupSparesContent == [][\A s \in Submissions : (Exists(s) /\ sub'[s].status = "removed" /\ (photos[s] # {} \/ sub[s].content)) =>
                              \E r \in Requests : req[r].at = "delete" /\ req'[r] # req[r]]_vars

\* Where the reviewer sent expectedUpdatedAt, the content that was applied is
\* the content the reviewer was shown.
AppliedAsShown == \A s \in Submissions : review[s].by = "version" => review[s].draft = review[s].seen.draft

=============================================================================
