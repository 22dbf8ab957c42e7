---------------------------- MODULE Contributions ----------------------------
(***************************************************************************)
(* What users contribute, and how it is taken back, each with its own      *)
(* state, and what is to hold of each:                                     *)
(*   Proposals  submissions with their photos and reviews;                 *)
(*   Audit      the log of changes and its reverts.                        *)
(***************************************************************************)
CONSTANTS
  Submissions, Photos, Requests, PhotoLimit, MaxEdits, MaxCrashes, MaxRequests,
  Records, Values, Initial, Keys, Writers, Reverters, MaxOperations, MaxEntries

VARIABLES
  sub, photos, attachments, published, files, used, req, review, lost, crashes, requests,
  value, ops, entries, tx, rev

Proposals == INSTANCE Submissions
Audit == INSTANCE AuditRevert

\* Every photo that is shown has its file and every file its photo, and what is
\* published stays, whichever requests overlap and whoever dies (photos.ts,
\* actions.ts, the clean-ups).
PhotosKept ==
  /\ [](Proposals!TypeOK /\ Proposals!ShownPhotosExist /\ Proposals!NoStrayFiles /\ Proposals!NoStrayAttachments
          /\ Proposals!PhotoLimitKept)
  /\ [][Proposals!PublishedStays]_(Proposals!vars)

\* What is applied is what the reviewer was shown, and a review is final
\* (lockPendingSubmission, updateSubmission, cleanupOrphanedSubmissions).
ReviewedAsShown ==
  [](Proposals!TypeOK /\ Proposals!AppliedAsShown) /\ Proposals!ReviewIsFinal /\ Proposals!CleanupSparesContent

\* Every entry is put back at most once, the markers say which ones are, and a
\* revert overwrites no later edit (applyRevert, recomputeMarkerChain).
RevertsAreSound ==
  /\ [](Audit!TypeOK /\ Audit!MarkersTellCoverage /\ Audit!RevertedAtMostOnce)
  /\ Audit!ClosedOnceReverted
  /\ [][Audit!LaterEditsSurvive]_(Audit!vars)
=============================================================================
