----------------------------- MODULE MCStations -----------------------------
(***************************************************************************)
(* What users contribute to the stations, on small instances: submissions  *)
(* with their photos and reviews, stations that move between locations     *)
(* with the photos they show, and the reverts of what the audit log has.   *)
(* A behaviour belongs to one of these parts and the others stand still:   *)
(* each part models the rows that it works on, and no part reads the rows  *)
(* of another one.                                                         *)
(***************************************************************************)
EXTENDS Contributions, Integers, Sequences, FiniteSets

CONSTANTS
  s2, p1,            \* a submission and a photo
  Stations, l1, l2, l3, Places, a1, a2, m1, m2,
  x2, v2             \* a record and a revert

VARIABLES
  part,
  status, loc, place, locationPhotos, sel, main, stored, uploaded, moves

submissionVars == <<sub, photos, attachments, published, files, used, req, review, lost, crashes, requests>>
locationVars == <<status, loc, place, locationPhotos, sel, main, stored, uploaded, moves>>
auditVars == <<value, ops, entries, tx, rev>>

\* A submission whose photos are uploaded, published and removed, and one that
\* takes the photos of another off the location.
Uploads == INSTANCE Submissions WITH MaxEdits <- 0, MaxRequests <- 4
Picks == INSTANCE Submissions WITH Photos <- {p1}, MaxEdits <- 0, MaxCrashes <- 0, MaxRequests <- 3

\* One submission that is edited, reviewed, removed and cleaned up.
Reviews == INSTANCE Submissions WITH Photos <- {p1}, MaxCrashes <- 0

OneSubmission == sub'[s2] = sub[s2]

\* Stations that move one after the other, such as lose their location on
\* request, and such as move at the same time.
Moves == INSTANCE StationLocations
           WITH Locations <- {l1, l2}, Attachments <- {a1, a2}, Requests <- {m1}, Detaching <- FALSE,
                photos <- locationPhotos, attachments <- stored, used <- uploaded, req <- moves
Detachments == INSTANCE StationLocations
                 WITH Locations <- {l1, l2, l3}, Attachments <- {a1}, Requests <- {m1}, Detaching <- TRUE,
                      photos <- locationPhotos, attachments <- stored, used <- uploaded, req <- moves
Overlaps == INSTANCE StationLocations
              WITH Locations <- {l1, l2}, Attachments <- {a1}, Requests <- {m1, m2}, Detaching <- FALSE,
                   photos <- locationPhotos, attachments <- stored, used <- uploaded, req <- moves

\* Two reverts at once, one among edits of two records, and two in turn of one
\* operation.
Edits == INSTANCE AuditRevert WITH MaxEntries <- 3

OneRecord == \A w \in Writers : tx'[w].rec # x2
OneRevert == rev'[v2] = rev[v2]
NoKeys == \A w \in Writers : tx'[w].key = Audit!NoKey

ASSUME /\ Proposals!SubmissionsAssumption /\ Audit!AuditRevertAssumption
       /\ Moves!StationLocationsAssumption /\ Detachments!StationLocationsAssumption

Init ==
  /\ part \in {"photos", "picks", "reviews", "moves", "detachments", "overlaps", "races", "edits", "halves"}
  /\ Proposals!Init /\ Audit!Init
  /\ CASE part = "overlaps" -> Overlaps!Init [] part = "detachments" -> Detachments!Init [] OTHER -> Moves!Init

Next ==
  \/ part = "photos" /\ Uploads!Next /\ OneSubmission /\ UNCHANGED <<part, locationVars, auditVars>>
  \/ part = "picks" /\ Picks!Next /\ UNCHANGED <<part, locationVars, auditVars>>
  \/ part = "reviews" /\ Reviews!Next /\ OneSubmission /\ UNCHANGED <<part, locationVars, auditVars>>
  \/ part = "moves" /\ Moves!Next /\ UNCHANGED <<part, submissionVars, auditVars>>
  \/ part = "detachments" /\ Detachments!Next /\ UNCHANGED <<part, submissionVars, auditVars>>
  \/ part = "overlaps" /\ Overlaps!Next /\ UNCHANGED <<part, submissionVars, auditVars>>
  \/ part = "races" /\ Edits!Next /\ OneRecord /\ NoKeys /\ UNCHANGED <<part, submissionVars, locationVars>>
  \/ part = "edits" /\ Edits!Next /\ OneRevert /\ UNCHANGED <<part, submissionVars, locationVars>>
  \/ part = "halves" /\ Audit!Next /\ OneRecord /\ OneRevert /\ UNCHANGED <<part, submissionVars, locationVars>>

Spec == Init /\ [][Next]_<<part, submissionVars, locationVars, auditVars>>

\* No photo is left without a location or shown from another one, and stations
\* take theirs along; a location goes with its last station and not before.
\* Where changes overlap, or a station loses its location on request, less is
\* promised (migrateStationPhotosToLocation, deleteEmptiedLocation).
StationsKeepTheirPhotos ==
  /\ [](CASE part = "overlaps" -> Overlaps!TypeOK [] part = "detachments" -> Detachments!TypeOK [] OTHER -> Moves!TypeOK)
  /\ [](Moves!OneMainPhoto /\ Moves!AttachmentsArePhotos)
  /\ [](part \notin {"detachments", "overlaps"} => Moves!ShownFromItsLocation)
  /\ [][part # "overlaps" => Moves!OccupiedLocationStays /\ Moves!EmptiedLocationGoes]_locationVars
  /\ [][part \notin {"detachments", "overlaps"} => Moves!PhotosFollowTheStation]_locationVars
=============================================================================
