-------------------------- MODULE StationLocations --------------------------
(***************************************************************************)
(* Stations, their locations, and the photos of a location of which each   *)
(* station shows some (features/submissions/actions.ts, features/stations, *)
(* features/locations, features/photos). A change that takes stations off  *)
(* a location deletes the location once no station is left there.          *)
(*                                                                         *)
(* Transactions run READ COMMITTED. One that may delete a location is two  *)
(* steps: it moves its stations and counts who is left, unseen by others;  *)
(* then it moves the photos, deletes what it counted as empty and commits. *)
(* The row of a moved station, and the location it moves to, stay locked   *)
(* in between. Any other transaction is one step. A transaction may fail   *)
(* at any point, as the victim of a deadlock for one.                      *)
(*                                                                         *)
(* A location photo is its location and its attachment, which are unique   *)
(* together. A place is a pair of coordinates. Stations are numbered in    *)
(* the order of their ids. Every inactive station counts as expired.       *)
(***************************************************************************)
EXTENDS Integers, FiniteSets, SequencesExt

CONSTANTS Stations, Locations, Places, Attachments, Requests,
          Detaching        \* whether stations lose their location on request

StationLocationsAssumption == Stations \subseteq Nat /\ IsFiniteSet(Stations) /\ Detaching \in BOOLEAN

VARIABLES status,       \* stations.status: absent (no row), active, inactive, deleted
          loc,          \* stations.location_id
          place,        \* the coordinates of a location; unused before it is inserted
          photos,       \* location_photos
          sel,          \* station_photo_selections: station and photo
          main,         \* the selections with is_main
          attachments,  \* attachments
          used,         \* the attachments ever uploaded
          req           \* the transactions under way

vars == <<status, loc, place, photos, sel, main, attachments, used, req>>

None == "none"
Photo == Locations \X Attachments
Idle == [how |-> "idle", stations |-> {}, from |-> {}, to |-> None, at |-> None, empty |-> {}]
Hows == {"idle", "move", "whole", "patch", "detach", "expire", "delete"}

TypeOK ==
    /\ status \in [Stations -> {"absent", "active", "inactive", "deleted"}]
    /\ loc \in [Stations -> Locations \cup {None}]
    /\ place \in [Locations -> Places \cup {"unused", "gone"}]
    /\ photos \subseteq Photo
    /\ sel \subseteq Stations \X photos /\ main \subseteq sel
    /\ attachments \subseteq used /\ used \subseteq Attachments
    /\ req \in [Requests -> [how : Hows, stations : SUBSET Stations, from : SUBSET Locations,
                             to : Locations \cup {None}, at : Places \cup {None}, empty : SUBSET Locations]]

Init ==
    /\ status = [s \in Stations |-> "absent"] /\ loc = [s \in Stations |-> None]
    /\ place = [l \in Locations |-> "unused"]
    /\ photos = {} /\ sel = {} /\ main = {} /\ attachments = {} /\ used = {}
    /\ req = [r \in Requests |-> Idle]

Exists(s) == status[s] \in {"active", "inactive"}
Live(l) == place[l] \in Places
At(l) == {s \in Stations : loc[s] = l}
Locked(s) == \E r \in Requests : s \in req[r].stations
PhotosOf(l) == {p \in photos : p[1] = l}
\* Another transaction may begin, or run as a whole.
Free == \E r \in Requests : req[r] = Idle

-----------------------------------------------------------------------------
(* Locations and stations *)

\* The location l at place p: the row that is there, or a row that is inserted.
\* The unique coordinates make an insert wait for another one at p.
upsertLocation(l, p) ==
    \/ place[l] = p
    \/ /\ place[l] = "unused"
       /\ \A k \in Locations : place[k] # p
       /\ \A r \in Requests : req[r].at # p /\ req[r].to # l

findOrCreateLocation(l, p) ==
    /\ Free
    /\ upsertLocation(l, p)
    /\ place' = [place EXCEPT ![l] = p]
    /\ UNCHANGED <<status, loc, photos, sel, main, attachments, used, req>>

\* A new station with a location (applyNewSubmission).
applyNewSubmission(s, l, p) ==
    /\ Free
    /\ status[s] = "absent"
    /\ upsertLocation(l, p)
    /\ place' = [place EXCEPT ![l] = p]
    /\ status' = [status EXCEPT ![s] = "active"]
    /\ loc' = [loc EXCEPT ![s] = l]
    /\ UNCHANGED <<photos, sel, main, attachments, used, req>>

\* A location that takes free coordinates with all that is on it.
updateLocation(l, p) ==
    /\ Free
    /\ Live(l)
    /\ \A k \in Locations : place[k] # p
    /\ \A r \in Requests : req[r].at # p
    /\ place' = [place EXCEPT ![l] = p]
    /\ UNCHANGED <<status, loc, photos, sel, main, attachments, used, req>>

deactivateStation(s) ==
    /\ Free
    /\ status[s] = "active" /\ ~Locked(s)
    /\ status' = [status EXCEPT ![s] = "inactive"]
    /\ UNCHANGED <<loc, place, photos, sel, main, attachments, used, req>>

-----------------------------------------------------------------------------
(* The first step of a change that takes stations off a location *)

\* Mutant: inactive stations do not count.
leftAmongActive(from, moved) == {l \in from : \A s \in At(l) \ moved : status[s] # "active"}
\* The locations on which none but the moved stations are left.
remainingResult(from, moved) == {l \in from : At(l) \subseteq moved}

begin(r, how, moved, from, to, at, empty) ==
    /\ req[r] = Idle
    /\ \A s \in moved : ~Locked(s)
    /\ req' = [req EXCEPT ![r] = [how |-> how, stations |-> moved, from |-> from, to |-> to, at |-> at, empty |-> empty]]
    /\ UNCHANGED <<status, loc, place, photos, sel, main, attachments, used>>

Here(s) == {loc[s]} \ {None}

\* A submission or an edit that gives the station s other coordinates.
applyUpdatedLocation(r, s, l, p) ==
    /\ Exists(s)
    /\ loc[s] # None => place[loc[s]] # p
    /\ upsertLocation(l, p)
    /\ begin(r, "move", {s}, Here(s), l, p, remainingResult(Here(s), {s}))

\* The location moves onto another one: all its stations do.
moveWholeLocation(r, s, l) ==
    /\ Exists(s) /\ loc[s] # None
    /\ Live(l) /\ l # loc[s]
    /\ begin(r, "whole", At(loc[s]), Here(s), l, None, Here(s))

\* PATCH /stations/:id with the id of a location.
updateStation(r, s, l) ==
    /\ Exists(s) /\ Live(l) /\ l # loc[s]
    /\ begin(r, "patch", {s}, Here(s), l, None, remainingResult(Here(s), {s}))

\* The station loses its location, but not the photos it shows.
applyStationEditorFields(r, s) ==
    /\ Detaching
    /\ Exists(s) /\ loc[s] # None
    /\ begin(r, "detach", {s}, Here(s), None, None, remainingResult(Here(s), {s}))

cleanupExpiredInactiveStations(r, expired) ==
    /\ expired # {} /\ \A s \in expired : status[s] = "inactive"
    /\ LET from == UNION {Here(s) : s \in expired}
       IN begin(r, "expire", expired, from, None, None, remainingResult(from, expired))

\* DELETE /locations/:id counts the stations before its transaction begins.
deleteLocation(r, l) ==
    /\ Live(l) /\ At(l) = {}
    /\ begin(r, "delete", {}, {l}, None, None, {l})

-----------------------------------------------------------------------------
(* The second step *)

\* The photos, selections and attachments a transaction works on.
Stored == [photos |-> photos, sel |-> sel, main |-> main, attachments |-> attachments]

\* The photos that station s shows, but for those of the location it goes to.
movableSelections(db, s, to) == {x[2] : x \in {y \in db.sel : y[1] = s /\ y[2][1] # to}}

\* Station s takes the photos "chosen" to the location "to", and "rest" goes along.
\* A photo that others show is copied; one that "to" has already is dropped for
\* that one; any other moves, with the selections that refer to it.
carry(db, s, to, chosen, rest, orphaned) ==
    LET target(p) == <<to, p[2]>>
        shared(p) == ~orphaned /\ \E x \in db.sel : x[2] = p /\ x[1] # s
        left == {p \in chosen \cup rest : ~shared(p)}
        follows(x) == \/ x[1] = s /\ x[2] \in chosen
                      \/ x[2] \in left /\ target(x[2]) \notin db.photos
        others == {x \in db.sel : x[2] \notin left /\ ~follows(x)}
        moved(xs) == {<<x[1], target(x[2])>> : x \in {y \in xs : follows(y)}}
    IN [db EXCEPT !.photos = (@ \ left) \cup {target(p) : p \in chosen \cup rest},
                  !.sel = others \cup moved(db.sel),
                  !.main = (others \cap db.main) \cup (moved(db.main) \ others)]

migrateStationPhotosToLocation(db, s, from, to, orphaned) ==
    LET chosen == movableSelections(db, s, to)
        unselected == IF orphaned THEN {p \in db.photos : p[1] = from} \ chosen ELSE {}
    IN carry(db, s, to, chosen, unselected, orphaned)

\* One station after the other; the last one takes the rest.
migrateAll(db, moved, from, to, orphaned) ==
    LET order == SetToSortSeq(moved, <)
        Migrate(d, i) == migrateStationPhotosToLocation(d, order[i], from, to, orphaned /\ i = Len(order))
    IN FoldLeft(Migrate, db, [i \in 1..Len(order) |-> i])

\* Rows go with the location they refer to (ON DELETE CASCADE).
Without(db, gone) ==
    [db EXCEPT !.photos = {p \in @ : p \notin gone},
               !.sel = {x \in @ : x[2] \notin gone},
               !.main = {x \in @ : x[2] \notin gone}]
deleteEmptiedLocation(db, ls) == Without(db, {p \in db.photos : p[1] \in ls})

deleteLocationWithPhotos(db, ls) ==
    LET gone == {p \in db.photos : p[1] \in ls}
        stillReferenced == {p[2] : p \in db.photos \ gone}
    IN [Without(db, gone) EXCEPT !.attachments = @ \ ({p[2] : p \in gone} \ stillReferenced)]

\* The selections of a deleted station go with it.
Removed(db, stations) ==
    [db EXCEPT !.sel = {x \in @ : x[1] \notin stations}, !.main = {x \in @ : x[1] \notin stations}]

Write(db) == /\ photos' = db.photos /\ sel' = db.sel /\ main' = db.main
             /\ attachments' = db.attachments

\* A location is deleted once nobody refers to it in a transaction under way;
\* the stations that are still there lose it (ON DELETE SET NULL).
commit(r) ==
    LET q == req[r]
        gone == {l \in q.empty : Live(l)}
        dropped == {s \in Stations : loc[s] \in gone} \ q.stations
        one == CHOOSE l \in q.from \cup {None} : q.from # {} => l \in q.from
        moved == CASE q.how \in {"move", "patch", "whole"} /\ q.from # {} ->
                         migrateAll(Stored, q.stations, one, q.to, q.empty # {})
                   [] q.how = "expire" -> Removed(Stored, q.stations)
                   [] OTHER -> Stored
    IN /\ q # Idle
       /\ \A t \in Requests \ {r} : req[t].to \notin gone /\ req[t].stations \cap dropped = {}
       /\ loc' = [s \in Stations |-> IF s \in q.stations THEN q.to ELSE IF s \in dropped THEN None ELSE loc[s]]
       /\ status' = [s \in Stations |-> IF q.how = "expire" /\ s \in q.stations THEN "deleted" ELSE status[s]]
       /\ place' = [l \in Locations |-> IF l \in gone THEN "gone" ELSE IF l = q.to /\ place[l] = "unused" THEN q.at ELSE place[l]]
       /\ Write(IF q.how \in {"move", "whole"} THEN deleteEmptiedLocation(moved, gone) ELSE deleteLocationWithPhotos(moved, gone))
       /\ req' = [req EXCEPT ![r] = Idle]
       /\ UNCHANGED used

rollback(r) ==
    /\ req[r] # Idle
    /\ req' = [req EXCEPT ![r] = Idle]
    /\ UNCHANGED <<status, loc, place, photos, sel, main, attachments, used>>

-----------------------------------------------------------------------------
(* Photos *)

\* The stations in s show p: as their main photo when it is marked as such,
\* which takes the place of the one before, or when they have none.
selectPhoto(s, p, isMain) ==
    /\ sel' = sel \cup {<<t, p>> : t \in s}
    /\ main' = IF isMain THEN {x \in main : x[1] \notin s} \cup (s \X {p})
               ELSE main \cup {<<t, p>> : t \in {u \in s : \A x \in main : x[1] # u}}

\* A photo of an approved submission; a station that shares the site may get it too.
applyUploadedSubmissionPhotos(s, a, isMain, siblings) ==
    /\ Free
    /\ Exists(s) /\ loc[s] # None /\ a \notin used
    /\ siblings \subseteq At(loc[s]) \ {s} /\ Cardinality(siblings) <= 1
    /\ used' = used \cup {a} /\ attachments' = attachments \cup {a}
    /\ photos' = photos \cup {<<loc[s], a>>}
    /\ selectPhoto({s} \cup siblings, <<loc[s], a>>, isMain)
    /\ UNCHANGED <<status, loc, place, req>>

\* The photos of its location that a station shows, of which one may be main.
replaceStationPhotoSelections(s, ps, chief) ==
    /\ Free
    /\ Exists(s) /\ ps \subseteq PhotosOf(loc[s]) /\ chief \subseteq ps /\ Cardinality(chief) <= 1
    /\ sel' = {x \in sel : x[1] # s} \cup ({s} \X ps)
    /\ main' = {x \in main : x[1] # s} \cup ({s} \X chief)
    /\ UNCHANGED <<status, loc, place, photos, attachments, used, req>>

\* A submission takes the photo p from station s, and from the location when no
\* other station shows it; another photo becomes the main one in its place.
applyLocationPhotoRemovals(s, p, next) ==
    LET rest == {x \in sel : x[1] = s} \ {<<s, p>>}
        orphaned == p[1] = loc[s] /\ \A x \in sel : x[2] = p => x[1] = s
        kept == IF orphaned THEN photos \ {p} ELSE photos
    IN /\ Free
       /\ Exists(s) /\ p \in photos
       /\ sel' = sel \ {<<s, p>>}
       /\ IF <<s, p>> \in main /\ rest # {} THEN next \in rest /\ main' = (main \ {<<s, p>>}) \cup {next}
          ELSE next = <<s, p>> /\ main' = main \ {<<s, p>>}
       /\ photos' = kept
       /\ attachments' = IF orphaned /\ \A q \in kept : q[2] # p[2] THEN attachments \ {p[2]} ELSE attachments
       /\ UNCHANGED <<status, loc, place, used, req>>

\* DELETE /locations/:id/photos/:photo removes the attachment, and with it the
\* photo from every location.
removeLocationPhoto(p) ==
    /\ Free
    /\ p \in photos
    /\ Write([Without(Stored, {q \in photos : q[2] = p[2]}) EXCEPT !.attachments = @ \ {p[2]}])
    /\ UNCHANGED <<status, loc, place, used, req>>

-----------------------------------------------------------------------------
Next ==
    \/ \E l \in Locations, p \in Places : findOrCreateLocation(l, p) \/ updateLocation(l, p)
    \/ \E s \in Stations, l \in Locations, p \in Places : applyNewSubmission(s, l, p)
    \/ \E s \in Stations : deactivateStation(s)
    \/ \E r \in Requests, s \in Stations, l \in Locations :
          \/ \E p \in Places : applyUpdatedLocation(r, s, l, p)
          \/ moveWholeLocation(r, s, l)
          \/ updateStation(r, s, l)
    \/ \E r \in Requests, s \in Stations : applyStationEditorFields(r, s)
    \/ \E r \in Requests, expired \in SUBSET Stations : cleanupExpiredInactiveStations(r, expired)
    \/ \E r \in Requests, l \in Locations : deleteLocation(r, l)
    \/ \E r \in Requests : commit(r) \/ rollback(r)
    \/ \E s \in Stations, a \in Attachments, isMain \in BOOLEAN, siblings \in SUBSET Stations :
          applyUploadedSubmissionPhotos(s, a, isMain, siblings)
    \/ \E s \in Stations, ps \in SUBSET photos, chief \in SUBSET photos : replaceStationPhotoSelections(s, ps, chief)
    \/ \E s \in Stations, p \in photos : \E next \in sel \cup {<<s, p>>} : applyLocationPhotoRemovals(s, p, next)
    \/ \E p \in photos : removeLocationPhoto(p)

Spec == Init /\ [][Next]_vars

-----------------------------------------------------------------------------
(* Properties *)

Shows(s) == {x[2][2] : x \in {y \in sel : y[1] = s}}
Chief(s) == {x[2][2] : x \in {y \in main : y[1] = s}}
Commits == \E r \in Requests : req[r] # Idle /\ req'[r] = Idle
Changed(s) == \E r \in Requests : req'[r] = Idle /\ s \in req[r].stations

\* A location is deleted only when no station is left there, inactive ones
\* included: no station loses its location but by a change that is about it.
OccupiedLocationStays == \A s \in Stations : loc[s] # None /\ loc'[s] = None => Changed(s)

\* A location does not stay behind when its last station leaves it.
EmptiedLocationGoes ==
    \A s \in Stations : loc[s] # None /\ loc'[s] # loc[s] =>
        (\E t \in Stations : loc'[t] = loc[s]) \/ place'[loc[s]] = "gone"

\* A change of locations, of whatever stations, leaves every station that has
\* one the photos it shows and its main photo.
PhotosFollowTheStation ==
    Commits => \A s \in Stations :
        (Exists(s) /\ loc[s] # None) /\ (Exists(s) /\ loc[s] # None)' => Shows(s)' = Shows(s) /\ Chief(s)' = Chief(s)

\* A station shows photos of the location it is at.
ShownFromItsLocation == \A x \in sel : loc[x[1]] # None => x[2][1] = loc[x[1]]

\* A station has at most one main photo.
OneMainPhoto == \A s \in Stations : Cardinality(Chief(s)) <= 1

\* Every attachment that has been published is a photo of some location, and
\* every photo has its attachment: no file is left behind, none is missing.
AttachmentsArePhotos == attachments = {p[2] : p \in photos}
=============================================================================
