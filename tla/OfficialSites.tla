---------------------------- MODULE OfficialSites ----------------------------
(***************************************************************************)
(* The sites and permits of one official source, and how the releases of   *)
(* its datasets change them (features/official/import/sites/).  A release  *)
(* is a file of published lines; it is staged, guarded slice by slice and  *)
(* applied in one ownership transaction, which is one step here            *)
(* (ImportRuns shows that the runs of a source do so one at a time).  The  *)
(* end of a run archives the permits that no dataset lists and deletes the *)
(* sites and locations that nothing holds.                                 *)
(*                                                                         *)
(* A site is its key: the reference of the source, or its code and its     *)
(* operator; a place is the key of a location.  What a permit is compared  *)
(* by (label, decision, expiry) is its number.  Addresses, regions and     *)
(* licensees are left out: a line without a known one is not staged.       *)
(***************************************************************************)
EXTENDS Naturals, Sequences, FiniteSets, FiniteSetsExt

CONSTANTS
  SiteKeys,           \* the sites that the source may publish
  Places,             \* the places where it may put them
  Datasets,
  Slices,
  Releases,           \* Releases[d]: the sets of slices that a release of d covers
  Lines,              \* Lines[d]: the lines that d may publish
  MaxLines,           \* the longest file
  YieldsTo,           \* YieldsTo[d]: the datasets that place a site before d
  ListsEverySector,   \* the datasets of kind inventory or registration
  HoldShrinkPercent,
  PageSize,           \* STATEMENT_BATCH_SIZE
  None

PermitOf(line) == <<line.site, line.permit>>

AllLines == UNION {Lines[d] : d \in Datasets}

Permits == {PermitOf(line) : line \in AllLines}

\* The sources publish a permit in one slice of a dataset: a slice is a band
\* label, an operator or a department, which the permit or its site names.
SlicesDiffer ==
  \A d \in Datasets : \A a, b \in Lines[d] : PermitOf(a) = PermitOf(b) => a.slice = b.slice

VARIABLES
  sites,       \* the place of every stored site
  locations,   \* the stored locations
  permits,     \* the status and the sectors of every stored permit
  listings,    \* the dataset and slice that list a permit
  phase,       \* of the run of the source
  settled,     \* the slices that have their checkpoint in this run
  changes,     \* import_changes of this run
  applied,     \* history: the lines of every slice as they were applied last
  named,       \* history: where a dataset that others yield to has put a site
               \* since it began to list it
  before       \* history: the sites and permits when the run began

rows == <<sites, locations, permits, listings>>

vars == <<sites, locations, permits, listings, phase, settled, changes, applied, named, before>>

Statuses == {line.status : line \in AllLines}
Sectors == UNION {line.sectors : line \in AllLines}
Kinds == {"site_added", "site_moved", "permit_added", "permit_listed", "permit_unlisted", "permit_archived"}

\* Rows have the columns of their tables, and the references between them hold.
TypeOK ==
  /\ sites \in [SiteKeys -> Places \union {None}]
  /\ locations \subseteq Places
  /\ {sites[s] : s \in SiteKeys} \subseteq locations \union {None}
  /\ DOMAIN permits \subseteq Permits
  /\ \A p \in DOMAIN permits : permits[p] \in [status : Statuses, sectors : SUBSET Sectors] /\ sites[p[1]] # None
  /\ listings \subseteq [permit : DOMAIN permits, dataset : Datasets, slice : Slices]
  /\ phase \in {"idle", "datasets", "unlisted_permits", "orphans"}
  /\ settled \subseteq Datasets \X Slices
  /\ changes \subseteq [kind : Kinds, of : SiteKeys \union Permits]
  /\ applied \in [Datasets -> [Slices -> SUBSET AllLines]]
  /\ named \in [SiteKeys -> SUBSET Places]

Init ==
  /\ sites = [s \in SiteKeys |-> None]
  /\ locations = {}
  /\ permits = << >>
  /\ listings = {}
  /\ phase = "idle"
  /\ settled = {}
  /\ changes = {}
  /\ applied = [d \in Datasets |-> [s \in Slices |-> {}]]
  /\ named = [s \in SiteKeys |-> {}]
  /\ before = [sites |-> sites, permits |-> {}]

-----------------------------------------------------------------------------
(* Staging.                                                                *)

SameRow(a, b) ==
  /\ a.slice = b.slice
  /\ a.site = b.site
  /\ a.place = b.place
  /\ a.permit = b.permit

\* The lines of one permit at one place become one row: the first line gives its
\* number in the file and its status, all of them its sectors.
StagedRows(file) ==
  {[slice |-> file[i].slice, site |-> file[i].site, place |-> file[i].place, permit |-> file[i].permit,
    ordinal |-> i, status |-> file[i].status,
    sectors |-> UNION {file[j].sectors : j \in {j \in DOMAIN file : SameRow(file[i], file[j])}}] :
     i \in {i \in DOMAIN file : \A j \in 1..(i - 1) : ~SameRow(file[i], file[j])}}

countLiveListings(d, slice) == Cardinality({l \in listings : l.dataset = d /\ l.slice = slice})

decideSlice(stagedCount, liveCount, isApproved) ==
  \/ isApproved
  \/ stagedCount = 0 /\ liveCount = 0
  \/ stagedCount > 0 /\ stagedCount * 100 >= liveCount * (100 - HoldShrinkPercent)

AppliedSlices(d, covered, staged, approvals) ==
  {s \in covered : decideSlice(Cardinality({r \in staged : r.slice = s}), countLiveListings(d, s), s \in approvals)}

RowsOf(staged, p) == {r \in staged : PermitOf(r) = p}

StagedPermits(staged) == {PermitOf(r) : r \in staged}

-----------------------------------------------------------------------------
(* Sites.                                                                  *)

NamedPlaces(staged, site) == {r.place : r \in {r \in staged : r.site = site}}

FirstOrdinal(staged, site, place) == Min({r.ordinal : r \in {r \in staged : r.site = site /\ r.place = place}})

\* Of the places that a file names, the one that it names last for the first time.
LastNamedPlace(staged, site) ==
  CHOOSE place \in NamedPlaces(staged, site) :
    \A other \in NamedPlaces(staged, site) : FirstOrdinal(staged, site, place) >= FirstOrdinal(staged, site, other)

isPlacedByAnyOf(datasets, site) == \E l \in listings : l.permit[1] = site /\ l.dataset \in datasets

\* Mutant: a site is moved whichever dataset has placed it.
MovesUnyielding(d, staged, site) ==
  /\ sites[site] # None
  /\ NamedPlaces(staged, site) # {}
  /\ sites[site] \notin NamedPlaces(staged, site)

\* A stored site moves if the file names it, but not where it stands, and no
\* stronger dataset has placed it.
isMoved(d, staged, site) ==
  /\ sites[site] # None
  /\ NamedPlaces(staged, site) # {}
  /\ sites[site] \notin NamedPlaces(staged, site)
  /\ ~isPlacedByAnyOf(YieldsTo[d], site)

\* A place that is not stored yet is stored, whether or not a site moves to it.
StoredPlaces(staged) == locations \union {r.place : r \in staged}

isAdded(staged, site) == sites[site] = None /\ NamedPlaces(staged, site) # {}

-----------------------------------------------------------------------------
(* Permits and their listings.                                             *)

AddedPermits(staged) == StagedPermits(staged) \ DOMAIN permits

\* Two rows of a new permit that differ in their status are two rows to insert:
\* the unique constraint of the permits refuses the release.
InsertRefused(staged) ==
  \E a, b \in staged : PermitOf(a) = PermitOf(b) /\ PermitOf(a) \in AddedPermits(staged) /\ a.status # b.status

\* The status is overwritten by that of any row that differs from it.
StatusesAfter(staged, p) ==
  LET published == {r.status : r \in RowsOf(staged, p)}
  IN IF p \in DOMAIN permits /\ published \subseteq {permits[p].status} THEN {permits[p].status}
     ELSE IF p \in DOMAIN permits THEN published \ {permits[p].status}
     ELSE published

\* A dataset that lists every sector takes away those that it does not list.
SectorsAfter(d, staged, p) ==
  LET published == UNION {r.sectors : r \in RowsOf(staged, p)}
  IN IF p \in DOMAIN permits /\ d \notin ListsEverySector THEN permits[p].sectors \union published ELSE published

\* A permit is listed once per dataset, with the slice of its first row.
FreshListing(d, staged, p) ==
  [permit |-> p, dataset |-> d,
   slice |-> (CHOOSE r \in RowsOf(staged, p) : \A o \in RowsOf(staged, p) : r.ordinal <= o.ordinal).slice]

isListed(d, p) == \E l \in listings : l.permit = p /\ l.dataset = d

\* The listings of the applied slices that the release does not name.
Unlisted(d, slices, staged) ==
  {l \in listings : l.dataset = d /\ l.slice \in slices /\ l.permit \notin StagedPermits(staged)}

ListingsAfter(d, slices, staged) ==
  {l \in listings \ Unlisted(d, slices, staged) : ~(l.dataset = d /\ l.permit \in StagedPermits(staged))}
    \union {FreshListing(d, staged, p) : p \in StagedPermits(staged)}

\* What the release has changed.
ChangesOf(d, slices, staged) ==
  {[kind |-> "site_added", of |-> s] : s \in {s \in SiteKeys : isAdded(staged, s)}}
    \union {[kind |-> "site_moved", of |-> s] : s \in {s \in SiteKeys : isMoved(d, staged, s)}}
    \union {[kind |-> IF p \in AddedPermits(staged) THEN "permit_added" ELSE "permit_listed", of |-> p] :
              p \in {p \in StagedPermits(staged) : ~isListed(d, p)}}
    \union {[kind |-> "permit_unlisted", of |-> l.permit] : l \in Unlisted(d, slices, staged)}

-----------------------------------------------------------------------------
(* A run: its releases, and the steps after them.                          *)

BeginRun ==
  /\ phase = "idle"
  /\ phase' = "datasets"
  /\ settled' = {}
  /\ changes' = {}
  /\ before' = [sites |-> sites, permits |-> DOMAIN permits]
  /\ UNCHANGED <<rows, applied, named>>

\* Of the datasets that others yield to: where they have put the site.
NamedAfter(d, staged) ==
  [s \in SiteKeys |->
     LET stronger == UNION {YieldsTo[o] : o \in Datasets}
         listed == \E l \in listings' : l.permit[1] = s /\ l.dataset \in stronger
     IN IF ~listed THEN {}
        ELSE IF d \in stronger THEN named[s] \union NamedPlaces(staged, s) ELSE named[s]]

applySites(d, slices, staged, file) ==
  /\ sites' = [s \in SiteKeys |-> IF isAdded(staged, s) \/ isMoved(d, staged, s) THEN LastNamedPlace(staged, s) ELSE sites[s]]
  /\ locations' = StoredPlaces(staged)
  /\ \E status \in [StagedPermits(staged) -> Statuses] :
       /\ \A p \in StagedPermits(staged) : status[p] \in StatusesAfter(staged, p)
       /\ permits' = [p \in DOMAIN permits \union StagedPermits(staged) |->
                        IF p \in StagedPermits(staged) THEN [status |-> status[p], sectors |-> SectorsAfter(d, staged, p)]
                        ELSE permits[p]]
  /\ listings' = ListingsAfter(d, slices, staged)
  /\ changes' = changes \union ChangesOf(d, slices, staged)
  /\ applied' = [applied EXCEPT ![d] =
                   [s \in Slices |-> IF s \in slices THEN {file[i] : i \in {i \in DOMAIN file : file[i].slice = s}} ELSE @[s]]]
  /\ named' = NamedAfter(d, staged)

\* Stage, guard and apply a release, and save its checkpoints.
SettleRelease(d, covered, file, approvals) ==
  LET staged == StagedRows(file)
      slices == AppliedSlices(d, covered, staged, approvals)
      kept == {r \in staged : r.slice \in slices}
  IN /\ phase = "datasets"
     /\ \A s \in covered : <<d, s>> \notin settled
     /\ ~InsertRefused(kept)
     /\ IF slices = {} THEN UNCHANGED <<rows, changes, applied, named>> ELSE applySites(d, slices, kept, file)
     /\ settled' = settled \union {<<d, s>> : s \in covered}
     /\ UNCHANGED <<phase, before>>

\* The datasets have all been gone through, or have failed.
EndDatasets ==
  /\ phase = "datasets"
  /\ phase' = "unlisted_permits"
  /\ UNCHANGED <<rows, settled, changes, applied, named, before>>

UnlistedPermits == {p \in DOMAIN permits : \A l \in listings : l.permit # p}

\* A page of the permits that no dataset lists, in one transaction (a listing
\* would go with its permit).  The last page is shorter than the others.
ArchivePage ==
  /\ phase = "unlisted_permits"
  /\ LET unlisted == UnlistedPermits
     IN \E page \in SUBSET unlisted :
          /\ Cardinality(page) = Min({PageSize, Cardinality(unlisted)})
          /\ changes' = changes \union {[kind |-> "permit_archived", of |-> p] : p \in page}
          /\ permits' = [p \in DOMAIN permits \ page |-> permits[p]]
          /\ listings' = {l \in listings : l.permit \notin page}
          /\ phase' = IF Cardinality(page) < PageSize THEN "orphans" ELSE phase
  /\ UNCHANGED <<sites, locations, settled, applied, named, before>>

\* Sites without permits go, then locations without sites.
Orphans ==
  /\ phase = "orphans"
  /\ LET kept == {s \in SiteKeys : \E p \in DOMAIN permits : p[1] = s}
     IN /\ sites' = [s \in SiteKeys |-> IF s \in kept THEN sites[s] ELSE None]
        /\ locations' = {sites[s] : s \in kept}
  /\ phase' = "idle"
  /\ UNCHANGED <<permits, listings, settled, changes, applied, named, before>>

\* A run may fail, or be cancelled, after any of its transactions.
EndRun ==
  /\ phase # "idle"
  /\ phase' = "idle"
  /\ UNCHANGED <<rows, settled, changes, applied, named, before>>

FilesOf(d, covered) ==
  UNION {[1..n -> {line \in Lines[d] : line.slice \in covered}] : n \in 0..MaxLines}

Next ==
  \/ BeginRun
  \/ \E d \in Datasets : \E covered \in Releases[d] : \E file \in FilesOf(d, covered), approvals \in SUBSET covered :
       SettleRelease(d, covered, file, approvals)
  \/ EndDatasets
  \/ ArchivePage
  \/ Orphans
  \/ EndRun

Spec == Init /\ [][Next]_vars

-----------------------------------------------------------------------------

\* A slice lists exactly the permits that its last applied release published,
\* whatever became of the other slices of the release and of other datasets.
ListedIsPublished ==
  \A d \in Datasets, s \in Slices :
    {l.permit : l \in {l \in listings : l.dataset = d /\ l.slice = s}} = {PermitOf(line) : line \in applied[d][s]}

\* A site that a stronger dataset lists stands where that dataset has put it: a
\* dataset that yields its placement never gets it to a place of its own.
PlacedByStronger ==
  \A s \in SiteKeys : isPlacedByAnyOf(UNION {YieldsTo[d] : d \in Datasets}, s) => sites[s] \in named[s]

\* A permit that some dataset still publishes keeps its row, and a site that a
\* permit belongs to keeps its own: identities survive the move of a permit
\* from one dataset to another, and the failure of a run in between.
PublishedKeepsItsRow ==
  \A d \in Datasets, s \in Slices : \A line \in applied'[d][s] :
    /\ PermitOf(line) \in DOMAIN permits => PermitOf(line) \in DOMAIN permits'
    /\ sites[line.site] # None => sites'[line.site] # None

\* The changes of a run tell every permit that it has stored or archived, and
\* every site that it has added or moved: notifications are made from them.
ChangesTellTheRun ==
  phase # "idle" =>
    /\ \A p \in DOMAIN permits \ before.permits : [kind |-> "permit_added", of |-> p] \in changes
    /\ \A p \in before.permits \ DOMAIN permits : [kind |-> "permit_archived", of |-> p] \in changes
    /\ \A s \in SiteKeys :
         /\ before.sites[s] = None /\ sites[s] # None => [kind |-> "site_added", of |-> s] \in changes
         /\ before.sites[s] # None /\ sites[s] # before.sites[s] => [kind |-> "site_moved", of |-> s] \in changes

\* In a source of one inventory, a listed permit has the sectors that the last
\* release of its slice published, and one of the states it gave it.
DetailsArePublished ==
  \A d \in Datasets, s \in Slices : \A line \in applied[d][s] :
    LET published == {other \in applied[d][s] : PermitOf(other) = PermitOf(line)}
    IN /\ permits[PermitOf(line)].sectors = UNION {other.sectors : other \in published}
       /\ permits[PermitOf(line)].status \in {other.status : other \in published}

=============================================================================
