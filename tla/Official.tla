------------------------------ MODULE Official ------------------------------
(***************************************************************************)
(* Four parts of the official data that stand beside the runs of the       *)
(* import, each with its own state, and what is to hold of each:           *)
(*   Schedule  the checks and requests that queue runs;                    *)
(*   Remap     the rows of a licensee that gets another operator;          *)
(*   Links     the links between stations and sites;                       *)
(*   Microwave the microwave links of a dataset.                           *)
(***************************************************************************)
CONSTANTS
  Sources, Datasets, SourceOf, Intervals, Schedulers, Requesters, RequestKinds, CliKinds, MaxTime, Slots,
  Stations, Sites, SourceOfSite, Groups, Locations, Coordinates, Editors, Importer, MaxEdits, MaxImports,
  PermitNumbers, Hops, Widths, Specs, MaxRecords, MaxReleases, HoldShrinkPercent,
  SiteIds, PermitIds, RemapDatasets, RemapOperators, Codes, Values, Licensee, Others, SiteChoices, ListedBy,
  Watched, Mappings, Targets, RemapAttempts, None

VARIABLES
  time, next, every, enabled, run, stage, taken, asked, rows, busy, checked,
  remapSites, remapPermits, remapListings, follows, notices, linked, operatorOf,
  to, attempt, state, remapChanges, remapBefore,
  station, coordinate, site, links, tx, changed, missed, met, edits, imports,
  microwave, nextId, date, published, described, linkChanges

Schedule == INSTANCE ImportSchedule WITH clock <- time, now <- taken, Kinds <- RequestKinds
Remap == INSTANCE OfficialRemap
           WITH Datasets <- RemapDatasets, Operators <- RemapOperators, MaxAttempts <- RemapAttempts, Null <- None,
                sites <- remapSites, permits <- remapPermits, listings <- remapListings, links <- linked,
                changes <- remapChanges, before <- remapBefore
Links == INSTANCE StationLinks WITH SourceOf <- SourceOfSite
Microwave == INSTANCE MicrowaveLinks WITH Permits <- PermitNumbers, links <- microwave, changes <- linkChanges

\* A check is queued once and its next one lies on the grid, and two requests
\* never both get a run (scheduleDueImports, queueRequestedRun).
QueuedOnce == Schedule!QueuedOnce

\* A remap moves what belongs to the licensee and loses nothing, however often
\* it is attempted (planRemap, remapLicensee).
RemapMovesWhatItMust ==
  /\ [](/\ Remap!RowsFitTogether /\ Remap!PermitsFollowTheLicensee
        /\ Remap!NoListingLost /\ Remap!NoGhostSites)
  /\ Remap!AppliedOnce

\* The links of stations are those of a rebuild (correctStationLinks).
SettledAsRebuilt == Links!TypeOK /\ Links!SettledAsRebuilt

\* A row of the microwave links is one link for ever (decideLinks, applyLinks).
LinksAsPublished ==
  /\ [](Microwave!TypeOK /\ Microwave!LinksArePublished /\ Microwave!CompleteAsDescribed)
  /\ Microwave!RowIsTheLink /\ Microwave!ChangesTellTheRelease

=============================================================================
