----------------------------- MODULE MCOfficial -----------------------------
(***************************************************************************)
(* The official data next to the runs of the import, on small instances:   *)
(* what queues the runs, the operators of licensees and their remap, sites *)
(* and permits, microwave links, and the links between stations and sites. *)
(* A behaviour belongs to one of these parts and the others stand still:   *)
(* each part models the rows that it works on, and no part reads the rows  *)
(* of another one.                                                         *)
(***************************************************************************)
EXTENDS LicenseeMapping, Official

CONSTANTS
  x, y, z,                \* operators
  l, m,                   \* licensees
  siteA, siteB,           \* sites of the releases
  e

VARIABLES
  part,
  sites, locations, permits, listings, phase, settled, changes, applied, named, before

scheduleVars == <<time, next, every, enabled, run, stage, taken, asked, rows, busy, checked>>
remapVars == <<remapSites, remapPermits, remapListings, follows, notices, linked, operatorOf,
               to, attempt, state, remapChanges, remapBefore>>
siteVars == <<sites, locations, permits, listings, phase, settled, changes, applied, named, before>>
microwaveVars == <<microwave, nextId, date, published, described, linkChanges>>
stationVars == <<station, coordinate, site, links, tx, changed, missed, met, edits, imports>>

OfOneSource == [d \in Datasets |-> "source"]

\* Schedulers and a dataset whose interval changes.
Checks == INSTANCE ImportSchedule
            WITH clock <- time, now <- taken, Sources <- {"source"}, Requesters <- {}, Kinds <- {}, CliKinds <- {}

\* Requests next to one scheduler and the command line.
Requests == INSTANCE ImportSchedule
              WITH clock <- time, now <- taken, Kinds <- RequestKinds, Intervals <- {1},
                   Schedulers <- {CHOOSE a \in Schedulers : TRUE}, MaxTime <- 0

\* Several runs of one attempt, and one run of several.
Licensees == INSTANCE LicenseeMapping WITH MaxAttempts <- 1
Retries == INSTANCE LicenseeMapping WITH MaxRuns <- 1

\* Sites with a code, with a reference of their own, and with both.
Plain == {[code |-> "a", ref |-> FALSE, operator |-> o] : o \in {x, y, z}}
Referred == {[code |-> "a", ref |-> TRUE, operator |-> x]}

SitesToChoose == Plain \cup Referred
OneMapping == {[n \in {l, m} |-> IF n = l THEN x ELSE y]}

Line(slice, key, place, permit, status, sectors) ==
  [slice |-> slice, site |-> key, place |-> place, permit |-> permit, status |-> status, sectors |-> sectors]

\* The Polish source: one site, a file of permits for each of two bands, and
\* the registry of devices, which yields the placement of sites to them.
Bands == [d \in {"permits", "registry"} |->
            {Line(IF d = "registry" THEN "operator" ELSE IF n = 1 THEN "900" ELSE "1800", siteA, place, n, "none", {}) :
               place \in {"p", "q"}, n \in IF d = "registry" THEN {1} ELSE 1 .. 2}]

PolishSites == INSTANCE OfficialSites
  WITH SiteKeys <- {siteA}, Places <- {"p", "q"}, Datasets <- {"permits", "registry"},
       Slices <- {"900", "1800", "operator"},
       Releases <- [d \in {"permits", "registry"} |-> IF d = "permits" THEN {{"900"}, {"1800"}} ELSE {{"operator"}}],
       Lines <- Bands, MaxLines <- 2,
       YieldsTo <- [d \in {"permits", "registry"} |-> IF d = "registry" THEN {"permits"} ELSE {}],
       ListsEverySector <- {"registry"}, PageSize <- 1

\* The French source: an inventory of two sites in two departments, in one
\* file, one of them with states and sectors.
Departments == [d \in {"installations"} |->
                  {Line("01", siteA, "p", 1, status, sectors) : status \in {"approved", "in_service"}, sectors \in {{1}, {2}}}
                    \cup {Line("02", siteB, "p", 1, "approved", {1})}]

FrenchSites == INSTANCE OfficialSites
  WITH SiteKeys <- {siteA, siteB}, Places <- {"p"}, Datasets <- {"installations"}, Slices <- {"01", "02"},
       Releases <- [d \in {"installations"} |-> {{"01", "02"}}], Lines <- Departments, MaxLines <- 2,
       YieldsTo <- [d \in {"installations"} |-> {}], ListsEverySector <- {"installations"}, PageSize <- 1

\* Editors at the same time, and one of them next to imports.
Edits == INSTANCE StationLinks WITH SourceOf <- SourceOfSite, MaxImports <- 0
Relinks == INSTANCE StationLinks WITH SourceOf <- SourceOfSite, Editors <- {e}, MaxEdits <- 2

\* The sites of stations are all of one source.
OneSource == [s \in Sites |-> "source"]

ASSUME /\ Schedule!ScheduleAssumption /\ Checks!ScheduleAssumption /\ Requests!ScheduleAssumption
       /\ Licensees!MappingAssumption /\ Retries!MappingAssumption /\ Remap!RemapAssumption
       /\ PolishSites!SlicesDiffer /\ FrenchSites!SlicesDiffer
       /\ Links!LinksAssumption /\ Microwave!MicrowaveAssumption /\ e \in Editors

\* No remap, and no station.
NoRemap ==
  /\ remapSites = << >> /\ remapPermits = << >> /\ remapListings = {} /\ follows = {} /\ notices = {} /\ linked = {}
  /\ operatorOf = << >> /\ to = None /\ attempt = 0 /\ state = "none" /\ remapChanges = {} /\ remapBefore = << >>

NoStation ==
  /\ station = [s \in Stations |-> None] /\ coordinate = [h \in Locations |-> 1]
  /\ site = [s \in Sites |-> [group |-> "g", at |-> 1, permits |-> FALSE]]
  /\ links = {} /\ tx = [a \in Links!Actors |-> Links!NoTx]
  /\ changed = {} /\ missed = {} /\ met = {} /\ edits = 0 /\ imports = 0

PartInit ==
  /\ part \in {"checks", "requests", "licensees", "retries", "remap", "sites", "inventory", "microwave", "links", "relinks"}
  /\ Schedule!Init /\ (part # "checks" => \A d \in Datasets : every[d] = 1)
  /\ Licensees!Init /\ (part \notin {"licensees", "retries"} => brand = None)
  /\ IF part = "remap" THEN Remap!Init ELSE NoRemap
  /\ IF part = "inventory" THEN FrenchSites!Init ELSE PolishSites!Init
  /\ Microwave!Init
  /\ IF part \in {"links", "relinks"} THEN Links!Init ELSE NoStation

PartNext ==
  \/ /\ part = "checks" /\ Checks!Next
     /\ UNCHANGED <<part, vars, remapVars, siteVars, microwaveVars, stationVars>>
  \/ /\ part = "requests" /\ Requests!Next
     /\ UNCHANGED <<part, vars, remapVars, siteVars, microwaveVars, stationVars>>
  \/ /\ part = "licensees" /\ Licensees!Next
     /\ UNCHANGED <<part, scheduleVars, remapVars, siteVars, microwaveVars, stationVars>>
  \/ /\ part = "retries" /\ Retries!Next
     /\ UNCHANGED <<part, scheduleVars, remapVars, siteVars, microwaveVars, stationVars>>
  \/ /\ part = "remap" /\ Remap!Next
     /\ UNCHANGED <<part, scheduleVars, vars, siteVars, microwaveVars, stationVars>>
  \/ /\ part = "sites" /\ PolishSites!Next
     /\ UNCHANGED <<part, scheduleVars, vars, remapVars, microwaveVars, stationVars>>
  \/ /\ part = "inventory" /\ FrenchSites!Next
     /\ UNCHANGED <<part, scheduleVars, vars, remapVars, microwaveVars, stationVars>>
  \/ /\ part = "microwave" /\ Microwave!Next
     /\ UNCHANGED <<part, scheduleVars, vars, remapVars, siteVars, stationVars>>
  \/ /\ part = "links" /\ Edits!Next
     /\ UNCHANGED <<part, scheduleVars, vars, remapVars, siteVars, microwaveVars>>
  \/ /\ part = "relinks" /\ Relinks!Next
     /\ UNCHANGED <<part, scheduleVars, vars, remapVars, siteVars, microwaveVars>>

PartSpec == PartInit /\ [][PartNext]_<<part, scheduleVars, vars, remapVars, siteVars, microwaveVars, stationVars>>

\* The sites and permits are those of the releases, and the changes tell how
\* they came to be (applySites, archiveUnlistedPermits, deleteOrphans).
SitesAsPublished ==
  /\ [](part # "inventory" =>
          /\ PolishSites!TypeOK /\ PolishSites!ListedIsPublished
          /\ PolishSites!PlacedByStronger /\ PolishSites!ChangesTellTheRun)
  /\ [][part # "inventory" => PolishSites!PublishedKeepsItsRow]_siteVars
  /\ [](part = "inventory" => FrenchSites!ListedIsPublished /\ FrenchSites!DetailsArePublished)

=============================================================================
