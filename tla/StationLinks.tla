---------------------------- MODULE StationLinks ----------------------------
(***************************************************************************)
(* The links between our stations and the official sites                   *)
(* (features/official/links.ts, linkRule.ts).  A link is derived: a        *)
(* station belongs with the site of its group, which is its operator and   *)
(* its site id.  Whoever changes a station, a location or the sites of an  *)
(* import corrects the links of the groups concerned, in its transaction:  *)
(* it locks the stations of the groups, reads the sites, the stations and  *)
(* the stored links, one statement after the other, and writes the         *)
(* difference.                                                             *)
(*                                                                         *)
(* Transactions are READ COMMITTED: a statement sees what is committed and *)
(* what its own transaction has written.  An editor's writes are kept in   *)
(* its record until it commits.                                            *)
(***************************************************************************)
EXTENDS Naturals, FiniteSets, Functions

CONSTANTS
  Stations, Sites, Groups, Locations, Coordinates,
  SourceOf,      \* SourceOf[x]: the source of the site x
  Editors,
  Importer,
  MaxEdits,      \* transactions of editors
  MaxImports,    \* changes of sites
  None

LinksAssumption ==
  /\ IsFiniteSet(Sites)
  /\ Importer \notin Editors
  /\ None \notin Stations /\ None \notin Locations /\ None \notin Coordinates
  /\ None \notin [group : Groups, location : Locations]
  /\ MaxEdits \in Nat /\ MaxImports \in Nat

Actors == Editors \union {Importer}

VARIABLES
  station,      \* the group and location of every station that exists
  coordinate,   \* of every location
  site,         \* the group, the coordinate and whether there are permits
  links,        \* stations_official_sites
  tx,           \* the open transaction of every actor
  changed,      \* the groups that the run of the import has changed
  missed,       \* the groups that runs have changed which failed before their links
  met,          \* the stations that came into a group while an import was at work,
                \* or lost a link to a transaction that did not lock them
  edits, imports

vars == <<station, coordinate, site, links, tx, changed, missed, met, edits, imports>>

StationRows == [group : Groups, location : Locations]
SiteRows == [group : Groups, at : Coordinates, permits : BOOLEAN]

NoTx == [pc |-> "idle", row |-> None, to |-> None, place |-> None, at |-> None,
         groups |-> {}, locked |-> {}, sites |-> {}, stations |-> {}, stored |-> {}]

\* A transaction is somewhere in correctStationLinks or has not begun, and the
\* constraints of stations_official_sites hold.
TypeOK ==
  /\ station \in [Stations -> StationRows \union {None}]
  /\ coordinate \in [Locations -> Coordinates]
  /\ site \in [Sites -> SiteRows]
  /\ links \subseteq Stations \X Sites
  /\ \A l, m \in links : (l[1] = m[1] \/ l[2] = m[2]) => l = m
  /\ \A l \in links : station[l[1]] # None
  /\ \A a \in Actors : tx[a].pc \in {"idle", "begun", "find", "lock", "sites", "stations", "stored", "write"}
  /\ changed \subseteq Groups /\ missed \subseteq Groups /\ met \subseteq Stations
  /\ edits \in 0..MaxEdits /\ imports \in 0..MaxImports

-----------------------------------------------------------------------------
(* The rule.                                                               *)

isAtTheStation(x, s) == x.at = s.at

isTheOnlySiteOfItsSource(x, sites) == \A y \in sites : y.source = x.source /\ y.group = x.group => y = x

\* A station links to the site of its group that stands where it stands, or to
\* the one that its source has for the group, if that leaves no choice.
decideStationLinks(sites, stations) ==
  UNION {LET linkable == {x \in sites : x.group = s.group /\ (isAtTheStation(x, s) \/ isTheOnlySiteOfItsSource(x, sites))}
             picked == IF Cardinality(linkable) > 1 THEN {x \in linkable : isAtTheStation(x, s)} ELSE linkable
         IN IF Cardinality(picked) = 1 THEN {<<s.id, x.id>> : x \in picked} ELSE {} : s \in stations}

LinkableSites(groups) ==
  {[id |-> x, source |-> SourceOf[x], group |-> site[x].group, at |-> site[x].at] :
     x \in {x \in Sites : site[x].permits /\ site[x].group \in groups}}

\* What the statements of a see: its own writes, and otherwise what is committed.
StationSeen(a, s) == IF tx[a].row = s THEN tx[a].to ELSE station[s]
CoordinateSeen(a, l) == IF tx[a].place = l THEN tx[a].at ELSE coordinate[l]

InGroups(a, groups) == {s \in Stations : StationSeen(a, s) # None /\ StationSeen(a, s).group \in groups}

LinkableStations(a, groups) ==
  {[id |-> s, group |-> StationSeen(a, s).group, at |-> CoordinateSeen(a, StationSeen(a, s).location)] : s \in InGroups(a, groups)}

\* Any database whose links are those of the rule.
Init ==
  /\ \E first \in Stations, row \in StationRows : station = [s \in Stations |-> IF s = first THEN row ELSE None]
  /\ coordinate \in {c \in [Locations -> Coordinates] : IsInjective(c)}
  /\ site \in [Sites -> SiteRows]
  /\ tx = [a \in Actors |-> NoTx]
  /\ links = decideStationLinks(LinkableSites(Groups), LinkableStations(Importer, Groups))
  /\ changed = {} /\ missed = {} /\ met = {}
  /\ edits = 0 /\ imports = 0

-----------------------------------------------------------------------------
(* Editors.  A row lock on a station excludes every other one; a station   *)
(* that comes to a location holds a key share lock on it, which a change   *)
(* of its coordinates excludes, because they are a unique key.             *)

Written(a) == tx[a].pc \notin {"idle", "begun"} /\ tx[a].row # None

Free(a, s) == \A o \in Actors \ {a} : s \notin tx[o].locked

\* stations has a unique key on the group, also against what others have written
\* and not committed.
GroupIsFree(e, g) ==
  /\ \A s \in Stations \ {tx[e].row} : IF station[s] = None THEN TRUE ELSE station[s].group # g
  /\ \A o \in Actors \ {e} : IF Written(o) THEN tx[o].to.group # g ELSE TRUE

\* applyChange reads the group of the station before it changes anything.
BeginStationEdit(e, s) ==
  /\ tx[e].pc = "idle" /\ edits < MaxEdits
  /\ edits' = edits + 1
  /\ tx' = [tx EXCEPT ![e] = [NoTx EXCEPT !.pc = "begun", !.row = s, !.to = station[s],
                                          !.groups = IF station[s] = None THEN {} ELSE {station[s].group}]]
  /\ UNCHANGED <<station, coordinate, site, links, changed, missed, met, imports>>

\* The station is created or changed, and its new location is not locked.
WriteStation(e, to) ==
  /\ tx[e].pc = "begun" /\ tx[e].row # None
  /\ to # station[tx[e].row]
  /\ Free(e, tx[e].row)
  /\ GroupIsFree(e, to.group)
  /\ \A o \in Actors \ {e} : tx[o].place # to.location
  /\ tx' = [tx EXCEPT ![e].pc = "lock", ![e].to = to, ![e].locked = {tx[e].row}, ![e].groups = @ \union {to.group}]
  /\ UNCHANGED <<station, coordinate, site, links, changed, missed, met, edits, imports>>

\* The coordinates of a location change; nobody is just coming to it.
WriteLocation(e, l, c) ==
  /\ tx[e].pc = "idle" /\ edits < MaxEdits
  /\ \A m \in Locations : coordinate[m] # c
  /\ \A o \in Actors \ {e} :
       /\ tx[o].place # l /\ tx[o].at # c
       /\ IF Written(o) THEN tx[o].to.location # l ELSE TRUE
  /\ edits' = edits + 1
  /\ tx' = [tx EXCEPT ![e] = [NoTx EXCEPT !.pc = "find", !.place = l, !.at = c]]
  /\ UNCHANGED <<station, coordinate, site, links, changed, missed, met, imports>>

\* The stations of the location are touched, which locks them, and
\* findStationGroups reads their groups.
FindGroups(e) ==
  LET there == {s \in Stations : station[s] # None /\ station[s].location = tx[e].place}
  IN /\ tx[e].pc = "find"
     /\ \A s \in there : Free(e, s)
     /\ tx' = [tx EXCEPT ![e].pc = "lock", ![e].locked = there, ![e].groups = {station[s].group : s \in there}]
     /\ UNCHANGED <<station, coordinate, site, links, changed, missed, met, edits, imports>>

-----------------------------------------------------------------------------
(* correctStationLinks, of an editor or of the import.                     *)

\* Mutant: the stations are not locked, as in a dry run.
LockNothing(a) ==
  /\ tx[a].pc = "lock"
  /\ tx' = [tx EXCEPT ![a].pc = "sites", ![a].locked = @ \union InGroups(a, tx[a].groups)]
  /\ UNCHANGED <<station, coordinate, site, links, changed, missed, met, edits, imports>>

\* lockStations waits for the locks of others.
LockStations(a) ==
  /\ tx[a].pc = "lock"
  /\ \A s \in InGroups(a, tx[a].groups) : Free(a, s)
  /\ tx' = [tx EXCEPT ![a].pc = "sites", ![a].locked = @ \union InGroups(a, tx[a].groups)]
  /\ UNCHANGED <<station, coordinate, site, links, changed, missed, met, edits, imports>>

ReadSites(a) ==
  /\ tx[a].pc = "sites"
  /\ tx' = [tx EXCEPT ![a].sites = LinkableSites(tx[a].groups),
                      ![a].pc = IF LinkableSites(tx[a].groups) = {} THEN "stored" ELSE "stations"]
  /\ UNCHANGED <<station, coordinate, site, links, changed, missed, met, edits, imports>>

\* A station that has come in between is not locked: lock and read again.
ReadStations(a) ==
  /\ tx[a].pc = "stations"
  /\ tx' = IF InGroups(a, tx[a].groups) \subseteq tx[a].locked
           THEN [tx EXCEPT ![a].stations = LinkableStations(a, tx[a].groups), ![a].pc = "stored"]
           ELSE [tx EXCEPT ![a].pc = "lock"]
  /\ UNCHANGED <<station, coordinate, site, links, changed, missed, met, edits, imports>>

\* The links of the stations in the groups, and of the sites in them.
ReadStored(a) ==
  /\ tx[a].pc = "stored"
  /\ tx' = [tx EXCEPT ![a].pc = "write",
                      ![a].stored = {l \in links : l[1] \in InGroups(a, tx[a].groups) \/ site[l[2]].group \in tx[a].groups}]
  /\ UNCHANGED <<station, coordinate, site, links, changed, missed, met, edits, imports>>

\* The stations that the open edits bring into a group.
Comers(editors) ==
  {tx[e].row : e \in {e \in editors : IF ~Written(e) THEN FALSE
                                     ELSE IF station[tx[e].row] = None THEN TRUE
                                     ELSE station[tx[e].row].group # tx[e].to.group}}

\* The links to delete are named by their stations and by their sites, and the
\* stored links of the sites belong to stations that the transaction may not have
\* locked; a link that exists after all is an error.
Commit(a) ==
  LET wanted == decideStationLinks(tx[a].sites, tx[a].stations)
      removed == tx[a].stored \ wanted
      kept == {l \in links : ~((\E r \in removed : r[1] = l[1]) /\ (\E r \in removed : r[2] = l[2]))}
      added == wanted \ tx[a].stored
  IN /\ tx[a].pc = "write"
     /\ \A l \in added, m \in kept : l[1] # m[1] /\ l[2] # m[2]
     /\ links' = kept \union added
     /\ station' = IF tx[a].row = None THEN station ELSE [station EXCEPT ![tx[a].row] = tx[a].to]
     /\ coordinate' = IF tx[a].place = None THEN coordinate ELSE [coordinate EXCEPT ![tx[a].place] = tx[a].at]
     /\ IF a = Importer
        THEN changed' = changed \ tx[a].groups /\ missed' = missed \ tx[a].groups
        ELSE UNCHANGED <<changed, missed>>
     /\ met' = met \union ({l[1] : l \in links \ kept} \ tx[a].locked)
                   \union (IF a # Importer /\ (changed # {} \/ tx[Importer].pc # "idle") THEN Comers({a}) ELSE {})
     /\ tx' = [tx EXCEPT ![a] = NoTx]
     /\ UNCHANGED <<site, edits, imports>>

\* An error, or the victim of a deadlock: nothing was written.
Abort(a) ==
  /\ tx[a].pc # "idle"
  /\ tx' = [tx EXCEPT ![a] = NoTx]
  /\ UNCHANGED <<station, coordinate, site, links, changed, missed, met, edits, imports>>

-----------------------------------------------------------------------------
(* The import.                                                             *)

\* readAffectedGroups: a remapped site concerns the group of its former operator
\* too.
AffectedGroups(old, new) == {old.group, new.group}

\* A dataset or a remap is committed: a site appears, moves, gets or loses its
\* permits or changes its operator.
ImportSite(x, to) ==
  /\ tx[Importer].pc = "idle" /\ imports < MaxImports
  /\ to # site[x]
  /\ imports' = imports + 1
  /\ site' = [site EXCEPT ![x] = to]
  /\ changed' = changed \union AffectedGroups(site[x], to)
  /\ met' = met \union Comers(Editors)
  /\ UNCHANGED <<station, coordinate, links, tx, missed, edits>>

\* The links step of the run, for the groups of its changes.
BeginLinks ==
  /\ tx[Importer].pc = "idle" /\ changed # {}
  /\ tx' = [tx EXCEPT ![Importer] = [NoTx EXCEPT !.pc = "lock", !.groups = changed]]
  /\ UNCHANGED <<station, coordinate, site, links, changed, missed, met, edits, imports>>

\* A run ends without its links step: a later run reads its own changes only.
FailRun ==
  /\ tx[Importer].pc = "idle" /\ changed # {}
  /\ changed' = {} /\ missed' = missed \union changed
  /\ UNCHANGED <<station, coordinate, site, links, tx, met, edits, imports>>

\* A relink run goes through every group of an official site.
BeginRelink ==
  /\ tx[Importer].pc = "idle" /\ missed # {} /\ changed = {}
  /\ tx' = [tx EXCEPT ![Importer] = [NoTx EXCEPT !.pc = "lock", !.groups = missed \union {site[x].group : x \in Sites}]]
  /\ UNCHANGED <<station, coordinate, site, links, changed, missed, met, edits, imports>>

Correct(a) ==
  \/ LockStations(a)
  \/ ReadSites(a)
  \/ ReadStations(a)
  \/ ReadStored(a)
  \/ Commit(a)

Next ==
  \/ \E e \in Editors :
       \/ \E s \in Stations : BeginStationEdit(e, s)
       \/ \E to \in StationRows : WriteStation(e, to)
       \/ \E l \in Locations, c \in Coordinates : WriteLocation(e, l, c)
       \/ FindGroups(e)
  \/ \E a \in Actors : Correct(a) \/ Abort(a)
  \/ \E x \in Sites, to \in SiteRows : ImportSite(x, to)
  \/ BeginLinks
  \/ FailRun
  \/ BeginRelink

Spec == Init /\ [][Next]_vars

-----------------------------------------------------------------------------

AtRest == \A a \in Actors : tx[a].pc = "idle"

Settled == {s \in Stations : station[s] # None /\ station[s].group \notin changed \union missed}

Rebuilt == decideStationLinks(LinkableSites(Groups), LinkableStations(Importer, Groups))

\* When nobody is at work, the links of every station are those that a rebuild
\* from nothing would find, unless an unfinished or failed import has touched its
\* group.
LinksAsRebuilt == AtRest => \A s \in Settled : {l \in links : l[1] = s} = {l \in Rebuilt : l[1] = s}

\* The same for every station that did not come into its group while an import
\* was at work and lost no link to a transaction that did not lock it, however
\* edits of stations, of locations and the import overlap.
SettledAsRebuilt == AtRest => \A s \in Settled \ met : {l \in links : l[1] = s} = {l \in Rebuilt : l[1] = s}

=============================================================================
