------------------------- MODULE StationLinksProofs -------------------------
(***************************************************************************)
(* The links of settled stations are those of a rebuild, for any stations, *)
(* sites, groups and editors and any number of changes.  The inductive     *)
(* invariant says what the lock of a station is worth to its holder: the   *)
(* row, the coordinates and the stored links that it goes by are still     *)
(* those that are there, and the sites too, unless an import that has yet  *)
(* to come to the group has changed them.                                  *)
(***************************************************************************)
EXTENDS Official, Naturals, FiniteSetTheorems, TLAPS

Decided == {"sites", "stations", "stored", "write"}
Locking == {"lock"} \cup Decided
Deciding == {"stations", "stored", "write"}

SiteRecords == {[id |-> x, source |-> SourceOfSite[x], group |-> g, at |-> c] : x \in Sites, g \in Groups, c \in Coordinates}
StationRecords == [id : Stations, group : Groups, at : Coordinates]

Transactions ==
  [pc : {"idle", "begun", "find"} \cup Locking,
   row : Stations \cup {None}, to : Links!StationRows \cup {None},
   place : Locations \cup {None}, at : Coordinates \cup {None},
   groups : SUBSET Groups, locked : SUBSET Stations,
   sites : SUBSET SiteRecords, stations : SUBSET StationRecords, stored : SUBSET (Stations \X Sites)]

Seen(a, s) == Links!StationSeen(a, s)

\* What a transaction knows of a station that it decides on.
Record(a, s) == [id |-> s, group |-> Seen(a, s).group, at |-> Links!CoordinateSeen(a, Seen(a, s).location)]

\* A transaction brings the station s into a group.
Comes(a, s) == tx[a].row = s /\ (station[s] # None => station[s].group # tx[a].to.group)

OfGroup(sites, g) == {x \in sites : x.group = g}
LinksOf(s, stored) == {l \in stored : l[1] = s}

\* The link of one station by the rule, or none.
Linkable(sites, r) ==
  {x \in sites : x.group = r.group /\ (Links!isAtTheStation(x, r) \/ Links!isTheOnlySiteOfItsSource(x, sites))}

Pick(sites, r) ==
  LET linkable == Linkable(sites, r)
      picked == IF Links!Cardinality(linkable) > 1 THEN {x \in linkable : Links!isAtTheStation(x, r)} ELSE linkable
  IN IF Links!Cardinality(picked) = 1 THEN {<<r.id, x.id>> : x \in picked} ELSE {}

-----------------------------------------------------------------------------
(* The inductive invariant.                                                *)

\* What is committed.
Committed ==
  /\ station \in [Stations -> Links!StationRows \cup {None}]
  /\ coordinate \in [Locations -> Coordinates]
  /\ site \in [Sites -> Links!SiteRows]
  /\ links \subseteq Stations \X Sites
  /\ \A l, m \in links : (l[1] = m[1] \/ l[2] = m[2]) => l = m
  /\ \A l \in links : station[l[1]] # None
  /\ changed \subseteq Groups /\ missed \subseteq Groups /\ met \subseteq Stations
  /\ edits \in 0 .. MaxEdits /\ imports \in 0 .. MaxImports
  /\ \A s, t \in Stations : s # t /\ station[s] # None /\ station[t] # None => station[s].group # station[t].group

\* The record of a transaction.
Shape(a) ==
  /\ a = Importer => tx[a].row = None /\ tx[a].place = None
  /\ tx[a].row # None => tx[a].place = None
  /\ tx[a].place # None <=> tx[a].at # None
  /\ tx[a].pc \in {"idle", "begun", "find"} => tx[a].locked = {}
  /\ tx[a].pc = "begun" => tx[a].row # None
  /\ tx[a].pc = "find" => tx[a].place # None
  /\ tx[a].pc = "idle" => tx[a].row = None /\ tx[a].place = None
  /\ Links!Written(a) => tx[a].row \in tx[a].locked /\ tx[a].to \in Links!StationRows
  /\ tx[a].pc \notin {"stored", "write"} => tx[a].stations = {}
  /\ tx[a].pc = "stations" => tx[a].sites # {}
  /\ \A x, y \in tx[a].sites : x.id = y.id => x = y
  /\ IsFiniteSet(tx[a].sites)

\* The stations that a transaction has locked: they are in its groups, those of
\* its location are among them, and nobody else has or gets its group.
Held(a) ==
  /\ tx[a].pc \in Locking => tx[a].locked \subseteq Links!InGroups(a, tx[a].groups)
  /\ tx[a].place # None /\ tx[a].pc \in Locking =>
       \A s \in Stations : station[s] # None /\ station[s].location = tx[a].place => s \in tx[a].locked
  /\ Links!Written(a) =>
       \A s \in Stations \ {tx[a].row} : station[s] # None => station[s].group # tx[a].to.group
  /\ tx[a].pc \in {"stored", "write"} =>
       tx[a].stations = IF tx[a].sites = {} THEN {} ELSE {Record(a, s) : s \in tx[a].locked}

\* The sites that it has read are those of its groups, unless an import that has
\* yet to come to the group has changed them.
Known(a) ==
  /\ tx[a].pc \in Deciding =>
       IF a = Importer THEN tx[a].sites = Links!LinkableSites(tx[a].groups)
       ELSE \A s \in tx[a].locked \ met :
              \/ OfGroup(tx[a].sites, Seen(a, s).group) = Links!LinkableSites({Seen(a, s).group})
              \/ ~Comes(a, s) /\ Seen(a, s).group \in changed \cup missed
  /\ a = Importer /\ tx[a].pc \in Decided =>
       \A s \in Stations : station[s] # None /\ station[s].group \in tx[a].groups => s \in tx[a].locked \cup met

\* The links that it has read of its stations are those that are there.
Stored(a) ==
  tx[a].pc = "write" => \A s \in tx[a].locked \ met : LinksOf(s, tx[a].stored) = LinksOf(s, links)

\* Two transactions.
Apart(a, b) ==
  /\ tx[a].locked \cap tx[b].locked = {}
  /\ Links!Written(a) /\ Links!Written(b) => tx[a].to.group # tx[b].to.group
  /\ Links!Written(a) => tx[b].place # tx[a].to.location

Settled(s) == LinksOf(s, links) = Pick(Links!LinkableSites(Groups), Record(Importer, s))

LinksInv ==
  /\ Committed
  /\ tx \in [Links!Actors -> Transactions]
  /\ \A a \in Links!Actors : Shape(a) /\ Held(a) /\ Known(a) /\ Stored(a)
  /\ \A a, b \in Links!Actors : a # b => Apart(a, b)
  /\ \A s \in Links!Settled \ met : Settled(s)

-----------------------------------------------------------------------------
(* The rule.                                                               *)

\* The rule decides station by station.
LEMMA DecidedByPick ==
  ASSUME NEW X, NEW R
  PROVE  Links!decideStationLinks(X, R) = UNION {Pick(X, r) : r \in R}
BY DEF Links!decideStationLinks, Pick, Linkable

\* The link of a station rests on the sites of its group.
LEMMA PickOfGroup ==
  ASSUME NEW X, NEW Y, NEW r, OfGroup(X, r.group) = OfGroup(Y, r.group)
  PROVE  Pick(X, r) = Pick(Y, r)
<1>1. \A x : x \in X /\ x.group = r.group <=> x \in Y /\ x.group = r.group
  BY DEF OfGroup
<1>2. \A x : x.group = r.group =>
        (Links!isTheOnlySiteOfItsSource(x, X) <=> Links!isTheOnlySiteOfItsSource(x, Y))
  BY <1>1 DEF Links!isTheOnlySiteOfItsSource
<1>3. Linkable(X, r) = Linkable(Y, r)
  BY <1>1, <1>2 DEF Linkable
<1>4. QED
  BY <1>3 DEF Pick

LEMMA PickMember ==
  ASSUME NEW X, NEW r, NEW l \in Pick(X, r)
  PROVE  \E x \in X : x.group = r.group /\ l = <<r.id, x.id>>
BY DEF Pick, Linkable

\* A station has one link at most.
LEMMA PickIsOne ==
  ASSUME NEW X, IsFiniteSet(X), NEW r, NEW l \in Pick(X, r), NEW m \in Pick(X, r)
  PROVE  l = m
<1>0. \A S : Links!Cardinality(S) = Cardinality(S)
  BY DEF Links!Cardinality, Cardinality
<1>1. PICK picked : /\ picked = IF Cardinality(Linkable(X, r)) > 1
                               THEN {x \in Linkable(X, r) : Links!isAtTheStation(x, r)} ELSE Linkable(X, r)
                    /\ Pick(X, r) = IF Cardinality(picked) = 1 THEN {<<r.id, x.id>> : x \in picked} ELSE {}
  BY <1>0 DEF Pick
<1>2. picked \subseteq X
  BY <1>1 DEF Linkable
<1>3. IsFiniteSet(picked)
  BY <1>2, FS_Subset
<1>4. Cardinality(picked) = 1
  BY <1>1
<1>5. PICK x : picked = {x}
  BY <1>3, <1>4, FS_Singleton
<1>6. QED
  BY <1>1, <1>4, <1>5

LEMMA NoSites ==
  ASSUME NEW r
  PROVE  Pick({}, r) = {}
<1>1. \A l \in Pick({}, r) : FALSE
  BY PickMember
<1>2. QED
  BY <1>1

\* The sites with permits of some groups.
LEMMA LinkableFacts ==
  ASSUME Links!LinksAssumption, site \in [Sites -> Links!SiteRows], NEW G
  PROVE  /\ Links!LinkableSites(G) \subseteq SiteRecords
         /\ \A x \in Links!LinkableSites(G) : x.id \in Sites /\ x.group \in G /\ x.group = site[x.id].group
         /\ \A x, y \in Links!LinkableSites(G) : x.id = y.id => x = y
         /\ IsFiniteSet(Links!LinkableSites(G))
         /\ \A g \in G : OfGroup(Links!LinkableSites(G), g) = Links!LinkableSites({g})
<1> DEFINE S == {x \in Sites : site[x].permits /\ site[x].group \in G}
           f(x) == [id |-> x, source |-> SourceOfSite[x], group |-> site[x].group, at |-> site[x].at]
<1>1. Links!LinkableSites(G) = {f(x) : x \in S}
  BY DEF Links!LinkableSites
<1>2. \A x \in Sites : site[x].group \in Groups /\ site[x].at \in Coordinates
  BY DEF Links!SiteRows
<1>3. \A x \in S : f(x) \in SiteRecords
  BY <1>2 DEF SiteRecords
<1>4. \A y \in {f(x) : x \in S} : y.id \in S /\ y = f(y.id)
  OBVIOUS
<1>5. IsFiniteSet(Sites)
  BY DEF Links!LinksAssumption, Links!IsFiniteSet, IsFiniteSet
<1>6. IsFiniteSet(S)
  BY <1>5, FS_Subset
<1>7. IsFiniteSet({f(x) : x \in S})
  <2> HIDE DEF f, S
  <2>1. [x \in S |-> f(x)] \in Surjection(S, {f(x) : x \in S})
    BY DEF Surjection
  <2>2. QED
    BY <1>6, <2>1, FS_Surjection
<1>8. ASSUME NEW g \in G
      PROVE  OfGroup(Links!LinkableSites(G), g) = Links!LinkableSites({g})
  BY DEF OfGroup, Links!LinkableSites
<1>9. QED
  BY <1>1, <1>3, <1>4, <1>7, <1>8

-----------------------------------------------------------------------------
(* Steps that change one transaction and nothing that is committed.        *)

LEMMA Rows ==
  ASSUME Links!LinksAssumption, Committed, NEW s \in Stations, station[s] # None
  PROVE  station[s] \in Links!StationRows /\ station[s].group \in Groups /\ station[s].location \in Locations
BY DEF Committed, Links!StationRows

\* What the import sees is what is committed.
LEMMA ImportSees ==
  ASSUME Links!LinksAssumption, Shape(Importer)
  PROVE  /\ \A s \in Stations : Seen(Importer, s) = station[s]
         /\ \A p \in Locations : Links!CoordinateSeen(Importer, p) = coordinate[p]
BY DEF Links!LinksAssumption, Shape, Seen, Links!StationSeen, Links!CoordinateSeen

\* No two stations that a transaction sees are of one group.
LEMMA SeenAreUnique ==
  ASSUME Links!LinksAssumption, Committed, NEW a, Shape(a), Held(a), tx[a].pc \in Locking,
         NEW s \in Stations, NEW t \in Stations, Seen(a, s) # None, Seen(a, t) # None,
         Seen(a, s).group = Seen(a, t).group
  PROVE  s = t
<1>1. \A u \in Stations : u = tx[a].row => Links!Written(a)
  BY DEF Links!LinksAssumption, Links!Written, Locking, Decided
<1>2. \A u \in Stations : Seen(a, u) = IF u = tx[a].row THEN tx[a].to ELSE station[u]
  BY DEF Seen, Links!StationSeen
<1>3. Links!Written(a) => \A u \in Stations : u # tx[a].row /\ station[u] # None => station[u].group # tx[a].to.group
  BY DEF Held
<1>4. \A u, v \in Stations : u # v /\ station[u] # None /\ station[v] # None => station[u].group # station[v].group
  BY DEF Committed
<1>5. QED
  BY <1>1, <1>2, <1>3, <1>4

LEMMA Private ==
  ASSUME Links!LinksAssumption, LinksInv, NEW a \in Links!Actors, NEW r \in Transactions, tx' = [tx EXCEPT ![a] = r],
         UNCHANGED <<station, coordinate, site, links, changed, missed, met, imports>>, edits' \in 0 .. MaxEdits,
         Shape(a)', Held(a)', Known(a)', Stored(a)',
         \A b \in Links!Actors : a # b => Apart(a, b)' /\ Apart(b, a)'
  PROVE  LinksInv'
<1>1. tx \in [Links!Actors -> Transactions]
  BY DEF LinksInv
<1>2. tx' \in [Links!Actors -> Transactions] /\ \A b \in Links!Actors : b # a => tx'[b] = tx[b]
  BY <1>1
<1>3. Committed'
  BY DEF LinksInv, Committed, Links!StationRows, Links!SiteRows
<1>4. ASSUME NEW b \in Links!Actors, b # a
      PROVE  (Shape(b) /\ Held(b) /\ Known(b) /\ Stored(b))'
  <2>1. tx'[b] = tx[b]
    BY <1>2, <1>4
  <2>2. Shape(b) /\ Held(b) /\ Known(b) /\ Stored(b)
    BY DEF LinksInv
  <2>3. \A s : Seen(b, s)' = Seen(b, s) /\ Record(b, s)' = Record(b, s)
    BY <2>1 DEF Seen, Record, Links!StationSeen, Links!CoordinateSeen
  <2>4. \A G : Links!InGroups(b, G)' = Links!InGroups(b, G)
    BY <2>1 DEF Links!InGroups, Links!StationSeen
  <2>5. Shape(b)'
    BY <2>1, <2>2 DEF Shape, Links!Written, Links!StationRows
  <2>6. Held(b)'
    <3>1. Links!Written(b)' = Links!Written(b)
      BY <2>1 DEF Links!Written
    <3>2. {Record(b, s)' : s \in tx[b].locked} = {Record(b, s) : s \in tx[b].locked}
      BY <2>3
    <3>3. QED
      BY <2>1, <2>2, <2>4, <3>1, <3>2 DEF Held
  <2>7. Known(b)'
    <3>1. \A G : Links!LinkableSites(G)' = Links!LinkableSites(G)
      BY DEF Links!LinkableSites
    <3>2. QED
      BY <2>1, <2>2, <2>3, <3>1 DEF Known, Comes
  <2>8. Stored(b)'
    BY <2>1, <2>2 DEF Stored
  <2>9. QED
    BY <2>5, <2>6, <2>7, <2>8
<1>5. ASSUME NEW b \in Links!Actors, NEW c \in Links!Actors, b # c
      PROVE  Apart(b, c)'
  <2>1. Apart(b, c)
    BY <1>5 DEF LinksInv
  <2>2. CASE b # a /\ c # a
    BY <1>2, <2>1, <2>2 DEF Apart, Links!Written
  <2>3. QED
    BY <1>5, <2>2
<1>6. ASSUME NEW s \in (Links!Settled \ met)'
      PROVE  Settled(s)'
  <2>1. s \in Links!Settled \ met
    BY DEF Links!Settled
  <2>2. Settled(s)
    BY <2>1 DEF LinksInv
  <2>3. Seen(Importer, s)' = Seen(Importer, s) /\ Record(Importer, s)' = Record(Importer, s)
    <3>1. Importer \in Links!Actors /\ Shape(Importer) /\ Shape(Importer)'
      BY <1>4 DEF LinksInv, Links!Actors
    <3>2. s \in Stations /\ station[s].location \in Locations
      BY <2>1, Rows DEF Links!Settled, LinksInv
    <3>3. Seen(Importer, s) = station[s] /\ Seen(Importer, s)' = station[s]
      BY <3>1, <3>2, ImportSees DEF Shape, Links!LinksAssumption, Seen, Links!StationSeen
    <3>4. tx'[Importer].place = None /\ tx[Importer].place = None /\ None \notin Locations
      BY <3>1 DEF Shape, Links!LinksAssumption
    <3>5. \A q \in Locations : Links!CoordinateSeen(Importer, q)' = coordinate[q] /\ Links!CoordinateSeen(Importer, q) = coordinate[q]
      BY <3>4 DEF Links!CoordinateSeen
    <3>6. QED
      BY <3>2, <3>3, <3>5 DEF Record
  <2>4. QED
    BY <2>2, <2>3 DEF Settled, Links!LinkableSites
<1>7. QED
  BY <1>2, <1>3, <1>4, <1>5, <1>6 DEF LinksInv

\* A transaction that has begun or ended has locked nothing.
LEMMA Fresh ==
  ASSUME Links!LinksAssumption, LinksInv, NEW a \in Links!Actors, NEW r \in Transactions, tx' = [tx EXCEPT ![a] = r],
         UNCHANGED <<station, coordinate, site, links, changed, missed, met, imports>>, edits' \in 0 .. MaxEdits,
         r.locked = {}, r.sites = {}, r.stations = {}, r.place = None, r.at = None,
         \/ r.pc = "begun" /\ r.row # None /\ a # Importer
         \/ r.pc \in {"idle", "lock"} /\ r.row = None
  PROVE  LinksInv'
<1>1. tx'[a] = r
  BY DEF LinksInv
<1>2. ~Links!Written(a)'
  BY <1>1 DEF Links!Written
<1>3. Shape(a)'
  BY <1>1, <1>2, FS_EmptySet DEF Shape
<1>4. Held(a)' /\ Known(a)' /\ Stored(a)'
  BY <1>1, <1>2 DEF Held, Known, Stored, Deciding, Decided
<1>5. ASSUME NEW b \in Links!Actors, a # b
      PROVE  Apart(a, b)' /\ Apart(b, a)'
  <2>1. tx'[b] = tx[b]
    BY <1>5 DEF LinksInv
  <2>2. Links!Written(b)' => tx'[b].to.location \in Locations
    BY <2>1 DEF LinksInv, Shape, Links!Written, Links!StationRows
  <2>3. QED
    BY <1>1, <1>2, <2>1, <2>2 DEF Apart, Links!LinksAssumption
<1>6. QED
  BY <1>3, <1>4, <1>5, Private

LEMMA NoTransaction == Links!LinksAssumption => Links!NoTx \in Transactions
BY DEF Links!NoTx, Transactions

LEMMA BeginStationEditStep ==
  ASSUME Links!LinksAssumption, LinksInv, NEW a \in Editors, NEW s \in Stations, Links!BeginStationEdit(a, s)
  PROVE  LinksInv'
<1>0. a \in Links!Actors /\ a # Importer
  BY DEF Links!Actors, Links!LinksAssumption
<1>1. station[s] # None => station[s] \in Links!StationRows /\ station[s].group \in Groups
  BY Rows DEF LinksInv
<1>2. PICK G \in SUBSET Groups : G = IF station[s] = None THEN {} ELSE {station[s].group}
  BY <1>1
<1>3. PICK r : r = [Links!NoTx EXCEPT !.pc = "begun", !.row = s, !.to = station[s], !.groups = G]
  OBVIOUS
<1>4. /\ r \in Transactions /\ r.locked = {} /\ r.sites = {} /\ r.stations = {} /\ r.place = None /\ r.at = None
      /\ r.pc = "begun" /\ r.row = s
  BY <1>1, <1>3 DEF Links!NoTx, Transactions
<1>5. tx' = [tx EXCEPT ![a] = r]
  BY <1>2, <1>3 DEF Links!BeginStationEdit
<1>6. UNCHANGED <<station, coordinate, site, links, changed, missed, met, imports>>
  BY DEF Links!BeginStationEdit
<1>7. edits' \in 0 .. MaxEdits
  BY DEF Links!BeginStationEdit, LinksInv, Committed, Links!LinksAssumption
<1>8. s # None
  BY DEF Links!LinksAssumption
<1>9. QED
  BY <1>0, <1>4, <1>5, <1>6, <1>7, <1>8, Fresh

LEMMA AbortStep ==
  ASSUME Links!LinksAssumption, LinksInv, NEW a \in Links!Actors, Links!Abort(a)
  PROVE  LinksInv'
<1>1. UNCHANGED <<station, coordinate, site, links, changed, missed, met, imports>> /\ edits' = edits
  BY DEF Links!Abort
<1>2. tx' = [tx EXCEPT ![a] = Links!NoTx]
  BY DEF Links!Abort
<1>3. edits' \in 0 .. MaxEdits
  BY <1>1 DEF LinksInv, Committed
<1>4. QED
  BY <1>1, <1>2, <1>3, Fresh, NoTransaction DEF Links!NoTx

LEMMA BeginCorrectionStep ==
  ASSUME Links!LinksAssumption, LinksInv, Links!BeginLinks \/ Links!BeginRelink
  PROVE  LinksInv'
<1>1. UNCHANGED <<station, coordinate, site, links, changed, missed, met, imports>> /\ edits' = edits
  BY DEF Links!BeginLinks, Links!BeginRelink
<1>2. \A x \in Sites : site[x].group \in Groups
  BY DEF LinksInv, Committed, Links!SiteRows
<1>3. PICK G \in SUBSET Groups : tx' = [tx EXCEPT ![Importer] = [Links!NoTx EXCEPT !.pc = "lock", !.groups = G]]
  <2>1. changed \subseteq Groups /\ missed \union {site[x].group : x \in Sites} \subseteq Groups
    BY <1>2 DEF LinksInv, Committed
  <2>2. QED
    BY <2>1 DEF Links!BeginLinks, Links!BeginRelink
<1>4. PICK r : r = [Links!NoTx EXCEPT !.pc = "lock", !.groups = G]
  OBVIOUS
<1>5. /\ r \in Transactions /\ r.locked = {} /\ r.sites = {} /\ r.stations = {} /\ r.place = None /\ r.at = None
      /\ r.pc = "lock" /\ r.row = None
  BY <1>4 DEF Links!NoTx, Transactions, Locking
<1>6. edits' \in 0 .. MaxEdits /\ Importer \in Links!Actors
  BY <1>1 DEF LinksInv, Committed, Links!Actors
<1>7. QED
  BY <1>1, <1>3, <1>4, <1>5, <1>6, Fresh

\* The station is written: nobody else has its lock, gets its group or changes
\* its location.
LEMMA WriteStationStep ==
  ASSUME Links!LinksAssumption, LinksInv, NEW a \in Editors, NEW dest \in Links!StationRows, Links!WriteStation(a, dest)
  PROVE  LinksInv'
<1>0. a \in Links!Actors /\ a # Importer
  BY DEF Links!Actors, Links!LinksAssumption
<1>1. UNCHANGED <<station, coordinate, site, links, changed, missed, met, imports>> /\ edits' = edits
  BY DEF Links!WriteStation
<1>2. tx[a] \in Transactions /\ Shape(a) /\ tx[a].pc = "begun" /\ tx[a].row \in Stations
  BY <1>0 DEF LinksInv, Links!WriteStation, Transactions
<1>3. PICK r : r = [tx[a] EXCEPT !.pc = "lock", !.to = dest, !.locked = {tx[a].row}, !.groups = @ \union {dest.group}]
  OBVIOUS
<1>4. /\ r \in Transactions /\ r.pc = "lock" /\ r.to = dest /\ r.row = tx[a].row /\ r.locked = {r.row}
      /\ dest.group \in r.groups /\ r.place = None /\ r.at = None /\ r.sites = tx[a].sites /\ r.stations = tx[a].stations
  <2>1. dest.group \in Groups
    BY DEF Links!StationRows
  <2>2. tx[a].place = None /\ tx[a].at = None
    BY <1>2 DEF Shape, Links!LinksAssumption
  <2>3. QED
    BY <1>2, <1>3, <2>1, <2>2 DEF Transactions, Locking
<1>5. tx' = [tx EXCEPT ![a] = r]
  BY <1>3 DEF Links!WriteStation
<1>6. tx'[a] = r /\ Links!Written(a)'
  BY <1>0, <1>2, <1>4, <1>5 DEF LinksInv, Links!Written, Links!LinksAssumption
<1>7. Shape(a)'
  BY <1>0, <1>1, <1>2, <1>4, <1>6 DEF Shape, Links!StationRows
<1>8. Held(a)'
  <2>1. Links!StationSeen(a, r.row)' = dest
    BY <1>4, <1>6 DEF Links!StationSeen
  <2>2. dest # None
    BY DEF Links!LinksAssumption, Links!StationRows
  <2>3. r.row \in Links!InGroups(a, r.groups)'
    BY <1>2, <1>4, <2>1, <2>2 DEF Links!InGroups
  <2>4. \A s \in Stations \ {r.row} : station[s] # None => station[s].group # dest.group
    BY <1>4 DEF Links!WriteStation, Links!GroupIsFree
  <2>5. QED
    BY <1>1, <1>4, <1>6, <2>3, <2>4 DEF Held
<1>9. Known(a)' /\ Stored(a)'
  BY <1>4, <1>6 DEF Known, Stored, Deciding, Decided
<1>10. ASSUME NEW b \in Links!Actors, a # b
       PROVE  Apart(a, b)' /\ Apart(b, a)'
  <2>1. tx'[b] = tx[b] /\ Links!Written(b)' = Links!Written(b)
    BY <1>5, <1>10 DEF LinksInv, Links!Written
  <2>2. r.row \notin tx[b].locked
    BY <1>4, <1>10 DEF Links!WriteStation, Links!Free
  <2>3. Links!Written(b) => tx[b].to.group # dest.group
    BY <1>10 DEF Links!WriteStation, Links!GroupIsFree
  <2>4. Links!Written(b) => tx[b].to.location \in Locations
    BY <1>10 DEF LinksInv, Shape, Links!StationRows
  <2>5. tx[b].place # dest.location
    <3>1. b \in (Editors \cup {Importer}) \ {a}
      BY <1>10 DEF Links!Actors
    <3>2. QED
      BY <1>10, <3>1 DEF Links!WriteStation, Links!Actors
  <2>6. None \notin Locations
    BY DEF Links!LinksAssumption
  <2>7. QED
    BY <1>4, <1>6, <2>1, <2>2, <2>3, <2>4, <2>5, <2>6 DEF Apart
<1>11. edits' \in 0 .. MaxEdits
  BY <1>1 DEF LinksInv, Committed
<1>12. QED
  BY <1>0, <1>1, <1>4, <1>5, <1>7, <1>8, <1>9, <1>10, <1>11, Private

\* The coordinates of a location are written: nobody comes to it.
LEMMA WriteLocationStep ==
  ASSUME Links!LinksAssumption, LinksInv, NEW a \in Editors, NEW q \in Locations, NEW c \in Coordinates,
         Links!WriteLocation(a, q, c)
  PROVE  LinksInv'
<1>0. a \in Links!Actors /\ a # Importer
  BY DEF Links!Actors, Links!LinksAssumption
<1>1. UNCHANGED <<station, coordinate, site, links, changed, missed, met, imports>>
  BY DEF Links!WriteLocation
<1>2. PICK r : r = [Links!NoTx EXCEPT !.pc = "find", !.place = q, !.at = c]
  OBVIOUS
<1>3. /\ r \in Transactions /\ r.pc = "find" /\ r.row = None /\ r.place = q /\ r.at = c /\ r.locked = {} /\ r.sites = {}
      /\ r.stations = {}
  BY <1>2 DEF Links!NoTx, Transactions
<1>4. tx' = [tx EXCEPT ![a] = r]
  BY <1>2 DEF Links!WriteLocation
<1>5. tx'[a] = r /\ ~Links!Written(a)'
  BY <1>0, <1>3, <1>4 DEF LinksInv, Links!Written
<1>6. Shape(a)'
  BY <1>0, <1>3, <1>5, FS_EmptySet DEF Shape, Links!LinksAssumption
<1>7. Held(a)' /\ Known(a)' /\ Stored(a)'
  BY <1>3, <1>5 DEF Held, Known, Stored, Locking, Deciding, Decided
<1>8. ASSUME NEW b \in Links!Actors, a # b
      PROVE  Apart(a, b)' /\ Apart(b, a)'
  <2>1. tx'[b] = tx[b] /\ Links!Written(b)' = Links!Written(b)
    BY <1>4, <1>8 DEF LinksInv, Links!Written
  <2>2. Links!Written(b) => tx[b].to.location # q
    BY <1>8 DEF Links!WriteLocation
  <2>3. QED
    BY <1>3, <1>5, <2>1, <2>2 DEF Apart
<1>9. edits' \in 0 .. MaxEdits
  BY DEF Links!WriteLocation, LinksInv, Committed, Links!LinksAssumption
<1>10. QED
  BY <1>0, <1>1, <1>3, <1>4, <1>6, <1>7, <1>8, <1>9, Private

\* The stations of the location are locked.
LEMMA FindGroupsStep ==
  ASSUME Links!LinksAssumption, LinksInv, NEW a \in Editors, Links!FindGroups(a)
  PROVE  LinksInv'
<1> DEFINE there == {s \in Stations : station[s] # None /\ station[s].location = tx[a].place}
           groups == {station[s].group : s \in there}
<1>0. a \in Links!Actors /\ a # Importer
  BY DEF Links!Actors, Links!LinksAssumption
<1>1. UNCHANGED <<station, coordinate, site, links, changed, missed, met, imports>> /\ edits' = edits
  BY DEF Links!FindGroups
<1>2. tx[a] \in Transactions /\ Shape(a) /\ tx[a].pc = "find" /\ tx[a].row = None /\ tx[a].place # None
  BY <1>0 DEF LinksInv, Links!FindGroups, Shape
<1>3. there \subseteq Stations /\ groups \subseteq Groups
  BY Rows DEF LinksInv
<1>4. PICK r : r = [tx[a] EXCEPT !.pc = "lock", !.locked = there, !.groups = groups]
  OBVIOUS
<1>5. /\ r \in Transactions /\ r.pc = "lock" /\ r.row = None /\ r.locked = there /\ r.groups = groups
      /\ r.place = tx[a].place /\ r.at = tx[a].at /\ r.sites = tx[a].sites /\ r.stations = tx[a].stations
  <2> HIDE DEF there, groups
  <2> QED
    BY <1>2, <1>3, <1>4 DEF Transactions, Locking
<1>6. tx' = [tx EXCEPT ![a] = r]
  BY <1>4 DEF Links!FindGroups
<1>7. tx'[a] = r /\ ~Links!Written(a)'
  BY <1>0, <1>5, <1>6 DEF LinksInv, Links!Written
<1>8. Shape(a)'
  BY <1>0, <1>2, <1>5, <1>7 DEF Shape
<1>9. Held(a)'
  <2>1. \A s \in Stations : Links!StationSeen(a, s)' = station[s]
    BY <1>1, <1>5, <1>7 DEF Links!StationSeen, Links!LinksAssumption
  <2>2. r.locked \subseteq Links!InGroups(a, r.groups)'
    BY <1>5, <2>1 DEF Links!InGroups
  <2>3. QED
    BY <1>1, <1>5, <1>7, <2>2 DEF Held
<1>10. Known(a)' /\ Stored(a)'
  BY <1>5, <1>7 DEF Known, Stored, Deciding, Decided
<1>11. ASSUME NEW b \in Links!Actors, a # b
       PROVE  Apart(a, b)' /\ Apart(b, a)'
  <2>1. tx'[b] = tx[b] /\ Links!Written(b)' = Links!Written(b)
    BY <1>6, <1>11 DEF LinksInv, Links!Written
  <2>2. there \cap tx[b].locked = {}
    BY <1>11 DEF Links!FindGroups, Links!Free
  <2>3. Apart(b, a)
    BY <1>11, <1>0 DEF LinksInv
  <2>4. QED
    BY <1>5, <1>7, <2>1, <2>2, <2>3 DEF Apart
<1>12. edits' \in 0 .. MaxEdits
  BY <1>1 DEF LinksInv, Committed
<1>13. QED
  BY <1>0, <1>1, <1>5, <1>6, <1>8, <1>9, <1>10, <1>11, <1>12, Private

\* A transaction goes on with the correction: it keeps what it has written and
\* what it has locked.
LEMMA Advance ==
  ASSUME Links!LinksAssumption, LinksInv, NEW a \in Links!Actors, NEW r \in Transactions, tx' = [tx EXCEPT ![a] = r],
         UNCHANGED <<station, coordinate, site, links, changed, missed, met, imports, edits>>,
         tx[a].pc \in Locking, r.pc \in Locking,
         r.row = tx[a].row, r.to = tx[a].to, r.place = tx[a].place, r.at = tx[a].at, r.groups = tx[a].groups,
         tx[a].locked \subseteq r.locked, r.locked \subseteq tx[a].locked \cup Links!InGroups(a, tx[a].groups),
         \A b \in Links!Actors \ {a} : r.locked \cap tx[b].locked = {},
         r.sites = tx[a].sites \/ r.sites = Links!LinkableSites(tx[a].groups),
         r.pc \notin {"stored", "write"} => r.stations = tx[a].stations /\ tx[a].pc \notin {"stored", "write"},
         r.pc = "stations" => r.sites # {},
         r.pc \in {"stored", "write"} =>
           r.stations = IF r.sites = {} THEN {} ELSE {Record(a, s) : s \in r.locked},
         Known(a)', Stored(a)'
  PROVE  LinksInv'
<1>1. tx'[a] = r /\ Shape(a) /\ Held(a) /\ Committed
  BY DEF LinksInv
<1>2. Links!Written(a)' = Links!Written(a)
  BY <1>1 DEF Links!Written, Locking, Decided
<1>3. \A s : Seen(a, s)' = Seen(a, s)
  BY <1>1 DEF Seen, Links!StationSeen
<1>4. \A G : Links!InGroups(a, G)' = Links!InGroups(a, G)
  BY <1>3 DEF Links!InGroups, Seen
<1>5. \A s : Record(a, s)' = Record(a, s)
  BY <1>1, <1>3 DEF Record, Links!CoordinateSeen
<1>6. Shape(a)'
  <2>1. /\ \A x, y \in r.sites : x.id = y.id => x = y
        /\ IsFiniteSet(r.sites)
    BY <1>1, LinkableFacts DEF Shape, Committed
  <2>2. Links!Written(a) => tx[a].row \in r.locked /\ tx[a].to \in Links!StationRows
    BY <1>1 DEF Shape
  <2>3. (Links!StationRows)' = Links!StationRows
    BY DEF Links!StationRows
  <2>4. QED
    BY <1>1, <1>2, <2>1, <2>2, <2>3 DEF Shape, Locking, Decided
<1>7. Held(a)'
  <2>1. r.locked \subseteq Links!InGroups(a, r.groups)'
    BY <1>1, <1>4 DEF Held
  <2>2. r.place # None => \A s \in Stations : station[s] # None /\ station[s].location = r.place => s \in r.locked
    BY <1>1 DEF Held
  <2>3. Links!Written(a) => \A s \in Stations \ {r.row} : station[s] # None => station[s].group # r.to.group
    BY <1>1 DEF Held
  <2>4. r.pc \in {"stored", "write"} =>
          r.stations = IF r.sites = {} THEN {} ELSE {Record(a, s)' : s \in r.locked}
    BY <1>5
  <2>5. QED
    BY <1>1, <1>2, <2>1, <2>2, <2>3, <2>4 DEF Held
<1>8. ASSUME NEW b \in Links!Actors, a # b
      PROVE  Apart(a, b)' /\ Apart(b, a)'
  <2>1. tx'[b] = tx[b] /\ Links!Written(b)' = Links!Written(b)
    BY <1>8 DEF LinksInv, Links!Written
  <2>2. Apart(a, b) /\ Apart(b, a)
    BY <1>8 DEF LinksInv
  <2>3. QED
    BY <1>1, <1>2, <1>8, <2>1, <2>2 DEF Apart
<1>9. edits' \in 0 .. MaxEdits
  BY <1>1 DEF Committed
<1>10. QED
  BY <1>6, <1>7, <1>8, <1>9, Private

LEMMA LockStationsStep ==
  ASSUME Links!LinksAssumption, LinksInv, NEW a \in Links!Actors, Links!LockStations(a)
  PROVE  LinksInv'
<1>1. UNCHANGED <<station, coordinate, site, links, changed, missed, met, imports, edits>>
  BY DEF Links!LockStations
<1>2. tx[a] \in Transactions /\ Shape(a) /\ tx[a].pc = "lock"
  BY DEF LinksInv, Links!LockStations
<1>3. PICK L \in SUBSET Stations : L = tx[a].locked \cup Links!InGroups(a, tx[a].groups)
  BY <1>2 DEF Transactions, Links!InGroups
<1>4. PICK r : r = [tx[a] EXCEPT !.pc = "sites", !.locked = L]
  OBVIOUS
<1>5. /\ r \in Transactions /\ r.pc = "sites" /\ r.locked = L
      /\ r.row = tx[a].row /\ r.to = tx[a].to /\ r.place = tx[a].place /\ r.at = tx[a].at
      /\ r.groups = tx[a].groups /\ r.sites = tx[a].sites /\ r.stations = tx[a].stations
  BY <1>2, <1>4 DEF Transactions, Locking, Decided
<1>6. tx' = [tx EXCEPT ![a] = r]
  BY <1>3, <1>4 DEF Links!LockStations
<1>7. tx'[a] = r
  BY <1>6 DEF LinksInv
<1>8. \A b \in Links!Actors \ {a} : L \cap tx[b].locked = {}
  <2>1. ASSUME NEW b \in Links!Actors \ {a}, NEW s \in L
        PROVE  s \notin tx[b].locked
    <3>1. CASE s \in tx[a].locked
      BY <3>1 DEF LinksInv, Apart
    <3>2. CASE s \in Links!InGroups(a, tx[a].groups)
      BY <3>2 DEF Links!LockStations, Links!Free
    <3>3. QED
      BY <1>3, <2>1, <3>1, <3>2
  <2>2. QED
    BY <2>1
<1>9. Known(a)'
  <2>1. ASSUME a = Importer, NEW s \in Stations, station[s] # None, station[s].group \in tx[a].groups
        PROVE  s \in L
    <3>1. Seen(a, s) = station[s]
      BY <1>2, <2>1, ImportSees
    <3>2. s \in Links!InGroups(a, tx[a].groups)
      BY <2>1, <3>1 DEF Links!InGroups, Seen
    <3>3. QED
      BY <1>3, <3>2
  <2>2. QED
    BY <1>1, <1>5, <1>7, <2>1 DEF Known, Deciding
<1>10. Stored(a)'
  BY <1>5, <1>7 DEF Stored
<1>11. QED
  BY <1>1, <1>2, <1>3, <1>5, <1>6, <1>8, <1>9, <1>10, Advance DEF Locking, Decided

LEMMA ReadSitesStep ==
  ASSUME Links!LinksAssumption, LinksInv, NEW a \in Links!Actors, Links!ReadSites(a)
  PROVE  LinksInv'
<1>1. UNCHANGED <<station, coordinate, site, links, changed, missed, met, imports, edits>>
  BY DEF Links!ReadSites
<1>2. tx[a] \in Transactions /\ Shape(a) /\ Held(a) /\ Known(a) /\ Committed /\ tx[a].pc = "sites"
  BY DEF LinksInv, Links!ReadSites
<1>3. PICK X \in SUBSET SiteRecords : X = Links!LinkableSites(tx[a].groups)
  BY <1>2, LinkableFacts DEF Committed
<1>4. PICK p \in {"stored", "stations"} : p = IF X = {} THEN "stored" ELSE "stations"
  OBVIOUS
<1>5. PICK r : r = [tx[a] EXCEPT !.sites = X, !.pc = p]
  OBVIOUS
<1>6. /\ r \in Transactions /\ r.pc = p /\ r.locked = tx[a].locked /\ r.sites = X
      /\ r.row = tx[a].row /\ r.to = tx[a].to /\ r.place = tx[a].place /\ r.at = tx[a].at
      /\ r.groups = tx[a].groups /\ r.stations = tx[a].stations
  BY <1>2, <1>5 DEF Transactions, Locking, Decided
<1>7. tx' = [tx EXCEPT ![a] = r]
  BY <1>3, <1>4, <1>5 DEF Links!ReadSites
<1>8. tx'[a] = r
  BY <1>7 DEF LinksInv
<1>9. Known(a)'
  <2>1. \A G : Links!LinkableSites(G)' = Links!LinkableSites(G)
    BY <1>1 DEF Links!LinkableSites
  <2>2. ASSUME NEW s \in tx[a].locked
        PROVE  /\ Seen(a, s)' = Seen(a, s)
               /\ OfGroup(X, Seen(a, s).group) = Links!LinkableSites({Seen(a, s).group})
    <3>1. Seen(a, s)' = Seen(a, s)
      BY <1>1, <1>6, <1>8 DEF Seen, Links!StationSeen
    <3>2. Seen(a, s).group \in tx[a].groups
      BY <1>2, <2>2 DEF Held, Locking, Decided, Links!InGroups, Seen
    <3>3. QED
      BY <1>2, <1>3, <3>1, <3>2, LinkableFacts DEF Committed
  <2>3. QED
    BY <1>1, <1>2, <1>3, <1>6, <1>8, <2>1, <2>2 DEF Known, Deciding, Decided
<1>10. Stored(a)'
  BY <1>6, <1>8 DEF Stored
<1>11. tx[a].pc \in Locking /\ r.pc \in Locking /\ \A b \in Links!Actors \ {a} : r.locked \cap tx[b].locked = {}
  BY <1>2, <1>6 DEF Locking, Decided, LinksInv, Apart
<1>12. (r.pc = "stored" => r.sites = {} /\ r.stations = {}) /\ (r.pc = "stations" => r.sites # {})
  BY <1>2, <1>4, <1>6 DEF Shape
<1>13. QED
  BY <1>1, <1>2, <1>3, <1>6, <1>7, <1>9, <1>10, <1>11, <1>12, Advance

\* What a transaction knows of a station that it has locked.
LEMMA RecordTypes ==
  ASSUME Links!LinksAssumption, LinksInv, NEW a \in Links!Actors, tx[a].pc \in Locking, NEW s \in tx[a].locked
  PROVE  /\ s \in Stations /\ Seen(a, s) \in Links!StationRows /\ Seen(a, s).group \in tx[a].groups
         /\ Record(a, s) \in StationRecords /\ Seen(a, s) # None
<1>1. tx[a] \in Transactions /\ Shape(a) /\ Held(a) /\ Committed
  BY DEF LinksInv
<1>2. s \in Stations /\ Seen(a, s) # None /\ Seen(a, s).group \in tx[a].groups
  BY <1>1 DEF Held, Links!InGroups, Seen
<1>3. Seen(a, s) \in Links!StationRows
  BY <1>1, <1>2 DEF Seen, Links!StationSeen, Transactions, Committed
<1>4. Seen(a, s).group \in Groups /\ Seen(a, s).location \in Locations
  BY <1>3 DEF Links!StationRows
<1>5. Links!CoordinateSeen(a, Seen(a, s).location) \in Coordinates
  BY <1>1, <1>4 DEF Links!CoordinateSeen, Links!LinksAssumption, Shape, Transactions, Committed
<1>6. QED
  BY <1>2, <1>3, <1>4, <1>5 DEF Record, StationRecords

\* What is known of the sites does not change with what is read of the rest.
LEMMA KnownStays ==
  ASSUME NEW a, Known(a), tx[a].pc \in Deciding, UNCHANGED <<station, site, changed, missed, met>>,
         tx'[a].locked = tx[a].locked, tx'[a].row = tx[a].row, tx'[a].to = tx[a].to,
         tx'[a].groups = tx[a].groups, tx'[a].sites = tx[a].sites
  PROVE  Known(a)'
<1>1. \A s : Seen(a, s)' = Seen(a, s) /\ Comes(a, s)' = Comes(a, s)
  BY DEF Seen, Comes, Links!StationSeen
<1>2. \A G : Links!LinkableSites(G)' = Links!LinkableSites(G)
  BY DEF Links!LinkableSites
<1>3. tx[a].pc \in Decided
  BY DEF Deciding, Decided
<1>4. QED
  BY <1>1, <1>2, <1>3 DEF Known

\* Those that it sees are locked, or it locks again.
LEMMA ReadStationsStep ==
  ASSUME Links!LinksAssumption, LinksInv, NEW a \in Links!Actors, Links!ReadStations(a)
  PROVE  LinksInv'
<1>1. UNCHANGED <<station, coordinate, site, links, changed, missed, met, imports, edits>>
  BY DEF Links!ReadStations
<1>2. tx[a] \in Transactions /\ Shape(a) /\ Held(a) /\ Known(a) /\ Committed /\ tx[a].pc = "stations"
  BY DEF LinksInv, Links!ReadStations
<1>3. \A b \in Links!Actors \ {a} : tx[a].locked \cap tx[b].locked = {}
  BY DEF LinksInv, Apart
<1>4. CASE ~(Links!InGroups(a, tx[a].groups) \subseteq tx[a].locked)
  <2>1. PICK r : r = [tx[a] EXCEPT !.pc = "lock"]
    OBVIOUS
  <2>2. /\ r \in Transactions /\ r.pc = "lock" /\ r.locked = tx[a].locked /\ r.sites = tx[a].sites
        /\ r.row = tx[a].row /\ r.to = tx[a].to /\ r.place = tx[a].place /\ r.at = tx[a].at
        /\ r.groups = tx[a].groups /\ r.stations = tx[a].stations
    BY <1>2, <2>1 DEF Transactions, Locking
  <2>3. tx' = [tx EXCEPT ![a] = r]
    BY <1>4, <2>1 DEF Links!ReadStations
  <2>4. tx'[a] = r
    BY <2>3 DEF LinksInv
  <2>5. Known(a)' /\ Stored(a)'
    BY <2>2, <2>4 DEF Known, Stored, Deciding, Decided
  <2>6. tx[a].pc \in Locking /\ r.pc \in Locking
    BY <1>2, <2>2 DEF Locking, Decided
  <2>7. QED
    BY <1>1, <1>2, <1>3, <2>2, <2>3, <2>5, <2>6, Advance
<1>5. CASE Links!InGroups(a, tx[a].groups) \subseteq tx[a].locked
  <2>1. Links!InGroups(a, tx[a].groups) = tx[a].locked
    BY <1>2, <1>5 DEF Held, Locking, Decided
  <2>2. Links!LinkableStations(a, tx[a].groups) = {Record(a, s) : s \in tx[a].locked}
    BY <2>1 DEF Links!LinkableStations, Record, Seen
  <2>3. tx[a].sites # {}
    BY <1>2 DEF Shape
  <2>4. PICK R \in SUBSET StationRecords : R = Links!LinkableStations(a, tx[a].groups)
    BY <1>2, <2>2, RecordTypes DEF Held, Locking, Decided
  <2>5. PICK r : r = [tx[a] EXCEPT !.stations = R, !.pc = "stored"]
    OBVIOUS
  <2>6. /\ r \in Transactions /\ r.pc = "stored" /\ r.locked = tx[a].locked /\ r.sites = tx[a].sites
        /\ r.row = tx[a].row /\ r.to = tx[a].to /\ r.place = tx[a].place /\ r.at = tx[a].at
        /\ r.groups = tx[a].groups /\ r.stations = R
    BY <1>2, <2>5 DEF Transactions, Locking, Decided
  <2>7. tx' = [tx EXCEPT ![a] = r]
    BY <1>5, <2>4, <2>5 DEF Links!ReadStations
  <2>8. tx'[a] = r
    BY <2>7 DEF LinksInv
  <2>9. Known(a)'
    BY <1>1, <1>2, <2>6, <2>8, KnownStays DEF Deciding
  <2>10. Stored(a)'
    BY <2>6, <2>8 DEF Stored
  <2>11. tx[a].pc \in Locking /\ r.pc \in Locking
    BY <1>2, <2>6 DEF Locking, Decided
  <2>12. QED
    BY <1>1, <1>2, <1>3, <2>2, <2>3, <2>4, <2>6, <2>7, <2>9, <2>10, <2>11, Advance
<1>6. QED
  BY <1>4, <1>5

LEMMA ReadStoredStep ==
  ASSUME Links!LinksAssumption, LinksInv, NEW a \in Links!Actors, Links!ReadStored(a)
  PROVE  LinksInv'
<1>1. UNCHANGED <<station, coordinate, site, links, changed, missed, met, imports, edits>>
  BY DEF Links!ReadStored
<1>2. tx[a] \in Transactions /\ Shape(a) /\ Held(a) /\ Known(a) /\ Committed /\ tx[a].pc = "stored"
  BY DEF LinksInv, Links!ReadStored
<1>3. \A b \in Links!Actors \ {a} : tx[a].locked \cap tx[b].locked = {}
  BY DEF LinksInv, Apart
<1>4. PICK L \in SUBSET (Stations \X Sites) :
        L = {l \in links : l[1] \in Links!InGroups(a, tx[a].groups) \/ site[l[2]].group \in tx[a].groups}
  BY <1>2 DEF Committed
<1>5. PICK r : r = [tx[a] EXCEPT !.pc = "write", !.stored = L]
  OBVIOUS
<1>6. /\ r \in Transactions /\ r.pc = "write" /\ r.locked = tx[a].locked /\ r.sites = tx[a].sites
      /\ r.row = tx[a].row /\ r.to = tx[a].to /\ r.place = tx[a].place /\ r.at = tx[a].at
      /\ r.groups = tx[a].groups /\ r.stations = tx[a].stations /\ r.stored = L
  BY <1>2, <1>5 DEF Transactions, Locking, Decided
<1>7. tx' = [tx EXCEPT ![a] = r]
  BY <1>4, <1>5 DEF Links!ReadStored
<1>8. tx'[a] = r
  BY <1>7 DEF LinksInv
<1>9. Known(a)'
  BY <1>1, <1>2, <1>6, <1>8, KnownStays DEF Deciding
<1>10. Stored(a)'
  <2>1. tx[a].locked \subseteq Links!InGroups(a, tx[a].groups)
    BY <1>2 DEF Held, Locking, Decided
  <2>2. \A s \in tx[a].locked : LinksOf(s, L) = LinksOf(s, links)
    BY <1>4, <2>1 DEF LinksOf
  <2>3. QED
    BY <1>1, <1>6, <1>8, <2>2 DEF Stored, LinksOf
<1>11. tx[a].pc \in Locking /\ r.pc \in Locking
  BY <1>2, <1>6 DEF Locking, Decided
<1>12. tx[a].stations = IF tx[a].sites = {} THEN {} ELSE {Record(a, s) : s \in tx[a].locked}
  BY <1>2 DEF Held
<1>13. QED
  BY <1>1, <1>2, <1>3, <1>6, <1>7, <1>9, <1>10, <1>11, <1>12, Advance

-----------------------------------------------------------------------------
(* Steps that change what is committed.                                    *)

\* A site changes: its groups are of those that the import has changed, and the
\* stations that come to them are known to have met it.
LEMMA ImportSiteStep ==
  ASSUME Links!LinksAssumption, LinksInv, NEW x \in Sites, NEW dest \in Links!SiteRows, Links!ImportSite(x, dest)
  PROVE  LinksInv'
<1>1. UNCHANGED <<station, coordinate, links, tx, missed, edits>>
  BY DEF Links!ImportSite
<1>2. /\ site' = [site EXCEPT ![x] = dest]
      /\ changed' = changed \cup {site[x].group, dest.group}
      /\ met' = met \cup Links!Comers(Editors)
      /\ tx[Importer].pc = "idle" /\ imports' = imports + 1 /\ imports < MaxImports
  BY DEF Links!ImportSite, Links!AffectedGroups
<1>3. Committed /\ \A b \in Links!Actors : Shape(b) /\ Held(b) /\ Known(b) /\ Stored(b)
  BY DEF LinksInv
<1>4. Links!Comers(Editors) \subseteq Stations
  <2>1. \A b \in Editors : Links!Written(b) => tx[b].row \in Stations
    BY DEF LinksInv, Links!Actors, Transactions, Links!Written
  <2>2. QED
    BY <2>1 DEF Links!Comers
<1>5. Committed'
  <2>1. site' \in [Sites -> Links!SiteRows] /\ changed' \subseteq Groups /\ met' \subseteq Stations
    BY <1>2, <1>3, <1>4 DEF Committed, Links!SiteRows
  <2>2. imports' \in 0 .. MaxImports
    BY <1>2, <1>3 DEF Committed, Links!LinksAssumption
  <2>3. Links!StationRows' = Links!StationRows /\ Links!SiteRows' = Links!SiteRows
    BY DEF Links!StationRows, Links!SiteRows
  <2>4. QED
    BY <1>1, <1>3, <2>1, <2>2, <2>3 DEF Committed
<1>6. \A s : Seen(Importer, s)' = Seen(Importer, s) /\ Record(Importer, s)' = Record(Importer, s)
  BY <1>1 DEF Seen, Record, Links!StationSeen, Links!CoordinateSeen
<1>7. ASSUME NEW g, g \notin {site[x].group, dest.group}
      PROVE  /\ Links!LinkableSites({g})' = Links!LinkableSites({g})
             /\ OfGroup(Links!LinkableSites(Groups), g)' = OfGroup(Links!LinkableSites(Groups), g)
  <2>1. \A y \in Sites : site'[y].group = g \/ site[y].group = g => site'[y] = site[y]
    BY <1>2, <1>3, <1>7 DEF Committed
  <2>2. QED
    BY <2>1 DEF Links!LinkableSites, OfGroup
<1>8. ASSUME NEW b \in Links!Actors
      PROVE  Shape(b)' /\ Held(b)' /\ Known(b)' /\ Stored(b)'
  <2>1. \A s : Seen(b, s)' = Seen(b, s) /\ Record(b, s)' = Record(b, s) /\ Comes(b, s)' = Comes(b, s)
    BY <1>1 DEF Seen, Record, Comes, Links!StationSeen, Links!CoordinateSeen
  <2>2. Shape(b)'
    BY <1>1, <1>3 DEF Shape, Links!Written, Links!StationRows
  <2>3. Held(b)'
    <3>1. \A G : Links!InGroups(b, G)' = Links!InGroups(b, G)
      BY <2>1, <1>1 DEF Links!InGroups, Seen
    <3>2. QED
      BY <1>1, <1>3, <2>1, <3>1 DEF Held, Links!Written
  <2>4. Stored(b)'
    BY <1>1, <1>2, <1>3 DEF Stored
  <2>5. Known(b)'
    <3>1. CASE b = Importer
      BY <1>1, <1>2, <3>1 DEF Known, Deciding, Decided
    <3>2. CASE b # Importer /\ tx[b].pc \notin Deciding
      BY <1>1, <3>2 DEF Known
    <3>3. CASE b # Importer /\ tx[b].pc \in Deciding
      <4>1. ASSUME NEW s \in tx[b].locked \ met'
            PROVE  \/ OfGroup(tx[b].sites, Seen(b, s).group) = Links!LinkableSites({Seen(b, s).group})'
                   \/ ~Comes(b, s) /\ Seen(b, s).group \in changed' \cup missed
        <5>1. s \in tx[b].locked \ met
          BY <1>2, <4>1
        <5>2. s \in Stations
          BY <5>1 DEF LinksInv, Transactions
        <5>3. ~Comes(b, s)
          <6>1. SUFFICES ASSUME Comes(b, s) PROVE FALSE
            OBVIOUS
          <6>2. Links!Written(b) /\ b \in Editors
            BY <3>3, <5>2, <6>1 DEF Comes, Links!Written, Deciding, Links!LinksAssumption, Links!Actors
          <6>3. tx[b].row \in Links!Comers(Editors)
            BY <6>1, <6>2 DEF Comes, Links!Comers
          <6>4. QED
            BY <1>2, <4>1, <6>1, <6>3 DEF Comes
        <5>4. CASE Seen(b, s).group \in {site[x].group, dest.group}
          BY <1>2, <5>3, <5>4
        <5>5. CASE Seen(b, s).group \notin {site[x].group, dest.group}
          <6>1. PICK g : g = Seen(b, s).group
            OBVIOUS
          <6>2. Links!LinkableSites({g})' = Links!LinkableSites({g})
            BY <1>7, <5>5, <6>1
          <6>3. Links!LinkableSites({Seen(b, s).group})' = Links!LinkableSites({Seen(b, s).group})
            BY <2>1, <6>1, <6>2
          <6>4. \/ OfGroup(tx[b].sites, Seen(b, s).group) = Links!LinkableSites({Seen(b, s).group})
                \/ ~Comes(b, s) /\ Seen(b, s).group \in changed \cup missed
            BY <1>3, <3>3, <5>1 DEF Known
          <6>5. QED
            BY <1>2, <6>3, <6>4
        <5>6. QED
          BY <5>4, <5>5
      <4>2. QED
        BY <1>1, <2>1, <3>3, <4>1 DEF Known
    <3>4. QED
      BY <3>1, <3>2, <3>3
  <2>6. QED
    BY <2>2, <2>3, <2>4, <2>5
<1>9. \A b, c \in Links!Actors : b # c => Apart(b, c)'
  BY <1>1 DEF LinksInv, Apart, Links!Written
<1>10. ASSUME NEW s \in (Links!Settled \ met)'
       PROVE  Settled(s)'
  <2>1. s \in Links!Settled \ met /\ station[s].group \notin {site[x].group, dest.group}
    BY <1>1, <1>2 DEF Links!Settled
  <2>2. Settled(s)
    BY <2>1 DEF LinksInv
  <2>3. Record(Importer, s).group = station[s].group
    BY <1>3, <2>1, ImportSees DEF Record, Links!Settled, Links!Actors
  <2>4. Pick(Links!LinkableSites(Groups)', Record(Importer, s)) = Pick(Links!LinkableSites(Groups), Record(Importer, s))
    <3>1. PICK g : g = station[s].group
      OBVIOUS
    <3>2. OfGroup(Links!LinkableSites(Groups)', g) = OfGroup(Links!LinkableSites(Groups), g)
      BY <1>7, <2>1, <3>1 DEF OfGroup
    <3>3. PICK r : r = Record(Importer, s)
      OBVIOUS
    <3>4. OfGroup(Links!LinkableSites(Groups)', r.group) = OfGroup(Links!LinkableSites(Groups), r.group)
      BY <2>3, <3>1, <3>2, <3>3
    <3>5. Pick(Links!LinkableSites(Groups)', r) = Pick(Links!LinkableSites(Groups), r)
      BY <3>4, PickOfGroup
    <3>6. QED
      BY <3>3, <3>5
  <2>5. QED
    BY <1>1, <1>6, <2>2, <2>4 DEF Settled
<1>11. tx' \in [Links!Actors -> Transactions]
  BY <1>1 DEF LinksInv
<1>12. QED
  BY <1>5, <1>8, <1>9, <1>10, <1>11 DEF LinksInv

LEMMA FailRunStep ==
  ASSUME Links!LinksAssumption, LinksInv, Links!FailRun \/ UNCHANGED Links!vars
  PROVE  LinksInv'
<1>1. /\ UNCHANGED <<station, coordinate, site, links, tx, met, edits, imports>>
      /\ changed' \cup missed' = changed \cup missed
  BY DEF Links!FailRun, Links!vars
<1>2. Committed /\ \A b \in Links!Actors : Shape(b) /\ Held(b) /\ Known(b) /\ Stored(b)
  BY DEF LinksInv
<1>3. Committed'
  BY <1>1, <1>2 DEF Committed, Links!StationRows, Links!SiteRows
<1>4. \A G : Links!LinkableSites(G)' = Links!LinkableSites(G)
  BY <1>1 DEF Links!LinkableSites
<1>5. ASSUME NEW b \in Links!Actors
      PROVE  Shape(b)' /\ Held(b)' /\ Known(b)' /\ Stored(b)'
  <2>1. \A s : Seen(b, s)' = Seen(b, s) /\ Record(b, s)' = Record(b, s) /\ Comes(b, s)' = Comes(b, s)
    BY <1>1 DEF Seen, Record, Comes, Links!StationSeen, Links!CoordinateSeen
  <2>2. Shape(b)'
    BY <1>1, <1>2 DEF Shape, Links!Written, Links!StationRows
  <2>3. Held(b)'
    <3>1. \A G : Links!InGroups(b, G)' = Links!InGroups(b, G)
      BY <2>1, <1>1 DEF Links!InGroups, Seen
    <3>2. QED
      BY <1>1, <1>2, <2>1, <3>1 DEF Held, Links!Written
  <2>4. Known(b)'
    BY <1>1, <1>2, <1>4, <2>1 DEF Known
  <2>5. Stored(b)'
    BY <1>1, <1>2 DEF Stored
  <2>6. QED
    BY <2>2, <2>3, <2>4, <2>5
<1>6. \A b, c \in Links!Actors : b # c => Apart(b, c)'
  BY <1>1 DEF LinksInv, Apart, Links!Written
<1>7. ASSUME NEW s \in (Links!Settled \ met)'
      PROVE  Settled(s)'
  <2>1. s \in Links!Settled \ met
    BY <1>1 DEF Links!Settled
  <2>2. Record(Importer, s)' = Record(Importer, s)
    BY <1>1 DEF Record, Seen, Links!StationSeen, Links!CoordinateSeen
  <2>3. QED
    BY <1>1, <1>4, <2>1, <2>2 DEF Settled, LinksInv
<1>8. tx' \in [Links!Actors -> Transactions]
  BY <1>1 DEF LinksInv
<1>9. QED
  BY <1>3, <1>5, <1>6, <1>7, <1>8 DEF LinksInv

LEMMA LinksInit == Links!LinksAssumption /\ Links!Init => LinksInv
<1> SUFFICES ASSUME Links!LinksAssumption, Links!Init
             PROVE  LinksInv
  OBVIOUS
<1>1. PICK first \in Stations, row \in Links!StationRows : station = [s \in Stations |-> IF s = first THEN row ELSE None]
  BY DEF Links!Init
<1>2. row # None /\ row.group \in Groups
  BY DEF Links!LinksAssumption, Links!StationRows
<1>3. tx = [a \in Links!Actors |-> Links!NoTx] /\ site \in [Sites -> Links!SiteRows]
  BY DEF Links!Init
<1>4. \A a \in Links!Actors : Shape(a) /\ Held(a) /\ Known(a) /\ Stored(a)
  BY <1>3, FS_EmptySet DEF Links!NoTx, Shape, Held, Known, Stored, Links!Written, Locking, Deciding, Decided
<1>5. \A a, b \in Links!Actors : a # b => Apart(a, b)
  BY <1>3 DEF Links!NoTx, Apart, Links!Written
<1>6. Links!InGroups(Importer, Groups) = {first} /\ \A s \in Stations : Seen(Importer, s) = station[s]
  <2>1. \A s \in Stations : Links!StationSeen(Importer, s) = station[s]
    BY <1>3 DEF Links!StationSeen, Links!NoTx, Links!LinksAssumption, Links!Actors
  <2>2. QED
    BY <1>1, <1>2, <2>1 DEF Links!InGroups, Seen
<1>7. links = Pick(Links!LinkableSites(Groups), Record(Importer, first))
  <2>1. Links!LinkableStations(Importer, Groups) = {Record(Importer, first)}
    BY <1>6 DEF Links!LinkableStations, Record, Seen
  <2>2. links = UNION {Pick(Links!LinkableSites(Groups), r) : r \in {Record(Importer, first)}}
    BY <2>1, DecidedByPick DEF Links!Init
  <2>3. QED
    BY <2>2
<1>8. \A l \in links : l \in {first} \X Sites
  <2>1. Record(Importer, first).id = first
    BY DEF Record
  <2>2. QED
    BY <1>3, <1>7, <2>1, PickMember, LinkableFacts
<1>9. \A l, m \in links : l = m
  BY <1>3, <1>7, PickIsOne, LinkableFacts
<1>10. Committed
  <2>1. station \in [Stations -> Links!StationRows \cup {None}]
    BY <1>1
  <2>2. coordinate \in [Locations -> Coordinates]
    BY DEF Links!Init
  <2>3. changed = {} /\ missed = {} /\ met = {} /\ edits = 0 /\ imports = 0
    BY DEF Links!Init
  <2>4. links \subseteq Stations \X Sites /\ \A l \in links : station[l[1]] # None
    BY <1>1, <1>2, <1>8
  <2>5. \A s, t \in Stations : s # t /\ station[s] # None /\ station[t] # None => station[s].group # station[t].group
    BY <1>1
  <2>6. edits \in 0 .. MaxEdits /\ imports \in 0 .. MaxImports
    BY <2>3 DEF Links!LinksAssumption
  <2>7. QED
    BY <1>3, <1>9, <2>1, <2>2, <2>3, <2>4, <2>5, <2>6 DEF Committed
<1>11. ASSUME NEW s \in Links!Settled
       PROVE  Settled(s)
  <2>1. s = first
    BY <1>1 DEF Links!Settled
  <2>2. LinksOf(s, links) = links
    BY <1>8, <2>1 DEF LinksOf
  <2>3. QED
    BY <1>7, <2>1, <2>2 DEF Settled
<1>12. tx \in [Links!Actors -> Transactions]
  BY <1>3, NoTransaction
<1>13. QED
  BY <1>4, <1>5, <1>10, <1>11, <1>12 DEF LinksInv

\* The links that a transaction is about to write: of every station that it has
\* locked the one of the rule, and no two of a site.
LEMMA Wanted ==
  ASSUME Links!LinksAssumption, LinksInv, NEW a \in Links!Actors, tx[a].pc = "write",
         NEW wanted, wanted = Links!decideStationLinks(tx[a].sites, tx[a].stations)
  PROVE  /\ wanted \subseteq tx[a].locked \X Sites
         /\ \A s \in tx[a].locked : LinksOf(s, wanted) = Pick(tx[a].sites, Record(a, s))
         /\ \A l, m \in wanted : (l[1] = m[1] \/ l[2] = m[2]) => l = m
<1> DEFINE X == tx[a].sites
           L == tx[a].locked
<1>1. tx[a] \in Transactions /\ Shape(a) /\ Held(a) /\ Committed /\ tx[a].pc \in Locking
  BY DEF LinksInv, Locking, Decided
<1>2. X \subseteq SiteRecords /\ IsFiniteSet(X) /\ \A x, y \in X : x.id = y.id => x = y
  BY <1>1 DEF Transactions, Shape
<1>3. \A x \in X : x.id \in Sites
  BY <1>2 DEF SiteRecords
<1>4. wanted = UNION {Pick(X, Record(a, s)) : s \in L}
  <2>1. CASE X = {}
    <3>1. tx[a].stations = {}
      BY <1>1, <2>1 DEF Held
    <3>2. wanted = UNION {Pick(X, q) : q \in {}}
      BY <3>1, DecidedByPick
    <3>3. \A s : Pick(X, Record(a, s)) = {}
      BY <2>1, NoSites
    <3>4. QED
      BY <3>2, <3>3
  <2>2. CASE X # {}
    <3>1. tx[a].stations = {Record(a, s) : s \in L}
      BY <1>1, <2>2 DEF Held
    <3>2. wanted = UNION {Pick(X, q) : q \in {Record(a, s) : s \in L}}
      BY <3>1, DecidedByPick
    <3>3. QED
      BY <3>2
  <2>3. QED
    BY <2>1, <2>2
<1>5. \A s : Record(a, s).id = s /\ Record(a, s).group = Seen(a, s).group
  BY DEF Record
<1>6. ASSUME NEW s \in L, NEW l \in Pick(X, Record(a, s))
      PROVE  \E x \in X : x.group = Seen(a, s).group /\ l = <<s, x.id>>
  BY <1>5, PickMember
<1> HIDE DEF X, L
<1>7. wanted \subseteq L \X Sites
  BY <1>3, <1>4, <1>6
<1>8. ASSUME NEW s \in L
      PROVE  LinksOf(s, wanted) = Pick(X, Record(a, s))
  <2>1. \A t \in L : \A l \in Pick(X, Record(a, t)) : l[1] = t
    BY <1>6
  <2>2. QED
    BY <1>4, <2>1 DEF LinksOf
<1>9. ASSUME NEW l \in wanted, NEW m \in wanted, l[1] = m[1] \/ l[2] = m[2]
      PROVE  l = m
  <2>1. PICK s \in L : l \in Pick(X, Record(a, s))
    BY <1>4
  <2>2. PICK t \in L : m \in Pick(X, Record(a, t))
    BY <1>4
  <2>3. PICK x \in X : x.group = Seen(a, s).group /\ l = <<s, x.id>>
    BY <1>6, <2>1
  <2>4. PICK y \in X : y.group = Seen(a, t).group /\ m = <<t, y.id>>
    BY <1>6, <2>2
  <2>5. s = t
    <3>1. CASE l[1] = m[1]
      BY <2>3, <2>4, <3>1
    <3>2. CASE l[2] = m[2]
      <4>1. Seen(a, s).group = Seen(a, t).group
        BY <1>2, <2>3, <2>4, <3>2
      <4>2. s \in Stations /\ t \in Stations /\ Seen(a, s) # None /\ Seen(a, t) # None
        BY <1>1, RecordTypes DEF L
      <4>3. QED
        BY <1>1, <4>1, <4>2, SeenAreUnique
    <3>3. QED
      BY <1>9, <3>1, <3>2
  <2>6. QED
    BY <1>2, <2>1, <2>2, <2>5, PickIsOne
<1>10. QED
  BY <1>7, <1>8, <1>9 DEF X, L

\* A commit makes what a transaction sees what is there, and leaves the rows and
\* the places of the stations that others have locked.
LEMMA CommitRows ==
  ASSUME Links!LinksAssumption, LinksInv, NEW a \in Links!Actors, Links!Commit(a)
  PROVE  /\ \A s \in Stations : station'[s] = Seen(a, s)
         /\ \A q \in Locations : coordinate'[q] = Links!CoordinateSeen(a, q)
         /\ \A s \in Stations \ tx[a].locked :
              station'[s] = station[s] /\ (station[s] # None => coordinate'[station[s].location] = coordinate[station[s].location])
         /\ station' \in [Stations -> Links!StationRows \cup {None}]
         /\ coordinate' \in [Locations -> Coordinates]
<1>1. tx[a] \in Transactions /\ Shape(a) /\ Held(a) /\ Committed /\ tx[a].pc = "write"
  BY DEF LinksInv, Links!Commit
<1>2. station' = IF tx[a].row = None THEN station ELSE [station EXCEPT ![tx[a].row] = tx[a].to]
  BY DEF Links!Commit
<1>3. coordinate' = IF tx[a].place = None THEN coordinate ELSE [coordinate EXCEPT ![tx[a].place] = tx[a].at]
  BY DEF Links!Commit
<1>4. tx[a].row # None => tx[a].row \in Stations /\ tx[a].row \in tx[a].locked /\ tx[a].to \in Links!StationRows
  BY <1>1 DEF Shape, Links!Written, Transactions
<1>5. tx[a].place # None => tx[a].place \in Locations /\ tx[a].at \in Coordinates
  BY <1>1 DEF Shape, Transactions
<1>6. station \in [Stations -> Links!StationRows \cup {None}] /\ coordinate \in [Locations -> Coordinates]
  BY <1>1 DEF Committed
<1>7. \A s \in Stations : station'[s] = Seen(a, s)
  BY <1>2, <1>4, <1>6 DEF Seen, Links!StationSeen, Links!LinksAssumption
<1>8. \A q \in Locations : coordinate'[q] = Links!CoordinateSeen(a, q)
  BY <1>3, <1>5, <1>6 DEF Links!CoordinateSeen, Links!LinksAssumption
<1>9. ASSUME NEW s \in Stations \ tx[a].locked
      PROVE  station'[s] = station[s] /\ (station[s] # None => coordinate'[station[s].location] = coordinate[station[s].location])
  <2>1. station'[s] = station[s]
    BY <1>2, <1>4, <1>6
  <2>2. ASSUME station[s] # None
        PROVE  coordinate'[station[s].location] = coordinate[station[s].location]
    <3>1. tx[a].place # None => station[s].location # tx[a].place
      BY <1>1, <2>2 DEF Held, Locking, Decided
    <3>2. station[s].location \in Locations
      BY <1>1, <2>2, Rows
    <3>3. QED
      BY <1>3, <1>5, <1>6, <3>1, <3>2
  <2>3. QED
    BY <2>1, <2>2
<1>10. station' \in [Stations -> Links!StationRows \cup {None}]
  BY <1>2, <1>4, <1>6
<1>11. coordinate' \in [Locations -> Coordinates]
  BY <1>3, <1>5, <1>6
<1>12. QED
  BY <1>7, <1>8, <1>9, <1>10, <1>11

\* A commit gives the stations that it has locked their links by the rule; of
\* any other it takes at most a link away.
LEMMA CommitLinks ==
  ASSUME Links!LinksAssumption, LinksInv, NEW a \in Links!Actors, Links!Commit(a)
  PROVE  /\ links' \subseteq Stations \X Sites
         /\ \A l, m \in links' : (l[1] = m[1] \/ l[2] = m[2]) => l = m
         /\ \A l \in links' : l \in links \/ l[1] \in tx[a].locked
         /\ \A s \in tx[a].locked \ met : LinksOf(s, links') = Pick(tx[a].sites, Record(a, s))
         /\ \A s : s \notin tx[a].locked \cup met' => LinksOf(s, links') = LinksOf(s, links)
         /\ met \subseteq met' /\ met' \subseteq Stations
<1>1. PICK wanted : wanted = Links!decideStationLinks(tx[a].sites, tx[a].stations)
  OBVIOUS
<1>2. PICK removed : removed = tx[a].stored \ wanted
  OBVIOUS
<1>3. PICK kept : kept = {l \in links : ~((\E d \in removed : d[1] = l[1]) /\ (\E d \in removed : d[2] = l[2]))}
  OBVIOUS
<1>4. PICK added : added = wanted \ tx[a].stored
  OBVIOUS
<1>5. /\ tx[a].pc = "write"
      /\ \A l \in added, m \in kept : l[1] # m[1] /\ l[2] # m[2]
      /\ links' = kept \cup added
  BY <1>1, <1>2, <1>3, <1>4 DEF Links!Commit
<1>6. met' = met \cup ({l[1] : l \in links \ kept} \ tx[a].locked)
                  \cup (IF a # Importer /\ (changed # {} \/ tx[Importer].pc # "idle") THEN Links!Comers({a}) ELSE {})
  BY <1>1, <1>2, <1>3 DEF Links!Commit
<1>7. tx[a] \in Transactions /\ Shape(a) /\ Stored(a) /\ Committed
  BY DEF LinksInv
<1>8. /\ wanted \subseteq tx[a].locked \X Sites
      /\ \A s \in tx[a].locked : LinksOf(s, wanted) = Pick(tx[a].sites, Record(a, s))
      /\ \A l, m \in wanted : (l[1] = m[1] \/ l[2] = m[2]) => l = m
  BY <1>1, <1>5, Wanted
<1>9. tx[a].locked \subseteq Stations /\ tx[a].stored \subseteq Stations \X Sites
  BY <1>7 DEF Transactions
<1>10. links \subseteq Stations \X Sites /\ \A l, m \in links : (l[1] = m[1] \/ l[2] = m[2]) => l = m
  BY <1>7 DEF Committed
<1>11. links' \subseteq Stations \X Sites
  BY <1>3, <1>4, <1>5, <1>8, <1>9, <1>10
<1>12. \A l, m \in links' : (l[1] = m[1] \/ l[2] = m[2]) => l = m
  BY <1>3, <1>4, <1>5, <1>8, <1>10
<1>13. \A l \in links' : l \in links \/ l[1] \in tx[a].locked
  BY <1>3, <1>4, <1>5, <1>8
<1>14. ASSUME NEW s \in tx[a].locked \ met
       PROVE  LinksOf(s, links') = Pick(tx[a].sites, Record(a, s))
  <2>1. LinksOf(s, tx[a].stored) = LinksOf(s, links)
    BY <1>5, <1>7 DEF Stored
  <2>2. \A l : l[1] = s => (l \in tx[a].stored <=> l \in links)
    BY <2>1 DEF LinksOf
  <2>3. \A l \in wanted : l[1] = s => l \in links'
    <3>1. ASSUME NEW l \in wanted, l[1] = s, l \in tx[a].stored
          PROVE  l \in kept
      <4>1. l \in links
        BY <2>2, <3>1
      <4>2. \A d \in removed : d[1] # s
        <5>1. ASSUME NEW d \in removed, d[1] = s PROVE FALSE
          <6>1. d \in links /\ d \notin wanted
            BY <1>2, <2>2, <5>1
          <6>2. d = l
            BY <1>10, <3>1, <4>1, <5>1, <6>1
          <6>3. QED
            BY <3>1, <6>1, <6>2
        <5>2. QED
          BY <5>1
      <4>3. QED
        BY <1>3, <3>1, <4>1, <4>2
    <3>2. QED
      BY <1>4, <1>5, <3>1
  <2>4. \A l \in links' : l[1] = s => l \in wanted
    <3>1. ASSUME NEW l \in kept, l[1] = s, l \notin wanted PROVE FALSE
      <4>1. l \in removed
        BY <1>2, <1>3, <2>2, <3>1
      <4>2. QED
        BY <1>3, <3>1, <4>1
    <3>2. QED
      BY <1>4, <1>5, <3>1
  <2>5. LinksOf(s, links') = LinksOf(s, wanted)
    BY <2>3, <2>4 DEF LinksOf
  <2>6. QED
    BY <1>8, <2>5
<1>15. ASSUME NEW s, s \notin tx[a].locked \cup met'
       PROVE  LinksOf(s, links') = LinksOf(s, links)
  <2>1. \A l \in links : l[1] = s => l \in kept
    BY <1>6, <1>15
  <2>2. \A l \in added : l[1] # s
    BY <1>4, <1>8, <1>15
  <2>3. QED
    BY <1>3, <1>5, <2>1, <2>2 DEF LinksOf
<1>16. met \subseteq met' /\ met' \subseteq Stations
  <2>1. a # Importer => Links!Comers({a}) \subseteq Stations
    BY <1>7 DEF Links!Comers, Links!Written, Transactions
  <2>2. {l[1] : l \in links \ kept} \subseteq Stations
    BY <1>10
  <2>3. QED
    BY <1>6, <1>7, <2>1, <2>2 DEF Committed
<1>17. QED
  BY <1>11, <1>12, <1>13, <1>14, <1>15, <1>16

\* What others have locked is to them as it was.
LEMMA CommitOfAnother ==
  ASSUME Links!LinksAssumption, LinksInv, NEW a \in Links!Actors, Links!Commit(a), NEW b \in Links!Actors, b # a,
         tx[b].pc \in Locking, NEW s \in tx[b].locked
  PROVE  /\ s \in Stations \ tx[a].locked /\ station'[s] = station[s]
         /\ Seen(b, s)' = Seen(b, s) /\ Record(b, s)' = Record(b, s) /\ Comes(b, s)' = Comes(b, s)
<1>1. tx'[b] = tx[b]
  BY DEF Links!Commit, LinksInv
<1>2. Apart(a, b) /\ Apart(b, a) /\ tx[b] \in Transactions /\ Shape(b) /\ Held(b) /\ Committed
  BY DEF LinksInv
<1>3. s \in Stations \ tx[a].locked
  BY <1>2 DEF Apart, Transactions
<1>4. station'[s] = station[s] /\ (station[s] # None => coordinate'[station[s].location] = coordinate[station[s].location])
  BY <1>3, CommitRows
<1>5. Seen(b, s)' = Seen(b, s) /\ Comes(b, s)' = Comes(b, s)
  BY <1>1, <1>4 DEF Seen, Comes, Links!StationSeen
<1>6. Seen(b, s) # None /\ Seen(b, s).location \in Locations
  BY RecordTypes DEF Links!StationRows
<1>7. coordinate'[Seen(b, s).location] = coordinate[Seen(b, s).location]
  <2>1. CASE tx[b].row # s
    BY <1>4, <1>6, <2>1 DEF Seen, Links!StationSeen
  <2>2. CASE tx[b].row = s
    <3>1. Links!Written(b)
      BY <1>3, <2>2 DEF Links!Written, Locking, Decided, Links!LinksAssumption
    <3>2. tx[a].place # Seen(b, s).location
      BY <1>2, <2>2, <3>1 DEF Apart, Seen, Links!StationSeen
    <3>3. QED
      BY <1>6, <3>2, CommitRows DEF Links!CoordinateSeen
  <2>3. QED
    BY <2>1, <2>2
<1>8. Record(b, s)' = Record(b, s)
  <2>1. Links!CoordinateSeen(b, Seen(b, s).location)' = Links!CoordinateSeen(b, Seen(b, s).location)
    BY <1>1, <1>5, <1>7 DEF Links!CoordinateSeen
  <2>2. QED
    BY <1>5, <2>1 DEF Record
<1>9. QED
  BY <1>3, <1>4, <1>5, <1>8

\* Who is at work when another commits still goes by what is there.
LEMMA CommitKeepsOthers ==
  ASSUME Links!LinksAssumption, LinksInv, NEW a \in Links!Actors, Links!Commit(a), NEW b \in Links!Actors, b # a
  PROVE  Shape(b)' /\ Held(b)' /\ Known(b)' /\ Stored(b)'
<1>1. tx'[b] = tx[b]
  BY DEF Links!Commit, LinksInv
<1>2. Apart(a, b) /\ Apart(b, a) /\ tx[b] \in Transactions /\ Shape(b) /\ Held(b) /\ Known(b) /\ Stored(b) /\ Committed
  BY DEF LinksInv
<1>3. Links!Written(b)' = Links!Written(b)
  BY <1>1 DEF Links!Written
<1>4. tx[a] \in Transactions /\ Shape(a) /\ Held(a) /\ tx[a].pc = "write"
  BY DEF LinksInv, Links!Commit
<1>5. ASSUME NEW s \in Stations, station'[s] # station[s]
      PROVE  Links!Written(a) /\ s = tx[a].row /\ station'[s] = tx[a].to
  <2>1. station'[s] = Seen(a, s)
    BY CommitRows
  <2>2. s = tx[a].row
    BY <1>5, <2>1 DEF Seen, Links!StationSeen
  <2>3. QED
    BY <1>4, <2>1, <2>2 DEF Seen, Links!StationSeen, Links!Written, Links!LinksAssumption
<1>6. Shape(b)'
  BY <1>1, <1>2, <1>3 DEF Shape, Links!StationRows
<1>7. Held(b)'
  <2>1. tx[b].pc \in Locking => tx[b].locked \subseteq Links!InGroups(b, tx[b].groups)'
    <3>1. ASSUME tx[b].pc \in Locking, NEW s \in tx[b].locked
          PROVE  s \in Links!InGroups(b, tx[b].groups)'
      <4>1. s \in Stations /\ Seen(b, s)' = Seen(b, s)
        BY <3>1, CommitOfAnother
      <4>2. Seen(b, s) # None /\ Seen(b, s).group \in tx[b].groups
        BY <1>2, <3>1 DEF Held, Links!InGroups, Seen
      <4>3. QED
        BY <1>1, <4>1, <4>2 DEF Links!InGroups, Seen
    <3>2. QED
      BY <3>1
  <2>2. tx[b].place # None /\ tx[b].pc \in Locking =>
          \A s \in Stations : station'[s] # None /\ station'[s].location = tx[b].place => s \in tx[b].locked
    <3>1. Links!Written(a) => tx[b].place # tx[a].to.location
      BY <1>2 DEF Apart
    <3>2. QED
      BY <1>2, <1>5, <3>1 DEF Held
  <2>3. Links!Written(b) =>
          \A s \in Stations \ {tx[b].row} : station'[s] # None => station'[s].group # tx[b].to.group
    <3>1. Links!Written(a) /\ Links!Written(b) => tx[a].to.group # tx[b].to.group
      BY <1>2 DEF Apart
    <3>2. QED
      BY <1>2, <1>5, <3>1 DEF Held
  <2>4. tx[b].pc \in {"stored", "write"} => \A s \in tx[b].locked : Record(b, s)' = Record(b, s)
    BY CommitOfAnother DEF Locking, Decided
  <2>5. tx[b].pc \in {"stored", "write"} =>
          tx[b].stations = IF tx[b].sites = {} THEN {} ELSE {Record(b, s)' : s \in tx[b].locked}
    BY <1>2, <2>4 DEF Held
  <2>6. QED
    BY <1>1, <1>3, <2>1, <2>2, <2>3, <2>5 DEF Held
<1>8. Stored(b)'
  <2>1. ASSUME tx[b].pc = "write", NEW s \in tx[b].locked \ met'
        PROVE  LinksOf(s, tx[b].stored) = LinksOf(s, links')
    <3>1. s \notin tx[a].locked
      BY <1>2, <2>1 DEF Apart
    <3>2. LinksOf(s, links') = LinksOf(s, links) /\ s \notin met
      BY <2>1, <3>1, CommitLinks
    <3>3. QED
      BY <1>2, <2>1, <3>2 DEF Stored
  <2>2. QED
    BY <1>1, <2>1 DEF Stored, LinksOf
<1>9. Known(b)'
  <2>0. UNCHANGED site /\ met \subseteq met'
    BY CommitLinks DEF Links!Commit
  <2>1. \A G : Links!LinkableSites(G)' = Links!LinkableSites(G)
    BY <2>0 DEF Links!LinkableSites
  <2>2. CASE b = Importer
    <3>1. a \in Editors /\ a # Importer
      BY <2>2 DEF Links!Actors
    <3>2. ASSUME tx[b].pc \in Decided, NEW s \in Stations, station'[s] # None, station'[s].group \in tx[b].groups
          PROVE  s \in tx[b].locked \cup met'
      <4>1. CASE station[s] # None /\ station[s].group = station'[s].group
        BY <1>2, <2>0, <2>2, <3>2, <4>1 DEF Known
      <4>2. CASE ~(station[s] # None /\ station[s].group = station'[s].group)
        <5>1. Links!Written(a) /\ s = tx[a].row /\ station'[s] = tx[a].to
          BY <1>5, <3>2, <4>2
        <5>2. s \in Links!Comers({a})
          BY <4>2, <5>1 DEF Links!Comers
        <5>3. tx[Importer].pc # "idle"
          BY <2>2, <3>2 DEF Decided
        <5>4. QED
          BY <3>1, <5>2, <5>3 DEF Links!Commit
      <4>3. QED
        BY <4>1, <4>2
    <3>3. QED
      BY <1>1, <1>2, <2>1, <2>2, <3>2 DEF Known
  <2>3. CASE b # Importer
    <3>1. ASSUME tx[b].pc \in Deciding, NEW s \in tx[b].locked \ met'
          PROVE  \/ OfGroup(tx[b].sites, Seen(b, s).group) = Links!LinkableSites({Seen(b, s).group})
                 \/ ~Comes(b, s) /\ Seen(b, s).group \in changed' \cup missed'
      <4>1. \/ OfGroup(tx[b].sites, Seen(b, s).group) = Links!LinkableSites({Seen(b, s).group})
            \/ ~Comes(b, s) /\ Seen(b, s).group \in changed \cup missed
        BY <1>2, <2>0, <2>3, <3>1 DEF Known
      <4>2. SUFFICES ASSUME ~Comes(b, s), Seen(b, s).group \in changed \cup missed,
                            Seen(b, s).group \notin changed' \cup missed'
                     PROVE  FALSE
        BY <4>1
      <4>3. a = Importer /\ Seen(b, s).group \in tx[a].groups
        BY <4>2 DEF Links!Commit
      <4>4. s \in Stations \ tx[a].locked
        BY <3>1, CommitOfAnother DEF Deciding, Locking, Decided
      <4>5. station[s] # None /\ station[s].group = Seen(b, s).group
        <5>1. Seen(b, s) # None
          BY <3>1, RecordTypes DEF Deciding, Locking, Decided
        <5>2. QED
          BY <4>2, <5>1 DEF Comes, Seen, Links!StationSeen
      <4>6. s \in tx[a].locked \cup met
        BY <1>4, <4>3, <4>4, <4>5 DEF LinksInv, Known, Decided
      <4>7. QED
        BY <2>0, <3>1, <4>4, <4>6
    <3>2. tx[b].pc \in Deciding => \A s \in tx[b].locked : Seen(b, s)' = Seen(b, s) /\ Comes(b, s)' = Comes(b, s)
      BY CommitOfAnother DEF Deciding, Locking, Decided
    <3>3. ASSUME tx[b].pc \in Deciding, NEW s \in tx[b].locked \ met'
          PROVE  (\/ OfGroup(tx[b].sites, Seen(b, s).group) = Links!LinkableSites({Seen(b, s).group})
                  \/ ~Comes(b, s) /\ Seen(b, s).group \in changed \cup missed)'
      <4>1. PICK g : g = Seen(b, s).group
        OBVIOUS
      <4>2. Seen(b, s)' = Seen(b, s) /\ Comes(b, s)' = Comes(b, s)
        BY <3>2, <3>3
      <4>3. OfGroup(tx[b].sites, g)' = OfGroup(tx[b].sites, g) /\ Links!LinkableSites({g})' = Links!LinkableSites({g})
        BY <1>1, <2>1 DEF OfGroup
      <4>4. QED
        BY <3>1, <3>3, <4>1, <4>2, <4>3
    <3>4. QED
      BY <1>1, <2>3, <3>3 DEF Known
  <2>4. QED
    BY <2>2, <2>3
<1>10. QED
  BY <1>6, <1>7, <1>8, <1>9

LEMMA CommitStep ==
  ASSUME Links!LinksAssumption, LinksInv, NEW a \in Links!Actors, Links!Commit(a)
  PROVE  LinksInv'
<1>1. tx[a] \in Transactions /\ Shape(a) /\ Held(a) /\ Known(a) /\ Committed /\ tx[a].pc = "write"
  BY DEF LinksInv, Links!Commit
<1>2. tx[a].pc \in Locking /\ tx[a].pc \in Deciding /\ tx[a].pc \in Decided
  BY <1>1 DEF Locking, Deciding, Decided
<1>3. UNCHANGED <<site, edits, imports>> /\ tx' = [tx EXCEPT ![a] = Links!NoTx]
  BY DEF Links!Commit
<1>4. tx' \in [Links!Actors -> Transactions] /\ tx'[a] = Links!NoTx /\ \A b \in Links!Actors \ {a} : tx'[b] = tx[b]
  BY <1>3, NoTransaction DEF LinksInv
<1>5. Committed'
  <2>1. \A l \in links' : station'[l[1]] # None
    <3>1. ASSUME NEW l \in links', l[1] \in tx[a].locked
          PROVE  station'[l[1]] # None
      BY <1>2, <3>1, CommitRows, RecordTypes
    <3>2. ASSUME NEW l \in links', l[1] \notin tx[a].locked
          PROVE  station'[l[1]] # None
      <4>1. l \in links /\ l[1] \in Stations
        BY <3>2, CommitLinks
      <4>2. station'[l[1]] = station[l[1]]
        BY <3>2, <4>1, CommitRows
      <4>3. QED
        BY <1>1, <4>1, <4>2 DEF Committed
    <3>3. QED
      BY <3>1, <3>2
  <2>2. \A s, t \in Stations : s # t /\ station'[s] # None /\ station'[t] # None => station'[s].group # station'[t].group
    <3>1. ASSUME NEW s \in Stations, NEW t \in Stations, s # t, Seen(a, s) # None, Seen(a, t) # None
          PROVE  Seen(a, s).group # Seen(a, t).group
      BY <1>1, <1>2, <3>1, SeenAreUnique
    <3>2. QED
      BY <3>1, CommitRows
  <2>3. changed' \subseteq Groups /\ missed' \subseteq Groups
    BY <1>1 DEF Committed, Links!Commit
  <2>4. Links!StationRows' = Links!StationRows /\ Links!SiteRows' = Links!SiteRows
    BY DEF Links!StationRows, Links!SiteRows
  <2>5. /\ links' \subseteq Stations \X Sites /\ met' \subseteq Stations
        /\ \A l, m \in links' : (l[1] = m[1] \/ l[2] = m[2]) => l = m
    BY CommitLinks
  <2>6. station' \in [Stations -> Links!StationRows \cup {None}] /\ coordinate' \in [Locations -> Coordinates]
    BY CommitRows
  <2>7. QED
    BY <1>1, <1>3, <2>1, <2>2, <2>3, <2>4, <2>5, <2>6 DEF Committed
<1>6. ASSUME NEW b \in Links!Actors
      PROVE  Shape(b)' /\ Held(b)' /\ Known(b)' /\ Stored(b)'
  <2>1. CASE b = a
    BY <1>4, <2>1, FS_EmptySet DEF Links!NoTx, Shape, Held, Known, Stored, Links!Written, Locking, Deciding, Decided
  <2>2. CASE b # a
    BY <2>2, CommitKeepsOthers
  <2>3. QED
    BY <2>1, <2>2
<1>7. ASSUME NEW b \in Links!Actors, NEW c \in Links!Actors, b # c
      PROVE  Apart(b, c)'
  <2>1. Apart(b, c) /\ (Links!Written(b) => tx[b].to.location \in Locations)
    BY <1>7 DEF LinksInv, Shape, Links!StationRows
  <2>2. Links!NoTx.pc = "idle" /\ Links!NoTx.locked = {} /\ Links!NoTx.place = None
    BY DEF Links!NoTx
  <2>3. CASE b = a
    BY <1>4, <1>7, <2>2, <2>3 DEF Apart, Links!Written
  <2>4. CASE c = a
    BY <1>4, <1>7, <2>1, <2>2, <2>4 DEF Apart, Links!Written, Links!LinksAssumption
  <2>5. CASE b # a /\ c # a
    BY <1>4, <2>1, <2>5 DEF Apart, Links!Written
  <2>6. QED
    BY <2>3, <2>4, <2>5
<1>8. ASSUME NEW s \in (Links!Settled \ met)'
      PROVE  Settled(s)'
  <2>1. /\ s \in Stations /\ station'[s] # None /\ s \notin met' /\ s \notin met
        /\ station'[s].group \notin changed' \cup missed'
    BY CommitLinks DEF Links!Settled
  <2>2. PICK g : g = station'[s].group
    OBVIOUS
  <2>3. g \in Groups /\ station'[s].location \in Locations
    BY <2>1, <2>2, CommitRows DEF Links!StationRows
  <2>4. Record(Importer, s)' = [id |-> s, group |-> g, at |-> coordinate'[station'[s].location]]
    <3>1. Shape(Importer)'
      BY <1>6 DEF Links!Actors
    <3>2. Seen(Importer, s)' = station'[s]
      BY <2>1, <3>1 DEF Shape, Seen, Links!StationSeen, Links!LinksAssumption
    <3>3. Links!CoordinateSeen(Importer, station[s].location)' = coordinate'[station'[s].location]
      BY <2>3, <3>1 DEF Shape, Links!CoordinateSeen, Links!LinksAssumption
    <3>4. Links!CoordinateSeen(Importer, Seen(Importer, s).location)' = coordinate'[station'[s].location]
      BY <3>2, <3>3 DEF Links!CoordinateSeen
    <3>5. QED
      BY <2>2, <3>2, <3>4 DEF Record
  <2>5. Links!LinkableSites(Groups)' = Links!LinkableSites(Groups)
    BY <1>3 DEF Links!LinkableSites
  <2>6. LinksOf(s, links') = Pick(Links!LinkableSites(Groups), Record(Importer, s)')
    <3>1. CASE s \in tx[a].locked
      <4>1. LinksOf(s, links') = Pick(tx[a].sites, Record(a, s))
        BY <2>1, <3>1, CommitLinks
      <4>2. Record(a, s) = Record(Importer, s)'
        <5>1. station'[s] = Seen(a, s)
          BY <2>1, CommitRows
        <5>2. coordinate'[station'[s].location] = Links!CoordinateSeen(a, station'[s].location)
          BY <2>3, CommitRows
        <5>3. QED
          BY <2>2, <2>4, <5>1, <5>2 DEF Record
      <4>3. OfGroup(tx[a].sites, g) = OfGroup(Links!LinkableSites(Groups), g)
        <5>1. Seen(a, s).group = g /\ g \in tx[a].groups
          BY <1>2, <2>1, <2>2, <3>1, CommitRows, RecordTypes
        <5>2. OfGroup(Links!LinkableSites(Groups), g) = Links!LinkableSites({g})
          BY <1>1, <2>3, LinkableFacts DEF Committed
        <5>3. CASE a = Importer
          <6>1. tx[a].sites = Links!LinkableSites(tx[a].groups)
            BY <1>1, <1>2, <5>3 DEF Known
          <6>2. QED
            BY <1>1, <5>1, <5>2, <6>1, LinkableFacts DEF Committed
        <5>4. CASE a # Importer
          <6>1. changed' = changed /\ missed' = missed
            BY <5>4 DEF Links!Commit
          <6>2. OfGroup(tx[a].sites, g) = Links!LinkableSites({g})
            BY <1>1, <1>2, <2>1, <2>2, <3>1, <5>1, <5>4, <6>1 DEF Known
          <6>3. QED
            BY <5>2, <6>2
        <5>5. QED
          BY <5>3, <5>4
      <4>4. Record(a, s).group = g
        BY <2>4, <4>2
      <4>5. QED
        BY <4>1, <4>2, <4>3, <4>4, PickOfGroup
    <3>2. CASE s \notin tx[a].locked
      <4>1. /\ station'[s] = station[s]
            /\ coordinate'[station[s].location] = coordinate[station[s].location]
        BY <2>1, <3>2, CommitRows
      <4>2. LinksOf(s, links') = LinksOf(s, links)
        BY <2>1, <3>2, CommitLinks
      <4>3. Record(Importer, s) = Record(Importer, s)'
        <5>1. Shape(Importer)
          BY DEF LinksInv, Links!Actors
        <5>2. QED
          BY <2>1, <2>2, <2>3, <2>4, <4>1, <5>1, ImportSees DEF Record
      <4>4. g \notin changed \cup missed
        <5>1. SUFFICES ASSUME g \in changed \cup missed PROVE FALSE
          OBVIOUS
        <5>2. a = Importer /\ g \in tx[a].groups
          BY <2>1, <2>2, <5>1 DEF Links!Commit
        <5>3. s \in tx[a].locked \cup met
          BY <1>1, <1>2, <2>1, <2>2, <4>1, <5>2 DEF Known
        <5>4. QED
          BY <2>1, <3>2, <5>3
      <4>5. s \in Links!Settled \ met
        BY <2>1, <2>2, <4>1, <4>4 DEF Links!Settled
      <4>6. QED
        BY <4>2, <4>3, <4>5 DEF LinksInv, Settled
    <3>3. QED
      BY <3>1, <3>2
  <2>7. QED
    BY <2>5, <2>6 DEF Settled, LinksOf
<1>9. QED
  BY <1>4, <1>5, <1>6, <1>7, <1>8 DEF LinksInv

LEMMA LinksInductive ==
  ASSUME Links!LinksAssumption, LinksInv, [Links!Next]_(Links!vars)
  PROVE  LinksInv'
<1>1. CASE UNCHANGED Links!vars
  BY <1>1, FailRunStep
<1>2. CASE \E e \in Editors :
             \/ \E s \in Stations : Links!BeginStationEdit(e, s)
             \/ \E dest \in Links!StationRows : Links!WriteStation(e, dest)
             \/ \E l \in Locations, c \in Coordinates : Links!WriteLocation(e, l, c)
             \/ Links!FindGroups(e)
  BY <1>2, BeginStationEditStep, WriteStationStep, WriteLocationStep, FindGroupsStep
<1>3. CASE \E a \in Links!Actors : Links!Correct(a) \/ Links!Abort(a)
  BY <1>3, LockStationsStep, ReadSitesStep, ReadStationsStep, ReadStoredStep, CommitStep, AbortStep DEF Links!Correct
<1>4. CASE \E x \in Sites, dest \in Links!SiteRows : Links!ImportSite(x, dest)
  BY <1>4, ImportSiteStep
<1>5. CASE Links!BeginLinks \/ Links!FailRun \/ Links!BeginRelink
  BY <1>5, BeginCorrectionStep, FailRunStep
<1>6. QED
  BY <1>1, <1>2, <1>3, <1>4, <1>5 DEF Links!Next

\* The links of a settled station, at rest, are those of a rebuild.
LEMMA InvIsRebuilt ==
  ASSUME Links!LinksAssumption, LinksInv
  PROVE  SettledAsRebuilt
<1>1. Links!TypeOK
  <2>1. \A a \in Links!Actors : tx[a].pc \in {"idle", "begun", "find", "lock", "sites", "stations", "stored", "write"}
    BY DEF LinksInv, Transactions, Locking, Decided
  <2>2. QED
    BY <2>1 DEF LinksInv, Committed, Links!TypeOK
<1>2. ASSUME NEW s \in Links!Settled \ met
      PROVE  {l \in links : l[1] = s} = {l \in Links!Rebuilt : l[1] = s}
  <2>1. s \in Stations /\ station[s] # None /\ Settled(s) /\ Shape(Importer) /\ Committed
    BY DEF LinksInv, Links!Settled, Links!Actors
  <2>2. \A t \in Stations : Seen(Importer, t) = station[t]
    BY <2>1, ImportSees
  <2>3. s \in Links!InGroups(Importer, Groups)
    BY <2>1, <2>2, Rows DEF Links!InGroups, Seen
  <2>4. Links!LinkableStations(Importer, Groups) = {Record(Importer, t) : t \in Links!InGroups(Importer, Groups)}
    BY DEF Links!LinkableStations, Record, Seen
  <2>5. Links!Rebuilt = UNION {Pick(Links!LinkableSites(Groups), r) : r \in Links!LinkableStations(Importer, Groups)}
    BY DecidedByPick DEF Links!Rebuilt
  <2>6. \A t : \A l \in Pick(Links!LinkableSites(Groups), Record(Importer, t)) : l[1] = t
    <3>1. \A t : Record(Importer, t).id = t
      BY DEF Record
    <3>2. QED
      BY <3>1, PickMember
  <2>7. {l \in Links!Rebuilt : l[1] = s} = Pick(Links!LinkableSites(Groups), Record(Importer, s))
    BY <2>3, <2>4, <2>5, <2>6
  <2>8. QED
    BY <2>1, <2>7 DEF Settled, LinksOf
<1>3. QED
  BY <1>1, <1>2 DEF SettledAsRebuilt, Links!SettledAsRebuilt

\* The links of every settled station, but those that came into a group while an
\* import was at work or lost a link to a transaction that had not locked them,
\* are what a rebuild from nothing would find (correctStationLinks), however many
\* editors and imports overlap and whatever fails.
THEOREM LinksOfSettledStations ==
  ASSUME Links!LinksAssumption
  PROVE  Links!Spec => []SettledAsRebuilt
<1>1. QED
  BY LinksInit, LinksInductive, InvIsRebuilt, PTL DEF Links!Spec

=============================================================================
