--------------------------- MODULE MicrowaveLinks ---------------------------
(***************************************************************************)
(* The microwave links of a dataset (features/official/import/links).  A   *)
(* release is the whole list of the links.  A link is known by its permit  *)
(* number and its hop, which is the licensee, the two ends, the frequency, *)
(* the polarization and the channel; a link whose hop goes on under        *)
(* another permit number is renewed and keeps its row.  The technical      *)
(* columns are in some files and not in others.                            *)
(***************************************************************************)
EXTENDS Integers, FiniteSets, Sequences

CONSTANTS
  Permits, Hops,
  Widths,            \* the channel width, which a renewal keeps
  Specs,             \* values of the technical columns
  MaxRecords,        \* records of a release
  MaxReleases,
  HoldShrinkPercent,
  None

MicrowaveAssumption == MaxRecords \in Nat /\ MaxReleases \in Nat

VARIABLES
  links,      \* the rows of microwave_links
  nextId,
  date,       \* the date of the last release
  published,  \* the release that was applied last
  described,  \* the records of the last one that had the technical columns
  changes     \* the changes that it made

vars == <<links, nextId, date, published, described, changes>>

Records == [permit : Permits, hop : Hops, width : Widths, specs : Specs]
NoChanges == [added |-> {}, renewed |-> {}, archived |-> {}]

\* The rows of the table.
TypeOK ==
  /\ \A l \in links :
       /\ l.id \in 1 .. nextId - 1
       /\ [permit |-> l.permit, hop |-> l.hop, width |-> l.width] \in [permit : Permits, hop : Hops, width : Widths]
       /\ l.specs \in Specs \union {None} /\ l.specsDate \in {None} \union 1 .. MaxReleases /\ l.updatedAt \in 1 .. MaxReleases
  /\ \A l, k \in links : l.id = k.id => l = k
  /\ nextId \in Nat /\ date \in 0 .. MaxReleases
  /\ Len(published.records) <= MaxRecords

Init ==
  /\ links = {} /\ nextId = 1 /\ date = 0
  /\ published = [records |-> <<>>, technical |-> FALSE]
  /\ described = <<>>
  /\ changes = NoChanges

-----------------------------------------------------------------------------
(* decideLinks.                                                            *)

keyOf(l) == <<l.permit, l.hop>>

\* valuesByKey keeps the last record of a key: the positions of those.
Kept(records) == {i \in DOMAIN records : \A j \in DOMAIN records : j > i => keyOf(records[j]) # keyOf(records[i])}

Unmatched(records) == {i \in Kept(records) : \A l \in links : keyOf(l) # keyOf(records[i])}

Unlisted(records) == {l \in links : \A i \in DOMAIN records : keyOf(records[i]) # keyOf(l)}

\* Mutant: several links of one hop are renewed by the first record.
RenewAny(records) ==
  {p \in Unmatched(records) \X Unlisted(records) :
     /\ records[p[1]].hop = p[2].hop
     /\ \A i \in Unmatched(records) : records[i].hop = p[2].hop => i >= p[1]
     /\ \A l \in Unlisted(records) : l.hop = p[2].hop => l.id >= p[2].id
     /\ records[p[1]].width = p[2].width}

\* The one new record and the one unlisted link of a hop, when they differ by
\* the permit number only.
matchRenewals(records) ==
  {p \in Unmatched(records) \X Unlisted(records) :
     /\ records[p[1]].hop = p[2].hop
     /\ \A i \in Unmatched(records) : records[i].hop = p[2].hop => i = p[1]
     /\ \A l \in Unlisted(records) : l.hop = p[2].hop => l = p[2]
     /\ records[p[1]].width = p[2].width}

Inserts(records) == Unmatched(records) \ {p[1] : p \in matchRenewals(records)}

archivedIds(records) == Unlisted(records) \ {p[2] : p \in matchRenewals(records)}

\* What the file does not publish is not compared.
differs(l, r, technical) == l.width # r.width \/ (technical /\ l.specs # r.specs)

-----------------------------------------------------------------------------
(* A release.                                                              *)

decideSlice(staged, live, isApproved) ==
  \/ isApproved
  \/ staged = 0 /\ live = 0
  \/ staged > 0 /\ staged * 100 >= live * (100 - HoldShrinkPercent)

\* Columns that the file does not have keep their values.
updateLink(l, r, technical, fileDate) ==
  [l EXCEPT !.permit = r.permit, !.width = r.width, !.specs = IF technical THEN r.specs ELSE @, !.updatedAt = fileDate]

insertLink(id, r, technical, fileDate) ==
  [id |-> id, permit |-> r.permit, hop |-> r.hop, width |-> r.width,
   specs |-> IF technical THEN r.specs ELSE None, specsDate |-> None, updatedAt |-> fileDate]

Listed(records, technical, fileDate) ==
  {IF differs(p[1], records[p[2]], technical) THEN updateLink(p[1], records[p[2]], technical, fileDate) ELSE p[1] :
     p \in {p \in links \X Kept(records) : keyOf(p[1]) = keyOf(records[p[2]])}}

\* applyLinks.  A file with every technical column dates those of all links.
applyLinks(records, technical, fileDate) ==
  LET idOf(i) == nextId + Cardinality({j \in Inserts(records) : j < i})
      rows == Listed(records, technical, fileDate)
                \union {updateLink(p[2], records[p[1]], technical, fileDate) : p \in matchRenewals(records)}
                \union {insertLink(idOf(i), records[i], technical, fileDate) : i \in Inserts(records)}
      \* a row that is archived is gone, whatever else was decided for it
      left == {l \in rows : l.id \notin {k.id : k \in archivedIds(records)}}
  IN /\ links' = IF technical THEN {[l EXCEPT !.specsDate = fileDate] : l \in left} ELSE left
     /\ nextId' = nextId + Cardinality(Inserts(records))
     /\ changes' = [added |-> {idOf(i) : i \in Inserts(records)},
                    renewed |-> {p[2].id : p \in matchRenewals(records)},
                    archived |-> {l.id : l \in archivedIds(records)}]

\* settleRelease.  Without a record every record has all columns.
ImportRelease(records, hasSpecs, isApproved) ==
  /\ date < MaxReleases
  /\ date' = date + 1
  /\ IF decideSlice(Len(records), Cardinality(links), isApproved)
     THEN /\ applyLinks(records, hasSpecs \/ records = <<>>, date + 1)
          /\ published' = [records |-> records, technical |-> hasSpecs]
          /\ described' = IF hasSpecs THEN records ELSE described
     ELSE UNCHANGED <<links, nextId, published, described, changes>>

Next == \E n \in 0 .. MaxRecords : \E records \in [1 .. n -> Records], hasSpecs, isApproved \in BOOLEAN :
          ImportRelease(records, hasSpecs, isApproved)

Spec == Init /\ [][Next]_vars

-----------------------------------------------------------------------------

\* hasEveryTechnicalColumn, which lets the map file of a dataset be made.
hasEveryTechnicalColumn == \A l \in links : l.specsDate # None /\ l.specsDate >= l.updatedAt

\* The links are those of the release that was applied last, with its values;
\* of two records with one key the last one counts.
LinksArePublished ==
  LET records == published.records
  IN /\ {keyOf(l) : l \in links} = {keyOf(records[i]) : i \in DOMAIN records}
     /\ Cardinality(links) = Cardinality({keyOf(l) : l \in links})
     /\ \A l \in links : \E i \in Kept(records) :
          /\ keyOf(l) = keyOf(records[i]) /\ l.width = records[i].width
          /\ published.technical => l.specs = records[i].specs

\* When hasEveryTechnicalColumn, the technical columns of every link belong to
\* its other values: one file had them all.
CompleteAsDescribed ==
  hasEveryTechnicalColumn =>
    \A l \in links : \E i \in Kept(described) :
      keyOf(l) = keyOf(described[i]) /\ l.width = described[i].width /\ l.specs = described[i].specs

\* A row that stays is the same link: its hop is the same, and when its permit
\* number changed no other link of the hop came or went with it.
RowIsTheLink ==
  [][\A l \in links, k \in links' :
       l.id = k.id =>
         /\ l.hop = k.hop
         /\ l.permit # k.permit =>
              /\ l.width = k.width
              /\ {m \in links : m.hop = l.hop /\ m.id \notin {n.id : n \in links'}} = {}
              /\ {m \in links' : m.hop = l.hop /\ m.id \notin {n.id : n \in links}} = {}]_vars

\* The changes of a release are the rows that came, that went and that go on
\* under another permit number.
ChangesTellTheRelease ==
  [][(links' # links) =>
       LET before == {l.id : l \in links}
           after == {l.id : l \in links'}
       IN changes' = [added |-> after \ before, archived |-> before \ after,
                      renewed |-> {l.id : l \in {l \in links : \E k \in links' : l.id = k.id /\ l.permit # k.permit}}]]_vars

=============================================================================
