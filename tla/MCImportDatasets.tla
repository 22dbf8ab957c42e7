-------------------------- MODULE MCImportDatasets --------------------------
(* Small publishers for ImportDatasets. *)
EXTENDS ImportDatasets, TLC

CONSTANTS c1, c2, c3, s1, s2, s3, r1, r12, r3, d1, d2

Read(rows, records) == [staged |-> rows, stored |-> records]

\* Sizes that meet the guard at its edges, with 20 per cent: of 5 records, 4 rows
\* are just applied and 3 are held, and so is everything that empties a slice.
\* Rows of s1 in c1 name a permit again, so that 6 are stored as 5, or as 4 and 3
\* while a licensee in it is not mapped: a slice of 5 may come down to 3 unheld.
ReadEdges ==
  c1 :> {s1 :> Read(6, 5) @@ s2 :> Read(5, 5) @@ s3 :> Read(5, 5),
         s1 :> Read(4, 3) @@ s2 :> Read(5, 5) @@ s3 :> Read(5, 5)}
    @@ c2 :> {s1 :> Read(4, 4) @@ s2 :> Read(3, 2) @@ s3 :> Read(0, 0)}
    @@ c3 :> {s1 :> Read(3, 3) @@ s2 :> Read(3, 3) @@ s3 :> Read(5, 5)}

Only(contents, slices) ==
  [c \in contents |-> {[s \in slices |-> read[s]] : read \in ReadEdges[c]}]

\* One dataset that publishes one slice alone, or both in another file.
SplitCovers == r1 :> {s1} @@ r12 :> {s1, s2}
SplitDataset == r1 :> d1 @@ r12 :> d1
SplitLayouts == {{r1}, {r12}}
SplitReadings == Only({c1, c2, c3}, {s1, s2})

\* Two datasets of one file each.
PairCovers == r1 :> {s1} @@ r3 :> {s3}
PairDataset == r1 :> d1 @@ r3 :> d2
PairLayouts == {{r1, r3}}
PairReadings == Only({c1, c2}, {s1, s3})

\* One dataset of one file with one slice.
UnitCovers == r1 :> {s1}
UnitDataset == r1 :> d1
UnitLayouts == {{r1}}
UnitReadings == Only({c1, c2, c3}, {s1})

=============================================================================
