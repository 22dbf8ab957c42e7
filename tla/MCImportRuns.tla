---------------------------- MODULE MCImportRuns ----------------------------
(* ImportRuns on small instances. *)
EXTENDS ImportRuns, TLC

\* Importers are interchangeable, and so are sources.
Symmetry == Permutations(Runners \ CommandLine) \cup Permutations(Sources)
=============================================================================
