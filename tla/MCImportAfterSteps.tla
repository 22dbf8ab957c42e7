------------------------- MODULE MCImportAfterSteps -------------------------
(* ImportAfterSteps with interchangeable workers. *)
EXTENDS ImportAfterSteps, TLC

Symmetry == Permutations(Workers)

=============================================================================
