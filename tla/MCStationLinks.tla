--------------------------- MODULE MCStationLinks ---------------------------
(* StationLinks for TLC: the sites are all of one source. *)
EXTENDS StationLinks, TLC

OneSource == [x \in Sites |-> "source"]

Symmetry == Permutations(Stations) \union Permutations(Groups) \union Permutations(Editors) \union Permutations(Sites)

=============================================================================
