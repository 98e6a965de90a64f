-------------------------------- MODULE MCStores -------------------------------
(* Two keys of one namespace for TLC.                                      *)
EXTENDS Stores, TLC

OneNamespace == {Keys}

TTLs == {-1, 0, 1}

Symmetry == Permutations(Callers) \cup Permutations(Keys) \cup Permutations(Values)
=============================================================================
