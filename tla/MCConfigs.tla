------------------------------ MODULE MCConfigs -----------------------------
(* Configs for TLC.                                                         *)
EXTENDS Configs, TLC

Symmetry == Permutations(Clients) \cup Permutations(Values) \cup Permutations(Namespaces)
=============================================================================
