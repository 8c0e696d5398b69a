------------------------------ MODULE ServiceMC ------------------------------
(* Service on small instances. *)
EXTENDS Service, TLC

CONSTANTS c1, c2, j1, j2

Symmetry == Permutations({c1, c2}) \cup Permutations({j1, j2})
=============================================================================
