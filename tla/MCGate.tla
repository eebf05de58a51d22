-------------------------------- MODULE MCGate -------------------------------
(* Instance of Gate for TLC. *)
EXTENDS Gate, TLC
CONSTANTS u1, u2, g1, g2

Symmetry == Permutations({u1, u2}) \cup Permutations({g1, g2})
=============================================================================
