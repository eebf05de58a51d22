------------------------------- MODULE MCLogin -------------------------------
(* Instances of Login for TLC. *)
EXTENDS Login, TLC
CONSTANTS g1, g2, gate1, gate2, s1, s2, u1

\* Two client sockets, each on a gate of its own.
MCGateOf == (s1 :> gate1) @@ (s2 :> gate2)

\* The games are alike, and so are the two sockets, each with its gate.
SwapSocks == (s1 :> s2) @@ (s2 :> s1) @@ (gate1 :> gate2) @@ (gate2 :> gate1)
Symmetry == Permutations({g1, g2}) \cup {p @@ SwapSocks : p \in Permutations({g1, g2})}
=============================================================================
