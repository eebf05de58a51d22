------------------------------- MODULE MCPort --------------------------------
(* Instances of Port for TLC. *)
EXTENDS Port
=============================================================================
