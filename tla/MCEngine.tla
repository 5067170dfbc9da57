------------------------------ MODULE MCEngine ------------------------------
(* Engine with two networks and a handful of generations for TLC. *)
EXTENDS Engine, TLC

=============================================================================
