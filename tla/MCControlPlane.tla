--------------------------- MODULE MCControlPlane ---------------------------
(* ControlPlane with one network and a few generations for TLC. *)
EXTENDS ControlPlane, TLC

=============================================================================
