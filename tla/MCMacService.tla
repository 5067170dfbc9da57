---------------------------- MODULE MCMacService ----------------------------
(* The macOS service with a few inputs and failures for TLC. *)
EXTENDS MacService, TLC

=============================================================================
