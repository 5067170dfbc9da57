-------------------------- MODULE MCWindowsService --------------------------
(* The Windows service with a few inputs and failures for TLC. *)
EXTENDS WindowsService, TLC

=============================================================================
