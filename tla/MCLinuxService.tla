--------------------------- MODULE MCLinuxService ---------------------------
(* The Linux service with a few inputs and failures for TLC. *)
EXTENDS LinuxService, TLC

=============================================================================
