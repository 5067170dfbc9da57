------------------------- MODULE MCPrivilegedHelper -------------------------
(* Model values for the users, the commands and the process numbers.          *)
EXTENDS PrivilegedHelper
=============================================================================
