------------------------------ MODULE MCMenuApp ------------------------------
EXTENDS MenuApp, TLC
=============================================================================
