--------------------------- MODULE MCPromptSession ---------------------------
EXTENDS PromptSession, TLC
=============================================================================
