\* Three lines or prompts: a prompt with output of both pipes around it, two prompts in a
\* row, and one more than the limit of macOS.
SPECIFICATION FairSpec
CONSTANTS
  MaxSaid = 3
  MaxPrompts = 2
INVARIANTS
  AnswersSound
  TreeIsGone
PROPERTIES
  SessionGoesOn
CHECK_DEADLOCK FALSE
