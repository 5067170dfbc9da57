\* Five inputs: a menu kept open over the launch, a form kept open over a retry, a second
\* wish, a quit and a quit repeated.  Three attempts: the second can meet a menu opened
\* before it and still be retried.
SPECIFICATION FairSpec
CONSTANTS
  MaximumAttempts = 3
  MaxInputs = 5
INVARIANTS
  GateSound
  DisconnectCarriedOut
  OperationIsShown
PROPERTIES
  NoUnaskedConnect
  QuitSound
CHECK_DEADLOCK FALSE
