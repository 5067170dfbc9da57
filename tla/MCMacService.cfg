\* Every order of three requests, network changes or shutdowns and two failures, exits,
\* deadlines or crashes.  They start at most six connections, so MaxGeneration holds no
\* step back.  A reconciliation of two attempts already has a first, a last and a retry.
CONSTANTS
  Networks = {wifi}
  NoNetwork = NoNetwork
  MaxGeneration = 7
  MaxFailures = 1
  Attempts = 2
  MaxInputs = 3
  MaxFaults = 2
  MaxLooseTimers = 3
SPECIFICATION FairMacSpec
INVARIANTS
  MacSound
PROPERTIES
  HelperIsAlone
  CleanExitJoined
  MacSettles
CHECK_DEADLOCK FALSE
