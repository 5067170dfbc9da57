\* Every order of three requests or network changes and two failures.  They can start
\* at most six connections and leave two cancelled timers at a time, so neither
\* MaxGeneration nor MaxLooseTimers ever holds a step back.  How long a backoff
\* lasts makes no difference here, so the failure counter saturates at once.
CONSTANTS
  Networks = {wifi, cable}
  NoNetwork = NoNetwork
  MaxGeneration = 7
  MaxFailures = 1
  MaxInputs = 3
  MaxFaults = 2
  MaxLooseTimers = 3
SPECIFICATION FairLinuxSpec
INVARIANTS
  ServiceSound
  NothingLost
PROPERTIES
  ServiceSettles
CHECK_DEADLOCK FALSE
