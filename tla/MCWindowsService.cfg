\* Every order of two requests or network changes and one failure, stop or crash.
CONSTANTS
  Networks = {wifi}
  NoNetwork = NoNetwork
  MaxGeneration = 5
  MaxFailures = 1
  MaxInputs = 2
  MaxFaults = 1
  MaxLooseTimers = 3
SPECIFICATION FairWindowsSpec
INVARIANTS
  WindowsSound
PROPERTIES
  ImplementsLinux
  ReplacementHonoursPreference
  
  StopIsReported
CHECK_DEADLOCK FALSE
