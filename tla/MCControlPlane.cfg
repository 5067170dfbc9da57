\* Every engine event in any order, generations late or repeated, against the publication
\* of actions one at a time and one ReplaceCredentials request.  Eight generations are
\* enough for the failures to saturate, one past the last doubling of the delay.
CONSTANTS
  Networks = {wifi, cable}
  NoNetwork = NoNetwork
  MaxGeneration = 8
  MaxFailures = 6
SPECIFICATION ControlSpec
INVARIANTS
  EngineSound
  StatusSound
PROPERTIES
  ParkedOnlyByError
  ImplementsSupervisor
