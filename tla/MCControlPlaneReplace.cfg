\* Every engine event, in any order, against the publication of actions one at a
\* time and one ReplaceCredentials request.
CONSTANTS
  Networks = {wifi, cable}
  NoNetwork = NoNetwork
  MaxGeneration = 4
  MaxFailures = 3
SPECIFICATION ControlSpec
PROPERTY ReplacementHonoursPreference
