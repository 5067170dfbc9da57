\* Two networks, so that one can take the other's place.  stable_samples saturates one
\* past the two that count; the delay of a cooldown reaches its cap at the fifth loss in
\* a row, the saturation of the episodes comes after it.
CONSTANTS
  Networks = {wifi, cable}
  NoNetwork = NoNetwork
  MaxSamples = 3
  MaxEpisodes = 6
SPECIFICATION TrackedSpec
PROPERTIES
  ConfirmedTwice
  CooldownKept
  NetworkFollowed
