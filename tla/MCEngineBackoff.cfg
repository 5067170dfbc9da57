\* Two physical networks, four generations, a failure counter that saturates
\* one past the last doubling of the delay.
CONSTANTS
  Networks = {wifi, cable}
  NoNetwork = NoNetwork
  MaxGeneration = 4
  MaxFailures = 6
SPECIFICATION Spec
PROPERTY UnrequestedExitBacksOff
