\* Three networks over two interfaces.  Two of: the network, the user or the machine moves
\* (once at most), a wrapper is killed, a tool fails, a script hangs; two faults cut off a
\* session and then its repair.
CONSTANTS
  Networks <- MCNetworks
  MaxMoves = 1
  MaxDisturbances = 2
SPECIFICATION MCSpec
INVARIANTS
  BaselineSound
  ChangesAreRecorded
PROPERTIES
  RepairSparesOthers
  RepairFinishes
CHECK_DEADLOCK FALSE
