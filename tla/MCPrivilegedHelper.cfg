\* Two users, two commands at a time; of all that can happen, any three.
CONSTANTS
  c1 = c1
  c2 = c2
  u1 = u1
  u2 = u2
  p1 = p1
  p2 = p2
  Users = {u1, u2}
  FirstUser = u1
  Cmds = {c1, c2}
  Pids = {p1, p2}
  MaxEvents = 3
SPECIFICATION Spec
INVARIANTS
  HelperSound
  EvidenceIsKept
PROPERTIES
  RecordIsRetired
CHECK_DEADLOCK FALSE
