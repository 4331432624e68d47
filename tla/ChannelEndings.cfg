SPECIFICATION Spec
CONSTANTS
  a1 = a1
  a2 = a2
  c1 = c1
  c2 = c2
  u1 = u1
  u2 = u2
  Scheduler = scheduler
  Nobody = nobody
  Agents = {a2}
  Commands = {c1, c2}
  Users = {u1, u2}
  Order <- MCOrderEndings
  Granted = {a1, a2}
  ServerOptIn = {a1, a2}
  LocalOptIn = {a1}
  MaxTime = 0
  MaxFaults = 1
INVARIANTS
  HonestOutcome
  HumanApproved
  TwoKeys
PROPERTIES
  FourEyes
CHECK_DEADLOCK FALSE
