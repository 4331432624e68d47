SPECIFICATION FairSpec
CONSTANTS
  a1 = a1
  a2 = a2
  c1 = c1
  c2 = c2
  u1 = u1
  u2 = u2
  Scheduler = scheduler
  Nobody = nobody
  Agents = {a1}
  Commands = {c1, c2}
  Users = {u1}
  Order <- MCOrderDecommission
  Granted = {a1, a2}
  ServerOptIn = {a1, a2}
  LocalOptIn = {a1}
  MaxTime = 0
  MaxFaults = 1
PROPERTIES
  UninstallRetires
CHECK_DEADLOCK FALSE
