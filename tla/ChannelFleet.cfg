SPECIFICATION FairSpec
CONSTANTS
  a1 = a1
  a2 = a2
  c1 = c1
  c2 = c2
  u1 = u1
  u2 = u2
  Scheduler = scheduler
  Nobody = nobody
  Agents = {a1}
  Commands = {c1, c2}
  Users = {u1}
  Order <- MCOrderUpgrade
  Granted = {a1, a2}
  ServerOptIn = {a1, a2}
  LocalOptIn = {a1}
  MaxTime = 1
  MaxFaults = 1
INVARIANTS
  TypeOK
  AtMostOnce
PROPERTIES
  TerminalIsFinal
  NoStaleDispatch
  ImplementsLedger
  ApprovedMovesOn
CHECK_DEADLOCK FALSE
