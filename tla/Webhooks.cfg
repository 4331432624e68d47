SPECIFICATION FairSpec
CONSTANTS
  a1 = a1
  a2 = a2
  g1 = g1
  g2 = g2
  g3 = g3
  NumHooks = 1
  Findings = {g1, g2, g3}
  ArtefactOf <- MCArtefactOf
  Scope <- MCScope
  Floor <- MCFloor
  Reported = {"high", "info"}
  Limit = 2
  MaxSightings = 2
  MaxFaults = 2
INVARIANTS
  TypeOK
  NoTicketLoop
  DeliveredWasReceived
PROPERTIES
  TicketedOnce
  Ticketed
CHECK_DEADLOCK FALSE
