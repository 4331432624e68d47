SPECIFICATION FairSpec
CONSTANTS
  a1 = a1
  a2 = a2
  g1 = g1
  g2 = g2
  g3 = g3
  NumHooks = 1
  Findings = {g2, g3}
  ArtefactOf <- MCArtefactOf2
  Scope <- MCScope
  Floor <- MCFloor
  Reported = {"high"}
  Limit = 1
  MaxSightings = 3
  MaxFaults = 0
PROPERTIES
  Ticketed
CHECK_DEADLOCK FALSE
