SPECIFICATION FairSpec
CONSTANTS
  k1 = k1
  k2 = k2
  f1 = f1
  f2 = f2
  h1 = h1
  h2 = h2
  NoClient = noclient
  Keys = {k1, k2}
  KeyOf <- MCKeyOf3
  MaxDetections = 3
  Capacity = 2
  BatchCap = 1
  BodyCap = 2
  Flushers = {f1, f2}
  Handlers = {h1, h2}
  MaxFaults = 1
INVARIANTS
  WellFormed
  Accounted
PROPERTIES
  TriageStands
  DeliveryPromises
  Delivered
CHECK_DEADLOCK FALSE
