SPECIFICATION Spec
CONSTANTS
  k1 = k1
  k2 = k2
  f1 = f1
  f2 = f2
  h1 = h1
  h2 = h2
  NoClient = noclient
  Keys = {k1, k2}
  KeyOf <- MCKeyOf
  MaxDetections = 4
  Capacity = 4
  BatchCap = 2
  BodyCap = 4
  Flushers = {f1}
  Handlers = {h1, h2}
  MaxFaults = 0
INVARIANTS
  AckMeansStored
CHECK_DEADLOCK FALSE
