SPECIFICATION Spec
CONSTANTS
  FwdProducers = {"p1", "p2"}
  FwdDepth = 2
  FwdMaxCalls = 4
  CalDay = 2
  SchIds = {"s1", "s2"}
  SchAgents = {"a1", "a2"}
  SchScope <- MCSchScope
  SchJitter <- MCSchJitter
  SchHash <- MCSchHash
  SchMaxTime = 4
  SchMaxFaults = 1
  SchMaxAdmin = 2
  PreAgents = {"a1"}
  PreSilence = 1
  PreRepeat = 2
  ContFindings <- MCContFindings
  ContMaxActions = 4
  ContPids = {1, 2, 3}
  ContProtected = {3}
  ContVital = {"v"}
  ContMaxWorld = 2
  MonRoots <- MCMonRoots
  MonParent <- MCMonParent
  MonFiles <- MCMonFiles
  MonFresh = {"new", "sub", "osnew"}
  MonGuarded = {"os", "osnew"}
  MonBudget = 3
  MonSweepMax = 1
  MonWindow = 1
  MonDebounce = 2
  MonMaxWorld = 3
  CtlEntries = {"e1", "e2"}
  CtlAccount <- MCCtlAccount
  CtlSites <- MCCtlSites
  CtlConcurrency = 2
  CtlSweeps = 2
  ScanWorkers = {"w1", "w2"}
  ScanTree <- MCScanTree
  ScanHolds <- MCScanHolds
  ScanChannel = 1
  ScanBatch = 2
  ScanMaxFaults = 1
INVARIANTS
  ProgressTypeOK
  
  HostsKept
  ScanSafe
PROPERTIES
  FwdPromises
  SchPromises
  PreUncleanTruth
  ConsoleGetsThere
  HostWorkEnds
CHECK_DEADLOCK FALSE
