SPECIFICATION Spec
CONSTANTS
  AccUsers = {"u1", "u2"}
  AccHandlers = {"h1", "h2"}
  AccSessions = {"i1", "i2"}
  AccMaxSecrets = 2
  EnrTokens = {"t1"}
  EnrEstates = {1}
  EnrRuns = {"r1", "r2"}
  EnrHost <- MCEnrHost
  EnrSlots = {"q1", "q2"}
  EnrUses = {1, 4}
  EnrMaxAgents = 4
  EnrMaxFaults = 1
  ConAgents = {"a1", "a2", "a3", "b1"}
  ConMachine <- MCConMachine
  ConNamed = {"m1", "m2", "m3"}
  ConEstate <- MCConEstate
  ConDigests = {"d"}
  ConPaths = {"p", "u"}
  ConTree <- MCConTree
  ConMinSites = 2
  ConWindow = 1
  ConMaxTime = 1
  ConMaxFinds = 3
  ConMaxRuled = 1
  IngKeys = {"k1", "k2"}
  IngBlank = "b"
  IngBodies <- MCIngBodies
  IngHandlers = {"h1", "h2"}
  IngCap = 1
  IngBatch = 2
  IngMaxFaults = 1
  LimKeys = {"a"}
  LimQuota = 2
  LimPeriod = 2
  LimSweepEvery = 3
  LimMaxTime = 6
  GovWorkers = {"w1", "w2"}
  GovRate = 1
  GovSizes = {2, 5}
  GovGrace = 1
  GovMaxWait = 2
  GovMaxTime = 4
  UpgRuns = {"g1", "g2"}
  UpgReleases <- MCUpgReleases
  UpgInstalled <- MCUpgInstalled
  UpgOutgoing <- MCUpgOutgoing
  UpgMaxFaults = 1
  UpgMaxCrashes = 1
  YaraMaxMatches = 3
  YaraMaxHexSteps = 14
  RuleMaxProx = 3
  PhpIdent = {"x"}
  PhpMaxChains = 9
  PhpMaxValue = 1
  FileDiverge = 4
  FileWindow = 1
  FileClusterMin = 2
  FileSiblings = 6
  FileGap = 1
  FileBoot = 1
  FileBulk = 2
  FileWwMax = 2
  FileWwSample = 3
  FileHead = 1
  FileTail = 3
  ProvPlugins = {"a", "b"}
  ProvPublic = {"a"}
  ProvTree <- MCProvTree
  ProvIn <- MCProvIn
  ProvListed <- MCProvListed
  ProvIgnorable = {}
  ProvLarge = {"inc"}
  ProvAttested <- MCProvAttested
  ProvWorkers = 1
  ProvAttempts = 2
  ProvMaxFaults = 2
  ProvMaxScans = 1
  BaseTree <- MCBaseTree
  BaseWorkers = {"w1", "w2"}
  BaseChannel = 1
  BaseMaxFaults = 2
  BaseMaxRuns = 2
INVARIANT
  ConAttestedHonoured
CHECK_DEADLOCK FALSE
