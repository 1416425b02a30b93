\* Every part around the orchestrator and the detector's loop, one at a time.
SPECIFICATION ServicesSpec
CONSTANTS
  catalogue = catalogue
  db = db
  Kinds = {"bad_deploy_latency", "service_crash", "db_pool_saturation", "dependency_timeout", "config_error", "memory_exhaustion", "resource_exhaustion"}
  Containers = {catalogue, db}
  Services = {catalogue}
  Catalogue = catalogue
  Dependency <- MCDependency
  Null = Null
  Orphan = Orphan
  Overlap = FALSE
  MaxTime = 1
  MaxScenarios = 2
  MaxMishaps <- MCMishaps
  Deployed = {web}
  Unknown = Unknown
  Deployers = {d1, d2}
  Computed = Computed
  Odd = Odd
  MaxDeploys = 2
  MaxDeployFaults = 1
  Instances = {web}
  TestbedTarget = TestbedTarget
  Malformed = Malformed
  Undecodable = Undecodable
  Foreign = {Malformed, Undecodable}
  BatchMax = 2
  MaxCycles = 2
  MaxPipelineCrashes = 1
  Workers = {w1, w2}
  Interval = 2
  Refresh = 3
  EmptyRetry = 1
  MaxClock = 4
  MaxGrants = 4
  Buyers = {b1, b2}
  MaxDocuments = 1
  MaxOrders = 4
  MaxResets = 2
  MaxOrdersFaults = 1
  web = web
  runner = runner
  store = store
  SiteServices = {web, runner, store}
  Entry = web
  Downstream <- MCDownstream
  Slots <- MCSlots
  MaxCalls = 5
  MaxSiteFaults = 1
  dep1 = dep1
  dep2 = dep2
  None = None
  Deploys = {dep1, dep2}
  DeployAt <- TwoDeploys
  Warmup = 2
  Required = 2
  InWindow = 3
  Window = 3
  MaxFrozen = 2
  MaxSamples = 7
  Gaps = {1, 2}
  r1 = r1
  r2 = r2
  Requests = {r1}
  Callees <- MCCallees
  Alphabet <- MCAlphabet
  MaxHops = 2
  Weight <- MCWeight
  DeployScore <- MCDeployScore
  CoWindow = 2
  TopK = 2
  MaxHypotheses = 2
  MaxCandidates = 4
  MinCandidates = 2
  RollbackMinScore = 50
  Garbled = Garbled
  Modes = {"full", "llm_only", "deterministic", "no_graph"}
  TheAnomaly <- MCAnomaly
  LateAnomalies <- MCLate
  DeployRows <- MCDeploys
  Corpus <- MCCorpus
  History <- MCHistory
  Chain <- MCChain
  ServedBy <- MCServedBy
  Replies <- MCReplies
  MaxAttempts = 2
  NoModel = NoModel
  MaxRows = 1
  MaxRestarts = 1
  n2 = n2
  o1 = o1
  Anomalies = {n2}
  SilentOnes = {n2}
  o2 = o2
  OldRows = {o1, o2}
  OldDependency = {o1}
  Symptom = "catalogue"
  Broken = "catalogue-db"
  Rankings <- MCRankings
  Cap = 0
  Grace = 1
  Quiet = 1
  Retention = 0
  Absent = Absent
  MaxDay = 1
  MaxFaults = 1
  MaxExports = 3
  MaxWipes = 1
  Suite <- MCSuite
  Unasked = Unasked
  Implemented <- MCImplemented
  Garbage = Garbage
  Noise <- MCNoise
  GraceAfter = 1
  WarmupTime = 0
  Settle = 1
  QuietTail = 1
  LastInstant = 5
  MaxAlerts = 1
INVARIANTS
  DisturbanceOnRecord
  EventsAreRows
  VersionsAdvance
  WrittenBelowOffset
  OfferedLoadIsFlat
  CountersDescribeTheRun
  FailureReachesTheEntry
  RegressionFires
  OnsetIsHonest
  FaultIsNotTheNewNormal
  HypothesesAreSound
  ScoredModesAnswer
  CacheHitsAreFaithful
  ReaderIsUpToDate
  QuietTimeIsCountedOnce
PROPERTIES
  PruneKeepsNewest
  TestbedHeals
  SamplesReachTable
  DatasetKeepsWhatItKnows
CHECK_DEADLOCK FALSE
