SPECIFICATION ServicesFairSpec
CONSTANTS
  Checked = {"credentials", "bridge"}
  c1 = c1
  c2 = c2
  c3 = c3
  p1 = p1
  p2 = p2
  CredCalls = {c1, c2, c3}
  CredGateway <- GatewayOf
  Nobody = Nobody
  CredGrants = 1
  MaxRotations = 0
  MaxPasses = 2
  MaxCredFaults = 2
  Holders = {h1, h2}
  NoHolder = NoHolder
  LeaseTTL = 2
  MaxLeaseTime = 3
  Tools = {t1, t2, t3}
  RetrySafe = {t1}
  FailThreshold = 1
  Posts = {b1, b2}
  NoPost = NoPost
  ApiUsers = {u1}
  MaxApiClients = 2
  MaxCodes = 2
  MaxKeys = 4
  MaxScanned = 2
  MaxActiveKeys = 2
  SweepBatch = 1
  PairUsers = {o1, o2}
  NoUser = NoUser
  MaxAttempts = 2
  PairCodes = {k1, k2}
  MaxStray = 1
  MaxPairFaults = 1
  Viewers = {v1}
  NoViewer = NoViewer
  FlowTargets = {f1, f2}
  MaxFlows = 2
  MaxVisits = 2
  ExecCalls = {e1}
  ExecActions = {"edit", "send"}
  ActionHome <- HomeOf
  HomeExecutor <- ExecutorOf
  Baseline <- BaselineOf
  RuleDecisions = {"REQUIRE_APPROVAL", "DENY"}
  MaxRuleRows = 2
  MaxRules = 2
  MaxExecFaults = 1
  KeyGateways = {r1, r2}
  KeyJobs = {j1}
  NoKey = NoKey
  MaxKey = 2
  MaxGreetings = 3
  MaxKeyFaults = 1
  MaxCommands = 3
  MaxDevices = 2
  Ref = Ref
  NoDevice = NoDevice
  MaxLocalFaults = 1
  Agents = {g1, g2}
  SeenJobs = {s1}
  MaxFiles = 2
  MaxRemovals = 1
  Peers = {x1}
  MaxRequests = 3
  ServedRoutes = {"register", "device", "healthz"}
  Budget <- SmallBudget
  WindowLength = 2
  MaxEdgeTime = 2
  MaxEdgeFaults = 1
  ActionIds = {"a1", "a2", "a3"}
  FlatName <- NamesOf
  Exposable = {"a1", "a2"}
  Absent = "-"
  Manifests = 2
  MaxBuilds = 2
  Roots = {"root"}
  MaxBuildFaults = 1
  Things = {x1, x2}
  Nothing = Nothing
  MaxClicks = 2
  MaxElsewhere = 1
  MaxMounts = 2
PROPERTIES EveryCallAnswered
CHECK_DEADLOCK FALSE
