SPECIFICATION Spec
CONSTANTS
  Modules <- BuildModules
  Plugins = {"plugin"}
  Mounts = {"controller"}
  Beans = {"bean"}
  ModuleBeans <- BuildModuleBeans
  BuildCalls <- BuildRegisters
  Needs <- BuildNeeds
  Appliers = {"applier", "other"}
  RoundLimit = 2
  ModuleLimit = 2
  Instances = {"a1", "a2", "b"}
  BeanTypes = {"A", "B"}
  Interfaces = {"I"}
  TypeOf <- TypeOfBean
  Prestarted = {"b"}
  NoBean = "none"
  EntryLimit = 2
  Components = 3
  PrestartedHooks = {2}
  RetiredHooks = {}
  LifecycleCallers = {s1, s2}
  GlobalFairings <- Attached
  GlobalAuth <- AttachedAuth
  Chains <- RouteChains
  PluginRouteSet <- OverlappingRoutes
  RequestPaths <- Paths
  Versions = {1}
  OrderLimit = 3
  Probes = {q1, q2}
  CheckerCount = 2
  Unnamed = {2}
  ProbeLimit = 2
  Watches = {w1, w2}
  ChangeLimit = 3
  RuntimeLimit = 3
  Updaters = {u}
  StampLimit = 1
  Sockets = {k1, k2}
  MaxConnections = 1
  Requests = {stream, invoke}
  Streams = {stream}
  MaxConcurrent = 1
  MaxUserCalls = 2
  MaxRounds = 2
  MaxTokens = 4
  ReserveTokens = 1
  MaxCallsPerTool = 1
  BufferEvents = 1
  DeltaLimit = 2
  CallLimit = 1
  Processes = {p1, p2}
  Names = {n1, n2}
  DecimalNames = {n2}
  Database = TRUE
  CommandLimit = 2
  TroubleLimit = 2
  Nodes = {o1, o2}
  FireLimit = 2
  Limit = 1
  Window = 3
  ErrorLimit = 1
  Writers = {x1, x2}
  VersionLimit = 3
  FileLimit = 2
  Replicas = {i1, i2}
  Visitors = {visitor}
  Administrators = {admin}
  ExpiresAt = 0
  ClockLimit = 1
  GinModes = {"debug", "release"}
  EngineLimit = 3
INVARIANTS
  ComponentsIInv
  SealedMeansBuilt
  ContainerConsistent
  RequestsReachTheirHandler
  HealthIsCurrent
  AccessIsGuarded
  RunsAccounted
  ProjectIntact
  SharedStateOwned
PROPERTIES
  ApplyAllReturns
  StreamsEnd
CHECK_DEADLOCK FALSE
