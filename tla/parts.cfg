SPECIFICATION PartsSpec
CONSTANTS
  Parts = {"witness", "registry", "hooks", "serve", "merge", "backchannel", "warpad", "rounds", "drops", "publisher", "walk", "index"}
  WServers = {"a", "b"}
  WRounds = 2
  WMaxRev = 2
  WMaxRollbacks = 1
  WMaxFaults = 1
  GServers = {"a", "b"}
  GNames = {"n"}
  GPushes = {"p", "q"}
  GRounds = 2
  GMaxIds = 2
  GMaxCalls = 1
  GMaxFaults = 1
  HHooks = {1, 2}
  HEvents = 2
  HCap = 3
  HTries = 3
  HMaxStops = 1
  SConns = {"c", "d"}
  SScripts <- MCScripts
  SBufferBudget = 3
  SBodyMax = 4
  SPushCap = 3
  MinPacks = 4
  Lengths = {1, 2, 3, 5, 9}
  MaxPushes = 7
  CTabs = {"x"}
  CRingCap = 1
  CMaxMessages = 2
  CMaxFaults = 1
  PTabs = {"x", "y"}
  PMaxLines = 3
  PMaxFaults = 2
  PTogether = 3
  RSetups <- MCRounds
  RValues = {1, 2, 4}
  RSweep = 2
  RClosedLinger = 2
  RCancelLinger = 1
  RMaxClock = 6
  DIds = {"i", "j"}
  DSetups <- MCDrops
  DSizes = {1, 2}
  DSeats = {1, 2}
  DCap = 3
  DSweep = 3
  DMaxArms = 2
  DMaxClock = 7
  IMaxChain = 2
  IIndexers <- MCIndexer
  ISetups <- MCSetups
  IValues = {"a", "b"}
  IMaxChanges = 1
  IMaxFaults = 1
  IMaxCrashes = 1
  KPeers = {1, 2, 3, 4, 5}
  KBootstrap = {3, 4, 5}
  KTells <- MCTells
  KHolds <- MCHolds
  KStores = 2
  KMaxDials = 3
  BPins = {2}
  BPlain = {1}
  BWindows = 2
  BTries = 2
  BCacheTries = 2
  BMaxChanges = 1
  BMaxFaults = 2
  BMaxRestarts = 1
INVARIANTS
  PartsTypeOK AcknowledgedStays InRequestOrder
  Logarithmic ShownOnce  ResultRight BytesHeld PinsServed
PROPERTIES
  FirstLookFresh OneRegistry SavedWordsStay ReleaseStands NeverBehind StoresClosest RowsKept
CHECK_DEADLOCK FALSE
