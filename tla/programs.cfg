SPECIFICATION Spec
CONSTANTS
  Sources <- MCSources
  Contents <- MCContents
  ScopeOf <- MCScopeOf
  Compare <- MCCompare
  HeldBefore <- MCHeldBefore
  ArchivedBefore = {}
  Unwritable = {}
  ArchivedSource = {"t"}
  Reserved = {"sentinel"}
  MaxRuns = 2
  MaxKills = 1
  FirstPack <- MCFirst
  PackVersions <- MCPacks
  GivenAttrs <- MCGiven
  MaxNodes = 2
  MaxEdges = 1
  MaxUpgrades = 2
  Launches = {1, 2}
  FirstBuild = 1
  MaxBuild = 2
  MaxDeaths = 2
  MaxStops = 1
  Exports <- MCExports
  BadLine = "bad"
  Likeness <- MCLikeness
  Words <- MCWords
  Recurring = {"m"}
  TopicRule = TRUE
  HeldFacts <- MCHeldFacts
  BatchOf = 2
  MaxImports = 3
  MaxBreaks = 1
  MaxOutside = 1
  DrillSpaces <- MCDrillSpaces
  MaxDrills = 2
  MaxDrillKills = 1
  PackFiles <- MCPackFiles
  Appliers = {"op1", "op2"}
  BadNames = {"Bad!", "Key!"}
  SentinelType = "engraphy_sentinel"
  ReservedKeys = {"addenda"}
  AliasTools <- MCAliasTools
  EngineTools = {"write", "search", "stats"}
  MaxEdits = 2
  WNodes = {1, 2, 3, 4}
  WBidirectional = {2}
  WGraphs <- MCGraphs
  WStates <- MCStates
  ChainCap = 2
  DepthCap = 2
  LimitCap = 4
  WLimits = {0, 9}
  WDepths = {1, 9}
  MaxRowChanges = 1
  VectorOrder <- MCVectorOrder
  LexicalOrder <- MCLexicalOrder
  CreatedAt <- MCCreatedAt
  NearPairs <- MCNearPairs
  LegCap = 4
  RankK = 2
  Scale = 60
  HitLimits = {1, 3}
  MaxChanges = 1
  ScopeLists <- MCScopeLists
  Briefings <- MCBriefings
  EntryCost <- MCEntryCost
  ContextCap = 5
  NamedCap = 1
  HookBudget = 3
  CallTimeout = 2
  MaxEvents = 4
  MaxHookKills = 1
  Shelves <- MCShelves
  ShelfEdges <- MCShelfEdges
  Layouts <- MCLayouts
  HintVector <- MCHintVector
  HintNear = {2, 3, 5}
  HintLexical <- MCHintLexical
  HintPairs <- MCHintPairs
  Born <- MCBorn
  SectionCap = 2
  ReadScopes = {"s", "t", "u"}
  WriteScopes = {"s", "t"}
  AmbientScopes = {"t"}
  HiddenType = "sentinel"
  DateParts = 2
  LastOfPart = 3
  MaxShelfChanges = 1
  ScopeOrder <- MCScopeOrder
  Windows <- MCWindows
  ArmCells <- MCArmCells
  EarlierRuns <- MCEarlierRuns
  Abstain = {"q2"}
  ReaderCalls = 1
  JudgeCalls = 2
  ReaderBreaker = 2
  JudgeBreaker = 2
  MaxCycles = 2
  MaxTransient = 1
  MaxFaults = 2
  Threads = {"r1", "r2"}
  Rpm = 1
  Rpd = 3
  Minute = 2
  Attempts = 2
  LaunchBudget = 20
  FirstDelay = 3
  LastDelay = 8
  MaxCalls = 3
  MaxTime = 4
  Arms = {"a", "b"}
  PackRows <- MCPackRows
  Commands <- MCCommands
  MaxLaunches = 2
  MaxMainKills = 1
INVARIANT TypeOK
INVARIANT ImportSafe
INVARIANT BulkRerunSafe
INVARIANT DrillHonest
INVARIANT PackSound
INVARIANT ValuesNeverRefuse
INVARIANT PackFileHonest
INVARIANT StackReady
INVARIANT WalkFaithful
INVARIANT SearchLosesNothing
INVARIANT BriefingFaithful
INVARIANT HookHonest
INVARIANT NothingTwice
INVARIANT CompleteMeansGraded
INVARIANT RunGrounded
INVARIANT ClientsKeepTerms
PROPERTY RunPausedNotBroken
