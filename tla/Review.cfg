SPECIFICATION ReviewSpec
CONSTANTS
  Pools <- MCPools
  Anchors <- MCAnchors
  Defaults <- MCDefaults
  Providers <- MCProviders
  EnvironmentArm <- NoValue
  Zones <- MCZones
  Invalid <- MCInvalid
  ImageFiles <- MCImageFiles
  DeployedImages <- MCDeployedImages
  Matches <- MCMatches
  Depth = 2
  MaxPasses = 2
  Tasks <- MCTasks
  Graphs <- MCGraphs
  Ancestors <- MCAncestors
  Expired = {"lost"}
  RootUrls = {"staging", "firefoxci"}
  Selects = {"all-pipeline"}
  Excludes = {"android-hw", "macosx"}
  IncludeDeps <- MCIncludeDeps
  MirrorPublic = {"test"}
  LevelOne <- MCLevelOne
  MaxMoves = 1
  MaxFaults = 1
INVARIANTS
  OfItsOwnDefinition
  LaunchesPlaced
  UnusedImagesFound
  GraphWhole
  FetchesServed
  TestsOfChangedPoolsKept
CHECK_DEADLOCK FALSE
