SPECIFICATION FairSpec
CONSTANTS
  c1 = c1
  Head = {"try","stray","main"}
  TrustDomain = {"gecko","mobile"}
  HeadDomain <- TwoDomains
  HeadLevel <- ThreeLevels
  Content = {c1}
  Blank = {}
  NoFile = NoFile
  Unusable = Unusable
  Pending = Pending
  Action <- LeveledActions
  PRDomain = {"gecko"}
  Retention = 1
  MaxPushes = 1
  MaxFaults = 1
INVARIANTS
  TypeOK
  HookProvenance
PROPERTIES
  RecentHooksKept
  NoOutage
  CurrentHooksDeployed
  OutdatedHooksRetire
