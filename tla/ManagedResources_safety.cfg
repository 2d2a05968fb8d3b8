SPECIFICATION Spec
CONSTANTS
  Proposals <- ProposedConfigs
  Configs <- MainConfigs
  OtherIds <- OneOfEach
  BranchNames <- Names
  Word <- Words
INVARIANTS
  LevelsSeparated
  PullRequestsAsGranted
  EveryJobServed
  PrivilegesRevoked
  Leftovers
PROPERTIES
  OthersKept
