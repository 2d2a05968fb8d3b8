SPECIFICATION FairSpec
CONSTANTS
  NumTargets = 2
  MaxCommits = 2
  Changing = {1}
  MaxVersions = 2
  MaxFlakes = 1
  MaxFaults = 1
INVARIANTS
  TypeOK
  NoChangeForgotten
  RedundantDeploysBounded
PROPERTIES
  ChangesDeployed
