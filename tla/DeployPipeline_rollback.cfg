SPECIFICATION Spec
CONSTANTS
  NumTargets = 1
  MaxCommits = 2
  Changing = {}
  MaxVersions = 1
  MaxFlakes = 0
  MaxFaults = 1
PROPERTIES
  RedundantDeployIsSafe
