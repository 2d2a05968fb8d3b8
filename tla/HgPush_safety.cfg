SPECIFICATION Spec
CONSTANTS
  MaxSize = 2
  MaxDrift = 0
  Attempts = 2
  MaxPushes = 2
  MaxDays = 1
  MaxExtra = 1
  MaxLag = 1
  MaxFaults = 1
INVARIANTS
  TypeOK
  DecisionsOfTheHead
  NoPushLost
CHECK_DEADLOCK FALSE
