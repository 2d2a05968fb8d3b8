SPECIFICATION Spec
CONSTANTS
  NumJobs = 1
  CronYml <- EverySlot
  NoCron = NoCron
  BadCron = BadCron
  SlotLength = 2
  Deadline = 2
  RunTime = 0
  Attempts = 2
  MaxClock = 4
  MaxPushes = 1
  MaxForced = 0
  MaxLag = 1
  MaxFaults = 1
INVARIANTS
  OncePerSlot
PROPERTIES
  NoStorm
CHECK_DEADLOCK FALSE
