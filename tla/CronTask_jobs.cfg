SPECIFICATION Spec
CONSTANTS
  NumJobs = 2
  CronYml <- AllFiles
  NoCron = NoCron
  BadCron = BadCron
  SlotLength = 2
  Deadline = 2
  RunTime = 1
  Attempts = 2
  MaxClock = 0
  MaxPushes = 2
  MaxForced = 1
  MaxLag = 1
  MaxFaults = 1
INVARIANTS
  JobsOfTheirRevision
  GreenMeansRun
PROPERTIES
  NoJobLeftUnrun
CHECK_DEADLOCK FALSE
