SPECIFICATION FairSpec
CONSTANTS
  c1 = c1
  Tests <- Session
  Projects <- GitAndHg
  HgRepo = {"hg"}
  Branch = {1, 2, 3}
  DefaultBranch = 2
  Configured <- MatchedBranches
  Content = {c1}
  NoFile = NoFile
  Unread = Unread
  NotAsked = NotAsked
  Asked = Asked
  Raised = Raised
  PageSize = 1
  Copies = 2
  MaxChanges = 1
  MaxFaults = 1
INVARIANTS
  TypeOK
  ListingComplete
  NotCutOff
PROPERTIES
  ClientLifecycle
  CachesReadOnce
  SessionEnds
CHECK_DEADLOCK FALSE
