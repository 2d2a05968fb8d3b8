SPECIFICATION Spec
CONSTANTS
  c1 = c1
  Head = {"try"}
  TrustDomain = {"gecko"}
  HeadDomain <- TryDomain
  HeadLevel <- TryLevel
  Content = {c1}
  Blank = {}
  NoFile = NoFile
  Unusable = Unusable
  Pending = Pending
  Action <- Level1Action
  PRDomain = {"gecko"}
  Retention = 1
  MaxPushes = 2
  MaxFaults = 0
PROPERTIES
  AllRecentHooksKept
