SPECIFICATION Spec
CONSTANTS
  Proposals <- NoProposals
  Configs <- WithoutRoles
  OtherIds <- Theirs
  BranchNames <- Names
  Word <- Words
PROPERTIES
  ExternalKept
