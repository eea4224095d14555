SPECIFICATION Spec
CONSTANTS
  Fds <- MCFds
  Roots <- MCRoots
  Paths <- MCPaths
  MaxAddrs = 2
  NameLens <- MCNameLens
  MaxNames = 2
  FirstCap = 2
  MaxDoublings = 4
INVARIANTS
  CallsGiveBack
  FilesUnderRoot
  WriteAnswersTrue
  ListingWhole
CHECK_DEADLOCK FALSE
