SPECIFICATION Spec
CONSTANTS
  Paths <- MCPaths
  Mounts <- MCMounts
  Memory <- MCMemory
  ReadOnly = {}
  InitTree <- MCInitTree
  Known <- MCKnown
  Rules <- MCRules
  Dangling = {6}
  MaxId = 7
  Threads = {1, 2}
  OpenModes = {TRUE}
  GuestOps = {"lookup", "mkdir", "create", "unlink", "rmdir", "rename", "open", "release",
              "write", "getattr", "readdir"}
  MaxOps = 3
INVARIANTS
  HandlesFollowFile
  NodePathsFollow
  ListingMatchesStat
PROPERTIES
  CallsReturn
CHECK_DEADLOCK FALSE
