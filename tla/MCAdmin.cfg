SPECIFICATION AdminSpec
CONSTANTS
  Users = {"ann"}
  Paths <- MCPaths
  Rights <- MCRights
  Passwords = {"", "k"}
  AclMax = 3
  People = {"ann", "bob"}
  MaxDepth = 2
  MaxSudo = 2
  Slots = 3
  Align = 2
  Attempts = 5
  Drives = {"A", "B"}
  Capacity <- MCCapacity
  Edited = {"A"}
  RootMin = 2
  RootMax = 4
  EspSize = 2
  Sizes = {2}
  Foreign = 1
  Swaps = 1
CONSTRAINTS AccessBounds SetupBounds
INVARIANTS RightsFollowObjects LocksStay SessionsNest OnlyAccountsAct
  PipelineEnds ForeignKept PublishedIsWhole
