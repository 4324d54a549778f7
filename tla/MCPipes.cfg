SPECIFICATION PipesSpec
CONSTANTS
  LINUX_TASK_LIMIT = 3
  FD_COUNT = 2
  STDIO = 0
  PIPE_COUNT = 1
  PIPE_SIZE = 2
  Calls = {"pipe", "close"}
  Lengths = {2, 3}
  NonblockArgs = {FALSE}
  CloexecArgs = {FALSE}
  MAX_PID = 4
  ExitCodes = {0}
  RING_SIZE = 3
  Writers = {"w1", "w2"}
  Readers = {"r"}
  Vectors <- MCVectors
  MAX_BYTES = 5
INVARIANTS SwitchSound UniquePids NoLostWakeup ParentAlive TransfersResumable
  CleanReturn WritesIntact
PROPERTIES FilesImplemented StreamRefined
CHECK_DEADLOCK FALSE
