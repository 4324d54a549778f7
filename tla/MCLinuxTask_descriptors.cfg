SPECIFICATION Spec
CONSTANTS
  LINUX_TASK_LIMIT = 2
  FD_COUNT = 2
  STDIO = 0
  PIPE_COUNT = 1
  PIPE_SIZE = 1
  Calls = {"close", "dup", "dup2", "setfd", "setfl", "open", "pipe", "exec"}
  Lengths = {2}
  NonblockArgs = {TRUE, FALSE}
  CloexecArgs = {TRUE}
  MAX_PID = 3
  ExitCodes = {}
INVARIANTS SharingExact
