SPECIFICATION CooperativeSpec
CONSTANTS
  LINUX_TASK_LIMIT = 3
  FD_COUNT = 2
  STDIO = 0
  PIPE_COUNT = 1
  PIPE_SIZE = 1
  Calls = {"pipe", "close"}
  Lengths = {2}
  NonblockArgs = {FALSE}
  CloexecArgs = {FALSE}
  MAX_PID = 4
  ExitCodes = {}
PROPERTIES ReadyRuns ScheduleReturns
