SPECIFICATION DriversSpec
CONSTANTS
  RingSize = 4
  Events = 4
  Polls = 2
  Sticks = {"a", "b"}
  HubPorts = 1
  Slots = 2
  Entries = 2
  Attaches = 2
  Disks = {"a", "b"}
  Mice = {"m"}
  Generations = 3
  Ports = {1, 2}
  Natives = 2
  Ratio = 2
  Depth = 2
  IndexWidth = 3
  Base = 2
  Top = 7
  Limit = 8
  Sizes = {1, 2}
  Table = 3
  Lengths = {1, 3}
  Ranges = 4
  Devices = {"x", "y"}
INVARIANTS NoStaleAnswer RingsAgree GenerationNames ReadyInSync AckedByMounted
  SchedulesSound AnswersOwn BarsDisjoint
PROPERTIES CallsReturn NeighboursKept
CHECK_DEADLOCK FALSE
