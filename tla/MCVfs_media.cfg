SPECIFICATION Spec
CONSTANTS
  MOUNT_COUNT = 2
  Devices = {"disk1", "usb0"}
  Usb = {"usb0"}
  BootDevice = "disk1"
  Slots = {1}
  Names <- WholeNames
  Paths <- FlatPaths
  MAX_GENERATION = 1
INVARIANTS EngineCoherent NeverOverwritten
