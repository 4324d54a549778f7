SPECIFICATION Spec
CONSTANTS
  MOUNT_COUNT = 2
  Devices = {"disk1", "usb0"}
  Usb = {}
  BootDevice = "disk1"
  Slots = {1}
  Names <- AllNames
  Paths <- FlatPaths
  MAX_GENERATION = 0
INVARIANTS EngineCoherent
