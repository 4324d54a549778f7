SPECIFICATION Spec
CONSTANTS
  MOUNT_COUNT = 3
  Devices = {disk1, disk2, disk3}
  Usb = {}
  BootDevice = disk1
  Slots = {}
  Names <- OtherDisks
  Paths <- TreePaths
  MAX_GENERATION = 0
SYMMETRY Alike
CONSTRAINT TwoOrNested
PROPERTIES NamespaceRefined WorkingKept
