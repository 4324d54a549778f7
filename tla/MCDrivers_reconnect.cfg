SPECIFICATION PortsSpec
CONSTANTS
  Sticks = {"a", "b"}
  HubPorts = 1
  Slots = 3
  Entries = 2
  Attaches = 2
INVARIANTS WritesStayOnSelected
