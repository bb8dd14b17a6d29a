SPECIFICATION Spec
CONSTANTS
  Settings <- MCSettings
  BlockUnits = 2
  PacketUnits = 1
  OpusUnits = 3
  MaxQueuedBlocks = 2
  NativeAvailable = TRUE
  MaxRooms = 2
  MaxBlocks = 4
INVARIANTS
  RoomsApart
  NumbersTellLosses
  CountersTellLosses
PROPERTIES
  StopLosesLatecomersOnly
  ConfigureEnds
