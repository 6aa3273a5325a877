SPECIFICATION Spec
CONSTANTS
  Threads = {"SensorTask", "UserInterfaceTask", "client"}
  Bits = {"magnet"}
  Inputs = {"magnet"}
  QueueDepth = 2
  PoolMayFail = FALSE
  MaxChanges = 6
INVARIANT MagnetShown
CHECK_DEADLOCK FALSE
