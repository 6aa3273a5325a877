SPECIFICATION Spec
CONSTANTS
  Threads = {"SensorTask", "UserInterfaceTask", "client"}
  Bits = {"din", "tamper"}
  Inputs = {"din", "tamper"}
  QueueDepth = 2
  PoolMayFail = TRUE
  MaxChanges = 5
INVARIANTS TypeOK InputShown FlagShown ShadowFollows
CHECK_DEADLOCK FALSE
