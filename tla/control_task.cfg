SPECIFICATION Spec
CONSTANTS
  Second = 2
  SanityCheck = 8
  BootloaderTimes = {7, 8}
  QueueDepth = 2
  PoolMayFail = TRUE
  MaxTime = 19
  MaxResets = 2
INVARIANTS TypeOK ClockTracks ConfigSurvives HeartbeatGoesOn
CHECK_DEADLOCK FALSE
