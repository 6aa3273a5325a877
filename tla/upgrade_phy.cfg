SPECIFICATION Spec
CONSTANTS
  MaxLinks = 2
  QueueDepth = 4
  AdvertDepth = 2
  PoolMayFail = FALSE
  MaxStimuli = 4
PROPERTIES UpgradePhyRestored
CHECK_DEADLOCK FALSE
