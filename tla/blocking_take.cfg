SPECIFICATION FairSpec
CONSTANTS
  MaxLinks = 2
  QueueDepth = 2
  AdvertDepth = 1
  PoolMayFail = FALSE
  MaxStimuli = 3
PROPERTIES AdvertisesAgain
CHECK_DEADLOCK FALSE
