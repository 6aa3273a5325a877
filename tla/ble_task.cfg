SPECIFICATION FairSpec
CONSTANTS
  MaxLinks = 2
  QueueDepth = 2
  AdvertDepth = 2
  PoolMayFail = TRUE
  MaxStimuli = 3
INVARIANTS TypeOK PhyRestored PumpArmed
PROPERTIES AdvertNeverGoesBack ImplementsFeed EventsFlow ActiveOnAir AppDisconnectHonoured
CHECK_DEADLOCK FALSE
