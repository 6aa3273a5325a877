SPECIFICATION Spec
CONSTANTS
  MaxAlive = 1
  PairMin = 2
  PairMax = 4
  MinFactoryReset = 4
  MaxFactoryReset = 6
  QueueDepth = 2
  Scenes = {{"button", "dm"}, {"button", "tamper"}, {"magnet", "dm"}, {"magnet", "tamper"}}
  PoolMayFail = FALSE
  MaxActs = 5
INVARIANTS TypeOK LedsTruthful
PROPERTIES CommandsFollowHolds HoldAnswered
