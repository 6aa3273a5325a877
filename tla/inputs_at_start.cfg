SPECIFICATION Spec
CONSTANTS
  Channels = {c1, c2, c3}
  QueueDepth = 5
  PoolMayFail = TRUE
  MaxWrites = 3
SYMMETRY ChannelSymmetry
INVARIANT TelemetryMatchesInputs
