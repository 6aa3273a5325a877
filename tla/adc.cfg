SPECIFICATION FairSpec
CONSTANTS
  Threads = {sensor, client}
  Calibrators = {client}
  Inputs = 2
  I2CMayFail = TRUE
  AdcMayFail = TRUE
  MaxJobs = 2
  MaxWrites = 1
INVARIANTS TypeOK SampleSupplied SuppliesOff SampleOfInput ChannelSetUp
PROPERTY MeasurementEnds
CHECK_DEADLOCK FALSE
