SPECIFICATION Spec
CONSTANTS
  Threads = {sensor, client}
  Calibrators = {}
  Inputs = 2
  I2CMayFail = FALSE
  AdcMayFail = FALSE
  MaxJobs = 2
  MaxWrites = 0
PROPERTY AinSelMaintained
CHECK_DEADLOCK FALSE
