SPECIFICATION Spec
CONSTANTS
  DebounceTime = 1
  ShutOffTime = 4
  MaxEvents = 10
INVARIANTS TypeOK NothingForgotten LoggingComesBack
PROPERTIES OnForWholeDelay PortFollowsClient
