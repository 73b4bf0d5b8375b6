SPECIFICATION FairSpec
CONSTANTS
  None = None
  Partitions = {p1}
  Messages = 2
  Window = 2
  Period = 1
  Threshold = 3
  Faults <- AllFaults
PROPERTIES
  HungIsRestarted
  EventuallyHealthy
