SPECIFICATION Spec
CONSTANTS
  None = None
  Partitions = {p1, p2}
  Messages = 2
  Window = 4
  Period = 2
  Threshold = 3
  Faults <- Benign
INVARIANTS
  TypeOK
  JudgedStuckOnlyIfWaiting
PROPERTIES
  HandlersGetTheirTime
