\* Every setting of the attempts, and a timeout that expires while the client
\* waits, while it sleeps, or not at all.
SPECIFICATION FairSpec
CONSTANTS
  None = None
  Settings <- MCSettings
  Timeout = 3
  Pause = 1
INVARIANTS
  TypeOK
  BoundedTime
  WholeBodyApplied
  DuplicatesNeedAmbiguity
  NeverWithoutTrying
PROPERTIES
  ImplementsCall
CHECK_DEADLOCK FALSE
