SPECIFICATION FairSpec
CONSTANTS
  c1 = c1
  Fall = 1
  Rise = 2
  SlDistance = 1
  TrailDistance = 1
  Activation = 1
  Floor = 1
  Cycles = {c1}
  Faults = {"read", "quote", "write", "close", "crash"}
PROPERTIES
  StopNeverLoosens
  StopFires
CHECK_DEADLOCK FALSE
