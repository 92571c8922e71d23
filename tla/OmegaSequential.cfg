SPECIFICATION Spec
CONSTANTS
  s1 = s1
  s2 = s2
  practice = practice
  phase2 = phase2
  vt = vt
  c1 = c1
  c2 = c2
  Signals <- TwoSignals
  Brokers = {practice, phase2}
  Practice = practice
  LaneB = {phase2}
  Mt5 = {}
  Directions <- BothWays
  DirOf <- Opposite
  Faults = {}
  RawMode = FALSE
  MaxInFlight = 1
  Cycles = {c1}
  MaxHold = FALSE
  AsianClose = TRUE
INVARIANTS
  OneTradePerBroker
  BookedOnce
CHECK_DEADLOCK FALSE
