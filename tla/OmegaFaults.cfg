SPECIFICATION Spec
CONSTANTS
  s1 = s1
  s2 = s2
  practice = practice
  phase2 = phase2
  vt = vt
  c1 = c1
  c2 = c2
  Signals <- OneSignal
  Brokers = {practice, vt}
  Practice = practice
  LaneB = {vt}
  Mt5 = {vt}
  Directions <- BothWays
  DirOf <- AllLong
  Faults = {"orderTimeout", "closeError", "dbWrite", "fetch", "crash"}
  RawMode = FALSE
  MaxInFlight = 1
  Cycles = {c1, c2}
  MaxHold = TRUE
  AsianClose = FALSE
INVARIANTS
  TrackedOnce
  AlertedOnce
PROPERTIES
  ImplementsLedger
CHECK_DEADLOCK FALSE
