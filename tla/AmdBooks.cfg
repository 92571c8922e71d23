SPECIFICATION MCFairSpec
CONSTANTS
  oanda = oanda
  vt = vt
  Books = {oanda, vt}
  Mt5 = {vt}
  MaxTry <- Tries
  LastSlot = 1
  EntryAt = 0
  ExitAt = 1
  GateAt = 1
  p1 = p1
  c1 = c1
  Polls = {p1}
  Cycles = {c1}
  Faults = {"refuse", "orderTimeout", "count", "snapshot", "closeError", "crash"}
PROPERTIES
  ImplementsTables
  NoSecondOrder
  EndedTradesAreBooked
  TimeGateEnds
CHECK_DEADLOCK FALSE
