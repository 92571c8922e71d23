SPECIFICATION MCFairSpec
CONSTANTS
  long = long
  short = short
  book = book
  ShortRun = 5
  Directions = {long, short}
  ArmLength = 2
  SpeedCeiling = 4
  MaxGap = 6
  SpeedFloor = 3
  MidBandMax = 6
  MaxFires = 6
  Gaps = {4, 5, 7}
  Books = {book}
  OpposingCount = 2
  ShareMinFires = 1
  MaxInFlight = 1
  FaultSets = {{}, {"closeError", "tagWrite", "crash"}, {"tagWrite", "switch"}, {"read"}, {"read", "switch"}, {"write"}}
INVARIANTS
  CracksAreEarned
  OneTradePerBook
  PressureIsExact
PROPERTIES
  PositionOutlivesRow
  ImplementsLedger
  EndedTradesAreForgotten
CHECK_DEADLOCK FALSE
