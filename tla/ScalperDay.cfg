SPECIFICATION MCFairSpec
CONSTANTS
  t1 = t1
  t2 = t2
  Orders = {t1, t2}
  Gains <- BothGains
  MaxRatchets = 2
  Lives = 1
  FaultSets <- FaultModels
  AutoModes = {TRUE, FALSE}
  Findings = {"long", "neutral"}
  CloseSignals = {"BULLISH", "BEARISH"}
INVARIANTS
  BookedHasEnded
  OneOpenTrade
PROPERTIES
  DecidedOnce
  StoppedForGood
  NoEntryAfterLoss
  HardCloseEnds
CHECK_DEADLOCK FALSE
