SPECIFICATION MCFairSpec
CONSTANTS
  s1 = s1
  s2 = s2
  Equities = {80, 100}
  DrawdownPct = 15
  MaxLosses = 2
  Cooldown = 2
  Slots = {s1, s2}
  Limit = 1
  MaxPerPair = 2
  MaxTrades = 2
  MaxNotices = 1
  MaxAttempts = 2
  FaultSets = {{}, {"crash"}, {"order", "rows", "overlap"}, {"roster"}, {"flip"}, {"world", "account", "crash", "dbRead"}, {"feed", "world"}}
INVARIANTS
  PairIsGuarded
  NoneUncounted
PROPERTIES
  BridgeOffIsFinal
  DrawdownStops
  RosterFollows
  FeedComesBack
  WorkingFeedStays
CHECK_DEADLOCK FALSE
