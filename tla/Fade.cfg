SPECIFICATION FairSpec
CONSTANTS
  Trades = {t1, t2}
  Brokers = {oanda, vt}
  Mt5 = {vt}
  MaxTradesDay = 2
  FaultSets = {{"close", "mirror"}, {"db", "quote"}, {"order", "broker"}, {"crash"}}
INVARIANTS
  OneOfADate
PROPERTIES
  ImplementsTables
  RecordedTradesEnd
CHECK_DEADLOCK FALSE
