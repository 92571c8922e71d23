SPECIFICATION FairSpec
CONSTANTS
  Trades = {t1, t2}
  Brokers = {vt}
  Oanda = {}
  FaultSets = {{"close", "mirror"}, {"db"}, {"order", "quote"}, {"crash"}}
PROPERTIES
  ImplementsTables
  TradesEndTheDay
CHECK_DEADLOCK FALSE
