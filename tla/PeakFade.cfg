SPECIFICATION FairSpec
CONSTANTS
  Trades = {t1, t2}
  Books = {oanda, vt}
  FaultSets = {{"quote", "mirror"}, {"db", "order"}, {"crash"}}
INVARIANTS
  OnePerBook
PROPERTIES
  ImplementsTables
  EndedTradesAreBooked
CHECK_DEADLOCK FALSE
