SPECIFICATION FairSpec
CONSTANTS
  NoBus = NoBus
  NoQuery = NoQuery
  Buses = {b1, b2}
  Queries = {q1}
  Handlers = {h1, h2}
  MaxVersion = 2
  Faults = {"db", "redis", "crash"}
INVARIANTS
  CacheInv
PROPERTIES
  BusStaysCovered
  PageStaysCovered
  BusEventuallyFresh
  PageEventuallyFresh
CHECK_DEADLOCK FALSE
