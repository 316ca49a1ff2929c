\* Two handlers share two connections, from a pool that may start short or
\* empty; deaths and an outage; what is safe and what comes to its end.
SPECIFICATION FairSpec
CONSTANTS
  h1 = h1
  h2 = h2
  x1 = x1
  x2 = x2
  x3 = x3
  NoHandler = NoHandler
  NoConn = NoConn
  Handler <- TwoHandlers
  Conn <- ThreeConns
  PoolSize = 2
  InitialSizes <- AnyUpTo2
  MaxAttempts = 3
  MaxCreateAttempts = 3
  MaxDeaths = 2
  MaxOutages = 1
  MaxRefusals = 3
  MaxSessions = 2
INVARIANTS TypeOK ExclusiveLending Accounted EnoughForAll
PROPERTIES ImplementsLendingPool GetReturns
CHECK_DEADLOCK FALSE
