\* One outage, of any length.
SPECIFICATION FairSpec
CONSTANTS
  h1 = h1
  h2 = h2
  x1 = x1
  x2 = x2
  x3 = x3
  NoHandler = NoHandler
  NoConn = NoConn
  Handler <- TwoHandlers
  Conn <- TwoConns
  PoolSize = 1
  InitialSizes <- Full1
  MaxAttempts = 3
  MaxCreateAttempts = 3
  MaxDeaths = 0
  MaxOutages = 1
  MaxRefusals = 0
  MaxSessions = 1
PROPERTY IntegrityRestored
CHECK_DEADLOCK FALSE
