\* Five connections and a pool built for two.
SPECIFICATION FairSpec
CONSTANTS
  InitialThreads = 2
  MaxConnections = 5
INVARIANTS TypeOK SmallLoadNeverHangs WaitingBounded
PROPERTY QueuedServed
CHECK_DEADLOCK FALSE
