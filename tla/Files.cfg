\* Two devices, a library that may change, a failing read(), a lost chunk.
SPECIFICATION FairSpec
CONSTANTS
  h1 = h1
  h2 = h2
  Handler <- TwoHandlers
  Libraries <- ThreeLibraries
  AlgoSizes <- TextSizes
  Versions <- DeviceVersions
  MaxChunk = 2
  Word = 16
  MaxRequests = 2
  MaxChanges = 1
  MaxReadErrors = 1
  MaxLost = 1
INVARIANTS TypeOK WholeOrRefused AlgorithmDelivered
PROPERTY RequestsEnd
CHECK_DEADLOCK FALSE
