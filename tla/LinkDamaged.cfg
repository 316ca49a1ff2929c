SPECIFICATION Spec
CONSTANTS
  MaxRequests = 2
  RetryMax = 2
  MaxLate = 0
  MaxCuts = 1
  MaxBeats = 0
INVARIANTS
  HandledIntact
CHECK_DEADLOCK FALSE
