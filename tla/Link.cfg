\* Three calls of two attempts each; late answers, partial sends, a heartbeat.
SPECIFICATION FairSpec
CONSTANTS
  MaxRequests = 3
  RetryMax = 2
  MaxLate = 2
  MaxCuts = 2
  MaxBeats = 1
INVARIANTS
  TypeOK
  FaultlessExchange
  AnsweredReadOnce
PROPERTIES
  CallsReturn
  ImplementsExchange
\* Calls and heartbeats are bounded, and the server may close.
CHECK_DEADLOCK FALSE
