\* One client: its handler and the main thread wait for the same event.
SPECIFICATION FairSpec
CONSTANTS
  c1 = c1
  c2 = c2
  Listener = Listener
  Client <- OneClient
  Backlog = 4
  InitialEvents = 10
  MaxMessages = 1
  MaxFaults = 0
PROPERTY MessagesRead
CHECK_DEADLOCK FALSE
