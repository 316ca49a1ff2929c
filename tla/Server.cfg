\* Two clients, handlers and the main thread on one epoll descriptor.
SPECIFICATION FairSpec
CONSTANTS
  c1 = c1
  c2 = c2
  Listener = Listener
  Client <- TwoClients
  Backlog = 4
  InitialEvents = 10
  MaxMessages = 1
  MaxFaults = 1
INVARIANTS TypeOK ActiveCounts NeverTerminated LostOnlyToOthers
PROPERTIES Accepted StopSeen
CHECK_DEADLOCK FALSE
