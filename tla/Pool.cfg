\* Every operation of the pool: growing, shrinking, pausing, two calls of
\* shutdown().
SPECIFICATION FairSpec
CONSTANTS
  t1 = t1
  t2 = t2
  s1 = s1
  s2 = s2
  w1 = w1
  p1 = p1
  r1 = r1
  stopper = stopper
  NoTask = NoTask
  Stopper <- stopper
  Task <- TwoTasks
  Submitter <- TwoSubmitters
  Waiter <- OneWaiter
  Pauser <- OnePauser
  Resizer <- OneResizer
  InitialThreads = 2
  MaxWorkers = 3
  ResizeTo <- OneToThree
  MaxShutdowns = 2
INVARIANTS TypeOK TaskOwnership CompletionNotLost ShutdownDrains
PROPERTIES WaitMeansDone ImplementsTaskPool NoWakeupLost EveryTaskFinishes WaitReturns ShutdownReturns
CHECK_DEADLOCK FALSE
