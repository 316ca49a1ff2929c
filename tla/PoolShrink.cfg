\* resize() to fewer workers.
SPECIFICATION FairSpec
CONSTANTS
  t1 = t1
  t2 = t2
  s1 = s1
  s2 = s2
  w1 = w1
  p1 = p1
  r1 = r1
  stopper = stopper
  NoTask = NoTask
  Stopper <- stopper
  Task <- TwoTasks
  Submitter <- OneSubmitter
  Waiter <- Nobody
  Pauser <- Nobody
  Resizer <- OneResizer
  InitialThreads = 2
  MaxWorkers = 2
  ResizeTo <- ShrinkTo1
  MaxShutdowns = 1
PROPERTY ResizeReturns
CHECK_DEADLOCK FALSE
