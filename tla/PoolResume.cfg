\* A task queued while the pool is paused.
SPECIFICATION FairSpec
CONSTANTS
  t1 = t1
  t2 = t2
  s1 = s1
  s2 = s2
  w1 = w1
  p1 = p1
  r1 = r1
  stopper = stopper
  NoTask = NoTask
  Stopper <- stopper
  Task <- TwoTasks
  Submitter <- OneSubmitter
  Waiter <- Nobody
  Pauser <- OnePauser
  Resizer <- Nobody
  InitialThreads = 1
  MaxWorkers = 1
  ResizeTo <- NoSize
  MaxShutdowns = 0
PROPERTY ResumeRestartsWork
CHECK_DEADLOCK FALSE
