----------------------------- MODULE ThreadPool -----------------------------
(***************************************************************************)
(* The worker pool of src/thread-pool: a FIFO of packaged tasks, a vector  *)
(* of worker threads, one mutex and two condition variables.               *)
(*                                                                         *)
(* A critical section of queueMutex that neither waits nor locks again is  *)
(* one action.  The mutex is therefore free between two steps, with one    *)
(* exception: resize() to a smaller size calls enqueue() while it holds    *)
(* the mutex, so the caller is left at "relock" and keeps it.              *)
(* What the code does outside the mutex (the notify calls after unlock,    *)
(* the join loop of shutdown()) is a separate action.                      *)
(***************************************************************************)
EXTENDS Integers, Sequences, FiniteSets

CONSTANTS
  Task,            \* the packaged tasks, each submitted at most once
  NoTask,          \* what a worker runs when it runs nothing
  Submitter,       \* the threads that call enqueue()
  Waiter,          \* the threads that call waitForCompletion()
  Pauser,          \* the threads that call pause() and resume()
  Resizer,         \* the threads that call resize()
  Stopper,         \* the thread that calls shutdown()
  InitialThreads,  \* the constructor's argument
  MaxWorkers,      \* bound: the longest the vector of workers gets
  ResizeTo,        \* bound: the sizes asked of resize()
  MaxShutdowns     \* bound: how often shutdown() is called (the destructor's
                   \* call included)

Caller == Submitter \cup Waiter \cup Pauser \cup Resizer \cup {Stopper}
WorkerId == 1..MaxWorkers

ASSUME ThreadPoolAssumption ==
  /\ MaxWorkers \in Nat \ {0}
  /\ InitialThreads \in WorkerId
  /\ ResizeTo \subseteq 0..MaxWorkers
  /\ MaxShutdowns \in Nat
  /\ IsFiniteSet(Submitter)
  /\ NoTask \notin Task
  /\ Stopper \notin Submitter \cup Waiter \cup Pauser \cup Resizer

VARIABLES
  tasks,          \* std::queue<std::function<void()>> tasks
  stop,           \* bool stop
  paused,         \* bool paused
  activeThreads,  \* std::atomic<size_t> activeThreads
  size,           \* workers.size()
  wpc,            \* where each worker thread is in workerThread()
  running,        \* the task each worker has popped
  cpc,            \* where each calling thread is in a member function
  fate,           \* what has become of each task
  joined,         \* how many elements of workers have been joined
  joinEnd,        \* the end of workers when shutdown() began its loop
  shutdowns       \* how often shutdown() has been called

vars == <<tasks, stop, paused, activeThreads, size, wpc, running, cpc, fate,
          joined, joinEnd, shutdowns>>
shutdownVars == <<joined, joinEnd, shutdowns>>

(* A worker is about to evaluate the predicate of condition ("test") or of
   pauseCondition ("pausetest") with the mutex held, sleeps on one of them
   ("asleep", "pauseasleep"), runs a task outside the mutex, or has
   returned. *)
WorkerState ==
  {"unborn", "test", "asleep", "pausetest", "pauseasleep", "run", "exited"}

(* A caller is outside the pool ("idle"), between unlock and notify
   ("notify", "resumed", "stopped"), in waitForCompletion() ("waittest",
   "waitasleep"), in the join loop ("join"), in resize() locking the mutex it
   already holds ("relock"), or has left shutdown() by an exception
   ("threw"). *)
CallerState ==
  {"idle", "notify", "resumed", "waittest", "waitasleep", "relock",
   "stopped", "join", "threw"}

TaskState == {"new", "queued", "running", "done", "refused"}

WorkersAt(s) == {w \in WorkerId : wpc[w] = s}
CallersAt(s) == {c \in Caller : cpc[c] = s}

TypeOK ==
  /\ tasks \in Seq(Task)
  /\ stop \in BOOLEAN
  /\ paused \in BOOLEAN
  /\ activeThreads \in Nat
  /\ size \in WorkerId
  /\ wpc \in [WorkerId -> WorkerState]
  /\ running \in [WorkerId -> Task \cup {NoTask}]
  /\ cpc \in [Caller -> CallerState]
  /\ fate \in [Task -> TaskState]
  /\ joined \in 0..MaxWorkers
  /\ joinEnd \in 0..MaxWorkers
  /\ shutdowns \in 0..MaxShutdowns

Init ==
  /\ tasks = <<>>
  /\ stop = FALSE
  /\ paused = FALSE
  /\ activeThreads = 0
  /\ size = InitialThreads
  /\ wpc = [w \in WorkerId |-> IF w <= InitialThreads THEN "test" ELSE "unborn"]
  /\ running = [w \in WorkerId |-> NoTask]
  /\ cpc = [c \in Caller |-> "idle"]
  /\ fate = [t \in Task |-> "new"]
  /\ joined = 0
  /\ joinEnd = 0
  /\ shutdowns = 0

QueueMutexFree == CallersAt("relock") = {}

-----------------------------------------------------------------------------
(* workerThread() *)

WakePredicate == stop \/ (~paused /\ tasks # <<>>)

(* condition.wait: the predicate is false. *)
WorkerSleep(w) ==
  /\ wpc[w] = "test"
  /\ QueueMutexFree
  /\ ~WakePredicate
  /\ wpc' = [wpc EXCEPT ![w] = "asleep"]
  /\ UNCHANGED <<tasks, stop, paused, activeThreads, size, running, cpc, fate,
                 shutdownVars>>

(* Mutant: a stopped worker leaves whatever the queue holds. *)
LeavesAtStop == stop
MayLeave == stop /\ tasks = <<>>

WorkerExit(w) ==
  /\ wpc[w] = "test"
  /\ QueueMutexFree
  /\ MayLeave
  /\ wpc' = [wpc EXCEPT ![w] = "exited"]
  /\ UNCHANGED <<tasks, stop, paused, activeThreads, size, running, cpc, fate,
                 shutdownVars>>

(* The predicate holds because of stop, tasks are left, and the pool is
   paused: the worker waits on pauseCondition, whose predicate is false. *)
WorkerPause(w) ==
  /\ wpc[w] = "test"
  /\ QueueMutexFree
  /\ stop
  /\ tasks # <<>>
  /\ paused
  /\ wpc' = [wpc EXCEPT ![w] = "pauseasleep"]
  /\ UNCHANGED <<tasks, stop, paused, activeThreads, size, running, cpc, fate,
                 shutdownVars>>

(* Mutants: tasks.pop() or ++activeThreads is forgotten. *)
Unpopped == tasks
Popped == Tail(tasks)
Uncounted == activeThreads
Counted == activeThreads + 1

(* The pop and ++activeThreads are in one critical section. *)
WorkerTake(w) ==
  /\ wpc[w] = "test"
  /\ QueueMutexFree
  /\ tasks # <<>>
  /\ ~paused
  /\ tasks' = Popped
  /\ activeThreads' = Counted
  /\ wpc' = [wpc EXCEPT ![w] = "run"]
  /\ running' = [running EXCEPT ![w] = Head(tasks)]
  /\ fate' = [fate EXCEPT ![Head(tasks)] = "running"]
  /\ UNCHANGED <<stop, paused, size, cpc, shutdownVars>>

(* Woken in pauseCondition.wait: sleep again, or `continue`. *)
WorkerPauseTest(w) ==
  /\ wpc[w] = "pausetest"
  /\ QueueMutexFree
  /\ wpc' = [wpc EXCEPT ![w] = IF paused THEN "pauseasleep" ELSE "test"]
  /\ UNCHANGED <<tasks, stop, paused, activeThreads, size, running, cpc, fate,
                 shutdownVars>>

(* pauseCondition.notify_all() reaches workers and callers. *)
WokenWorkers(pc) ==
  [v \in WorkerId |-> IF pc[v] = "pauseasleep" THEN "pausetest" ELSE pc[v]]
WokenCallers(pc) ==
  [c \in Caller |-> IF pc[c] = "waitasleep" THEN "waittest" ELSE pc[c]]

(* Mutant: the test is made before --activeThreads. *)
WasIdle == tasks = <<>> /\ activeThreads = 0
(* The worker that leaves the pool idle notifies pauseCondition. *)
LeavesIdle == tasks = <<>> /\ activeThreads - 1 = 0

(* task() has returned (a packaged_task stores what it throws in its
   future): the second critical section. *)
WorkerDone(w) ==
  /\ wpc[w] = "run"
  /\ QueueMutexFree
  /\ activeThreads' = activeThreads - 1
  /\ fate' = [fate EXCEPT ![running[w]] = "done"]
  /\ running' = [running EXCEPT ![w] = NoTask]
  /\ LET back == [wpc EXCEPT ![w] = "test"]
     IN  IF LeavesIdle
         THEN wpc' = WokenWorkers(back) /\ cpc' = WokenCallers(cpc)
         ELSE wpc' = back /\ cpc' = cpc
  /\ UNCHANGED <<tasks, stop, paused, size, shutdownVars>>

-----------------------------------------------------------------------------
(* enqueue() *)

(* Mutant: a stopped pool still takes tasks. *)
AlwaysAccepts == TRUE
Accepts == ~stop

Enqueue(c, t) ==
  /\ c \in Submitter /\ cpc[c] = "idle" /\ fate[t] = "new"
  /\ QueueMutexFree
  /\ Accepts
  /\ tasks' = Append(tasks, t)
  /\ fate' = [fate EXCEPT ![t] = "queued"]
  /\ cpc' = [cpc EXCEPT ![c] = "notify"]
  /\ UNCHANGED <<stop, paused, activeThreads, size, wpc, running, shutdownVars>>

(* "enqueue on stopped ThreadPool" is thrown to the caller. *)
EnqueueRefused(c, t) ==
  /\ c \in Submitter /\ cpc[c] = "idle" /\ fate[t] = "new"
  /\ QueueMutexFree
  /\ ~Accepts
  /\ fate' = [fate EXCEPT ![t] = "refused"]
  /\ UNCHANGED <<tasks, stop, paused, activeThreads, size, wpc, running, cpc,
                 shutdownVars>>

(* Mutant: enqueue() notifies pauseCondition instead. *)
OneWokenOnPause == {WokenWorkers(wpc)}
(* condition.notify_one(): what the workers may be afterwards. *)
OneWoken ==
  IF WorkersAt("asleep") = {}
  THEN {wpc}
  ELSE {[wpc EXCEPT ![w] = "test"] : w \in WorkersAt("asleep")}

(* The rest of enqueue(), after the mutex has been released. *)
NotifyOne(c) ==
  /\ cpc[c] = "notify"
  /\ cpc' = [cpc EXCEPT ![c] = "idle"]
  /\ wpc' \in OneWoken
  /\ UNCHANGED <<tasks, stop, paused, activeThreads, size, running, fate,
                 shutdownVars>>

-----------------------------------------------------------------------------
(* pause(), resume(), waitForCompletion() *)

Pause(c) ==
  /\ c \in Pauser /\ cpc[c] = "idle"
  /\ QueueMutexFree
  /\ paused' = TRUE
  /\ UNCHANGED <<tasks, stop, activeThreads, size, wpc, running, cpc, fate,
                 shutdownVars>>

Resume(c) ==
  /\ c \in Pauser /\ cpc[c] = "idle"
  /\ QueueMutexFree
  /\ paused' = FALSE
  /\ cpc' = [cpc EXCEPT ![c] = "resumed"]
  /\ UNCHANGED <<tasks, stop, activeThreads, size, wpc, running, fate,
                 shutdownVars>>

(* resume() notifies pauseCondition only. *)
ResumeNotify(c) ==
  /\ cpc[c] = "resumed"
  /\ wpc' = WokenWorkers(wpc)
  /\ cpc' = WokenCallers([cpc EXCEPT ![c] = "idle"])
  /\ UNCHANGED <<tasks, stop, paused, activeThreads, size, running, fate,
                 shutdownVars>>

WaitForCompletion(c) ==
  /\ c \in Waiter /\ cpc[c] = "idle"
  /\ cpc' = [cpc EXCEPT ![c] = "waittest"]
  /\ UNCHANGED <<tasks, stop, paused, activeThreads, size, wpc, running, fate,
                 shutdownVars>>

(* Mutant: a task that runs is forgotten. *)
QueueEmpty == tasks = <<>>
Completed == tasks = <<>> /\ activeThreads = 0

WaitTest(c) ==
  /\ cpc[c] = "waittest"
  /\ QueueMutexFree
  /\ cpc' = [cpc EXCEPT ![c] = IF Completed THEN "idle" ELSE "waitasleep"]
  /\ UNCHANGED <<tasks, stop, paused, activeThreads, size, wpc, running, fate,
                 shutdownVars>>

-----------------------------------------------------------------------------
(* resize() and addWorker() *)

(* emplace_back appends to workers.  A shutdown() that is iterating over the
   vector keeps its old end.  If the vector has to be reallocated its iterator
   dangles: the loop ends after the thread it is joining, if that was the last,
   or calls join() on a moved-from thread, which throws.  (The freed memory may
   also end the process; what follows the end is not modelled.) *)
ResizeGrow(c, n) ==
  /\ c \in Resizer /\ cpc[c] = "idle"
  /\ QueueMutexFree
  /\ n > size
  /\ size' = n
  /\ wpc' = [w \in WorkerId |-> IF w \in (size + 1)..n THEN "test" ELSE wpc[w]]
  /\ \/ cpc' = cpc
     \/ /\ cpc[Stopper] = "join"
        /\ cpc' = [cpc EXCEPT ![Stopper] = "threw"]
  /\ UNCHANGED <<tasks, stop, paused, activeThreads, running, fate, shutdownVars>>

(* enqueue() locks queueMutex, which resize() holds: a std::mutex is not
   recursive, and the lock of glibc's normal mutex never returns. *)
ResizeShrink(c, n) ==
  /\ c \in Resizer /\ cpc[c] = "idle"
  /\ QueueMutexFree
  /\ n < size
  /\ cpc' = [cpc EXCEPT ![c] = "relock"]
  /\ UNCHANGED <<tasks, stop, paused, activeThreads, size, wpc, running, fate,
                 shutdownVars>>

-----------------------------------------------------------------------------
(* shutdown() *)

Shutdown ==
  /\ cpc[Stopper] = "idle"
  /\ shutdowns < MaxShutdowns
  /\ QueueMutexFree
  /\ stop' = TRUE
  /\ shutdowns' = shutdowns + 1
  /\ cpc' = [cpc EXCEPT ![Stopper] = "stopped"]
  /\ UNCHANGED <<tasks, paused, activeThreads, size, wpc, running, fate, joined,
                 joinEnd>>

(* Mutant: notify_one() in the place of notify_all(). *)
LowestWoken ==
  [w \in WorkerId |-> IF wpc[w] = "asleep" /\ \A v \in WorkersAt("asleep") : w <= v
                      THEN "test" ELSE wpc[w]]
AllWoken == [w \in WorkerId |-> IF wpc[w] = "asleep" THEN "test" ELSE wpc[w]]

(* condition.notify_all(), then the loop over workers begins.  A second
   shutdown() finds workers[0] no longer joinable, and join() throws. *)
ShutdownNotify ==
  /\ cpc[Stopper] = "stopped"
  /\ wpc' = AllWoken
  /\ joinEnd' = size
  /\ cpc' = [cpc EXCEPT ![Stopper] = IF joined > 0 THEN "threw" ELSE "join"]
  /\ UNCHANGED <<tasks, stop, paused, activeThreads, size, running, fate, joined,
                 shutdowns>>

Join ==
  /\ cpc[Stopper] = "join"
  /\ joined < joinEnd
  /\ wpc[joined + 1] = "exited"
  /\ joined' = joined + 1
  /\ UNCHANGED <<tasks, stop, paused, activeThreads, size, wpc, running, cpc,
                 fate, joinEnd, shutdowns>>

ShutdownReturn ==
  /\ cpc[Stopper] = "join"
  /\ joined = joinEnd
  /\ cpc' = [cpc EXCEPT ![Stopper] = "idle"]
  /\ UNCHANGED <<tasks, stop, paused, activeThreads, size, wpc, running, fate,
                 shutdownVars>>

-----------------------------------------------------------------------------
(* The C++ standard lets a wait return without a notification. *)
SpuriousWakeup ==
  /\ \/ \E w \in WorkersAt("asleep") :
          wpc' = [wpc EXCEPT ![w] = "test"] /\ cpc' = cpc
     \/ \E w \in WorkersAt("pauseasleep") :
          wpc' = [wpc EXCEPT ![w] = "pausetest"] /\ cpc' = cpc
     \/ \E c \in CallersAt("waitasleep") :
          cpc' = [cpc EXCEPT ![c] = "waittest"] /\ wpc' = wpc
  /\ UNCHANGED <<tasks, stop, paused, activeThreads, size, running, fate,
                 shutdownVars>>

WorkerStep(w) ==
  \/ WorkerSleep(w) \/ WorkerExit(w) \/ WorkerPause(w) \/ WorkerTake(w)
  \/ WorkerPauseTest(w) \/ WorkerDone(w)

(* What a thread goes on to do once it has called a member function. *)
CallerStep(c) == NotifyOne(c) \/ ResumeNotify(c) \/ WaitTest(c)
ShutdownStep == ShutdownNotify \/ Join \/ ShutdownReturn

Call ==
  \/ \E c \in Submitter, t \in Task : Enqueue(c, t) \/ EnqueueRefused(c, t)
  \/ \E c \in Pauser : Pause(c) \/ Resume(c)
  \/ \E c \in Waiter : WaitForCompletion(c)
  \/ \E c \in Resizer, n \in ResizeTo : ResizeGrow(c, n) \/ ResizeShrink(c, n)
  \/ Shutdown

Next ==
  \/ \E w \in WorkerId : WorkerStep(w)
  \/ \E c \in Caller : CallerStep(c)
  \/ ShutdownStep
  \/ Call
  \/ SpuriousWakeup

Spec == Init /\ [][Next]_vars

(* The scheduler runs every thread that can run.  Nobody is obliged to call
   a member function, and no wait is obliged to return spuriously. *)
Fairness ==
  /\ \A w \in WorkerId : WF_vars(WorkerStep(w))
  /\ \A c \in Caller : WF_vars(CallerStep(c))
  /\ WF_vars(ShutdownStep)

FairSpec == Spec /\ Fairness

-----------------------------------------------------------------------------
(* What the pool promises. *)

Executing == {running[w] : w \in WorkersAt("run")}
Queued == {tasks[i] : i \in 1..Len(tasks)}

(* A task is in exactly one place: a queued one once in the queue, a running
   one on one worker, any other nowhere.  Nothing enqueue() accepted is lost,
   and nothing runs twice (the pop in workerThread()). *)
TaskOwnership ==
  /\ Queued = {t \in Task : fate[t] = "queued"}
  /\ \A i, j \in 1..Len(tasks) : tasks[i] = tasks[j] => i = j
  /\ Executing = {t \in Task : fate[t] = "running"}
  /\ \A v, w \in WorkersAt("run") : running[v] = running[w] => v = w

(* No thread sleeps in waitForCompletion() although the pool is idle: the last
   worker to finish wakes it, whatever happened between its test and its
   sleep. *)
CompletionNotLost ==
  \A c \in CallersAt("waitasleep") : tasks # <<>> \/ activeThreads # 0

(* When waitForCompletion() returns, everything accepted so far is done: the
   queue and activeThreads never both hide a task between pop and run. *)
WaitMeansDone ==
  [][\A c \in Waiter : (cpc[c] = "waittest" /\ cpc'[c] = "idle")
        => \A t \in Task : fate[t] \notin {"queued", "running"}]_vars

(* When a worker sleeps on condition, every queued task has a worker about to
   test the predicate, or a notify_one() still to come. *)
NoStrandedTask ==
  WorkersAt("asleep") # {}
    => Len(tasks) <= Cardinality(WorkersAt("test")) + Cardinality(CallersAt("notify"))

(* In a pool that is never paused no wakeup is lost, although notify_one() comes
   after the unlock of enqueue() and may reach a worker that is not needed. *)
NoWakeupLost == []~paused => []NoStrandedTask

(* When shutdown() has returned, and the pool was not grown during its loop,
   every worker has returned and the queue was worked off first. *)
ShutdownReturned == shutdowns > 0 /\ cpc[Stopper] = "idle"
ShutdownDrains ==
  (ShutdownReturned /\ joinEnd = size)
    => /\ tasks = <<>>
       /\ \A w \in 1..size : wpc[w] = "exited"

(* Each step of the pool is one of TaskPool's or changes nothing it sees. *)
Pool == INSTANCE TaskPool WITH
          pending <- tasks,
          executing <- Executing,
          finished <- {t \in Task : fate[t] = "done"},
          refused <- {t \in Task : fate[t] = "refused"},
          closed <- stop
ImplementsTaskPool == Pool!Spec

(* In a pool that is never paused or shrunk, every accepted task is run to
   its end, the tasks still queued when shutdown() is called included. *)
EveryTaskFinishes ==
  []~paused /\ []QueueMutexFree => \A t \in Task : fate[t] = "queued" ~> fate[t] = "done"

(* In such a pool waitForCompletion() returns once nobody submits any more. *)
WaitReturns ==
  []~paused /\ []QueueMutexFree => \A c \in Waiter : cpc[c] = "waittest" ~> cpc[c] = "idle"

(* shutdown() comes to an end in a pool that was paused, too, once it is left
   running for good: each worker sees stop, on whichever condition it slept.
   (A resize() that reallocates workers during the join loop, or an earlier
   shutdown(), may end it by an exception.) *)
ShutdownReturns ==
  <>[]~paused /\ []QueueMutexFree
    => cpc[Stopper] = "stopped" ~> cpc[Stopper] \in {"idle", "threw"}

-----------------------------------------------------------------------------
(* What the documentation says and the code does not do. *)

(* "Supports dynamic resizing, pausing, and resuming" (README.md:69): what is
   queued when the pool is resumed for good is worked off. *)
ResumeRestartsWork == <>[](~paused) => \A t \in Task : fate[t] = "queued" ~> fate[t] = "done"

(* The same line: a call of resize() comes to its end and lets go of the
   mutex. *)
ResizeReturns == \A c \in Resizer : cpc[c] = "relock" ~> cpc[c] = "idle"
=============================================================================
