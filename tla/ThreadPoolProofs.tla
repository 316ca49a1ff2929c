-------------------------- MODULE ThreadPoolProofs --------------------------
(* Theorems about ThreadPool for any number of tasks, callers and workers. *)
EXTENDS ThreadPool, FiniteSetTheorems, TLAPS

-----------------------------------------------------------------------------
(* Typing.  activeThreads stays a natural number because it counts the
   workers that run a task. *)

ActiveCount == activeThreads = Cardinality(WorkersAt("run"))
Born == \A w \in WorkerId : wpc[w] = "unborn" <=> w > size
TypeInv == TypeOK /\ ActiveCount /\ Born

(* The sets of workers that are counted are finite. *)
LEMMA WorkersFinite ==
  \A S \in SUBSET WorkerId : IsFiniteSet(S) /\ Cardinality(S) \in Nat
<1>1. IsFiniteSet(WorkerId)
  BY ThreadPoolAssumption, FS_Interval DEF WorkerId
<1> QED  BY <1>1, FS_Subset, FS_CardinalityType

(* A step that moves one worker to "run", away from it, or neither, changes
   the number of running workers accordingly. *)
LEMMA RunCount ==
  ASSUME TypeOK, NEW w \in WorkerId
  PROVE  /\ wpc[w] = "run" => Cardinality(WorkersAt("run")) > 0
         /\ Cardinality(WorkersAt("run") \cup {w})
              = Cardinality(WorkersAt("run")) + (IF wpc[w] = "run" THEN 0 ELSE 1)
         /\ Cardinality(WorkersAt("run") \ {w})
              = Cardinality(WorkersAt("run")) - (IF wpc[w] = "run" THEN 1 ELSE 0)
<1> DEFINE R == WorkersAt("run")
<1>1. IsFiniteSet(R) /\ Cardinality(R) \in Nat
  BY WorkersFinite DEF WorkersAt
<1>2. w \in R <=> wpc[w] = "run"
  BY DEF WorkersAt
<1>3. w \in R => Cardinality(R) > 0
  BY <1>1, FS_EmptySet
<1>4. Cardinality(R \cup {w}) = IF w \in R THEN Cardinality(R) ELSE Cardinality(R) + 1
  BY <1>1, FS_AddElement
<1>5. Cardinality(R \ {w}) = IF w \in R THEN Cardinality(R) - 1 ELSE Cardinality(R)
  BY <1>1, FS_RemoveElement
<1> HIDE DEF R
<1>6. /\ wpc[w] = "run" => Cardinality(R) > 0
      /\ Cardinality(R \cup {w}) = Cardinality(R) + (IF wpc[w] = "run" THEN 0 ELSE 1)
      /\ Cardinality(R \ {w}) = Cardinality(R) - (IF wpc[w] = "run" THEN 1 ELSE 0)
  BY <1>1, <1>2, <1>3, <1>4, <1>5
<1> QED  BY <1>6 DEF R

LEMMA TypeInvInit == Init => TypeInv
<1> SUFFICES ASSUME Init PROVE TypeInv
  OBVIOUS
<1>1. TypeOK
  <2>1. MaxWorkers \in Nat /\ InitialThreads \in WorkerId /\ MaxShutdowns \in Nat
    BY ThreadPoolAssumption
  <2>2. tasks \in Seq(Task) /\ size \in WorkerId /\ fate \in [Task -> TaskState]
    BY <2>1 DEF Init, TaskState
  <2>3. wpc \in [WorkerId -> WorkerState] /\ cpc \in [Caller -> CallerState]
    BY DEF Init, WorkerState, CallerState
  <2>4. /\ stop \in BOOLEAN /\ paused \in BOOLEAN /\ activeThreads \in Nat
        /\ joined \in 0..MaxWorkers /\ joinEnd \in 0..MaxWorkers
        /\ shutdowns \in 0..MaxShutdowns
    <3>1. 0 \in 0..MaxWorkers /\ 0 \in 0..MaxShutdowns
      BY <2>1
    <3> QED  BY <3>1 DEF Init
  <2>5. running \in [WorkerId -> Task \cup {NoTask}]
    BY DEF Init
  <2> QED  BY <2>2, <2>3, <2>4, <2>5 DEF TypeOK
<1>2. WorkersAt("run") = {}
  BY DEF Init, WorkersAt
<1>3. ActiveCount
  BY <1>2, FS_EmptySet DEF Init, ActiveCount
<1>4. Born
  BY ThreadPoolAssumption DEF Init, Born, WorkerId
<1> QED  BY <1>1, <1>3, <1>4 DEF TypeInv

(* A step that starts, ends and adds no worker's work. *)
SameAt(s) == \A w \in WorkerId : wpc'[w] = s <=> wpc[w] = s
Undisturbed ==
  SameAt("run") /\ SameAt("unborn") /\ activeThreads' = activeThreads /\ size' = size

(* No step of the pool leaves the type invariant. *)
LEMMA TypeInvStep == TypeInv /\ [Next]_vars => TypeInv'
<1> SUFFICES ASSUME TypeInv, [Next]_vars PROVE TypeInv'
  OBVIOUS
<1>0. TypeOK /\ activeThreads = Cardinality(WorkersAt("run"))
  BY DEF TypeInv, ActiveCount
<1>b. Born
  BY DEF TypeInv
<1> USE DEF TypeOK
<1>a. ASSUME Undisturbed PROVE ActiveCount' /\ Born'
  BY <1>0, <1>a, <1>b DEF Undisturbed, SameAt, ActiveCount, Born, WorkersAt
<1>1. ASSUME NEW w \in WorkerId, WorkerSleep(w) \/ WorkerExit(w) \/ WorkerPause(w) \/ WorkerPauseTest(w)
      PROVE  TypeInv'
  <2>1. TypeOK'
    BY <1>0, <1>1 DEF WorkerSleep, WorkerExit, WorkerPause, WorkerPauseTest, WorkerState, shutdownVars
  <2>2. Undisturbed
    BY <1>0, <1>1 DEF WorkerSleep, WorkerExit, WorkerPause, WorkerPauseTest, Undisturbed, SameAt, shutdownVars
  <2> QED  BY <2>1, <2>2, <1>a DEF TypeInv
<1>2. ASSUME NEW w \in WorkerId, WorkerTake(w)
      PROVE  TypeInv'
  <2>1. Head(tasks) \in Task /\ Tail(tasks) \in Seq(Task)
    BY <1>0, <1>2 DEF WorkerTake
  <2>2. TypeOK'
    BY <1>0, <1>2, <2>1 DEF WorkerTake, Popped, Counted, WorkerState, TaskState, shutdownVars
  <2>3. WorkersAt("run")' = WorkersAt("run") \cup {w}
    BY <1>0, <1>2 DEF WorkerTake, WorkersAt
  <2>4. Cardinality(WorkersAt("run") \cup {w}) = Cardinality(WorkersAt("run")) + 1
    BY <1>0, <1>2, RunCount DEF WorkerTake
  <2>5. activeThreads' = activeThreads + 1
    BY <1>2 DEF WorkerTake, Counted
  <2>6. Born'
    BY <1>0, <1>b, <1>2 DEF WorkerTake, Born
  <2> QED  BY <1>0, <2>2, <2>3, <2>4, <2>5, <2>6 DEF TypeInv, ActiveCount
<1>3. ASSUME NEW w \in WorkerId, WorkerDone(w)
      PROVE  TypeInv'
  <2>1. activeThreads - 1 \in Nat /\ activeThreads - 1 = Cardinality(WorkersAt("run") \ {w})
    <3>1. Cardinality(WorkersAt("run")) > 0
      BY <1>0, <1>3, RunCount DEF WorkerDone
    <3>2. Cardinality(WorkersAt("run") \ {w}) = Cardinality(WorkersAt("run")) - 1
      BY <1>0, <1>3, RunCount DEF WorkerDone
    <3> QED  BY <1>0, <3>1, <3>2
  <2>2. /\ wpc' \in [WorkerId -> WorkerState]
        /\ WorkersAt("run")' = WorkersAt("run") \ {w}
        /\ SameAt("unborn")
    <3> DEFINE back == [wpc EXCEPT ![w] = "test"]
    <3>1. back \in [WorkerId -> WorkerState]
      BY <1>0 DEF WorkerState
    <3>2. WokenWorkers(back) \in [WorkerId -> WorkerState]
      BY <3>1 DEF WokenWorkers, WorkerState
    <3>3. wpc' = back \/ wpc' = WokenWorkers(back)
      BY <1>3 DEF WorkerDone
    <3>4. \A v \in WorkerId : wpc'[v] = "run" <=> (wpc[v] = "run" /\ v # w)
      BY <1>0, <3>3 DEF WokenWorkers
    <3>5. SameAt("unborn")
      BY <1>0, <1>3, <3>3 DEF WokenWorkers, SameAt, WorkerDone
    <3> QED  BY <3>1, <3>2, <3>3, <3>4, <3>5 DEF WorkersAt
  <2>3. cpc' \in [Caller -> CallerState]
    BY <1>0, <1>3 DEF WorkerDone, WokenCallers, CallerState
  <2>4. TypeOK'
    BY <1>0, <1>3, <2>1, <2>2, <2>3 DEF WorkerDone, TaskState, shutdownVars
  <2>5. Born'
    BY <1>b, <1>3, <2>2 DEF WorkerDone, Born, SameAt
  <2> QED  BY <1>3, <2>1, <2>2, <2>4, <2>5 DEF TypeInv, ActiveCount, WorkerDone
<1>4. ASSUME NEW c \in Submitter, NEW t \in Task, Enqueue(c, t) \/ EnqueueRefused(c, t)
      PROVE  TypeInv'
  <2>1. /\ tasks' \in Seq(Task)
        /\ cpc' \in [Caller -> CallerState]
        /\ fate' \in [Task -> TaskState]
    <3>1. CASE Enqueue(c, t)
      <4>1. Append(tasks, t) \in Seq(Task)
        BY <1>0
      <4> QED  BY <1>0, <3>1, <4>1 DEF Enqueue, TaskState, CallerState
    <3>2. CASE EnqueueRefused(c, t)
      BY <1>0, <3>2 DEF EnqueueRefused, TaskState
    <3> QED  BY <1>4, <3>1, <3>2
  <2>3. TypeOK'
    BY <1>0, <1>4, <2>1 DEF Enqueue, EnqueueRefused, shutdownVars
  <2>2. Undisturbed
    BY <1>4 DEF Enqueue, EnqueueRefused, Undisturbed, SameAt, shutdownVars
  <2> QED  BY <2>2, <2>3, <1>a DEF TypeInv
<1>5. ASSUME NEW c \in Caller, NotifyOne(c)
      PROVE  TypeInv'
  <2>1. \/ wpc' = wpc
        \/ \E w \in WorkersAt("asleep") : wpc' = [wpc EXCEPT ![w] = "test"]
    BY <1>5 DEF NotifyOne, OneWoken
  <2>2. wpc' \in [WorkerId -> WorkerState] /\ Undisturbed
    BY <1>0, <1>5, <2>1 DEF NotifyOne, WorkersAt, WorkerState, Undisturbed, SameAt
  <2>3. TypeOK'
    BY <1>0, <1>5, <2>2 DEF NotifyOne, CallerState, shutdownVars
  <2> QED  BY <2>2, <2>3, <1>a DEF TypeInv
<1>6. ASSUME NEW c \in Pauser, Pause(c) \/ Resume(c)
      PROVE  TypeInv'
  <2>1. TypeOK'
    BY <1>0, <1>6 DEF Pause, Resume, CallerState, shutdownVars
  <2>2. Undisturbed
    BY <1>6 DEF Pause, Resume, Undisturbed, SameAt, shutdownVars
  <2> QED  BY <2>1, <2>2, <1>a DEF TypeInv
<1>7. ASSUME NEW c \in Caller, ResumeNotify(c)
      PROVE  TypeInv'
  <2>1. TypeOK'
    BY <1>0, <1>7 DEF ResumeNotify, WokenWorkers, WokenCallers, WorkerState, CallerState, shutdownVars
  <2>2. Undisturbed
    BY <1>0, <1>7 DEF ResumeNotify, WokenWorkers, Undisturbed, SameAt, shutdownVars
  <2> QED  BY <2>1, <2>2, <1>a DEF TypeInv
<1>8. ASSUME NEW c \in Caller, WaitForCompletion(c) \/ WaitTest(c)
      PROVE  TypeInv'
  <2>1. TypeOK'
    BY <1>0, <1>8 DEF WaitForCompletion, WaitTest, CallerState, shutdownVars
  <2>2. Undisturbed
    BY <1>8 DEF WaitForCompletion, WaitTest, Undisturbed, SameAt, shutdownVars
  <2> QED  BY <2>1, <2>2, <1>a DEF TypeInv
<1>9. ASSUME NEW c \in Resizer, NEW n \in ResizeTo, ResizeGrow(c, n)
      PROVE  TypeInv'
  <2>1. n \in WorkerId
    BY <1>0, <1>9, ThreadPoolAssumption DEF ResizeGrow, WorkerId
  <2>2. \A w \in (size + 1)..n : w \in WorkerId
    BY <1>0, <2>1, ThreadPoolAssumption DEF WorkerId
  <2>3. cpc' \in [Caller -> CallerState]
    BY <1>0, <1>9 DEF ResizeGrow, CallerState
  <2>4. TypeOK'
    BY <1>0, <1>9, <2>1, <2>3 DEF ResizeGrow, WorkerState, shutdownVars
  <2>5. \A w \in WorkerId : wpc'[w] = IF w \in (size + 1)..n THEN "test" ELSE wpc[w]
    BY <1>9 DEF ResizeGrow
  <2>6. SameAt("run")
    BY <1>0, <1>b, <2>5 DEF SameAt, Born, WorkerId
  <2>7. ActiveCount'
    BY <1>0, <1>9, <2>6 DEF ResizeGrow, SameAt, ActiveCount, WorkersAt
  <2>8. Born'
    BY <1>0, <1>b, <1>9, <2>5, ThreadPoolAssumption DEF ResizeGrow, Born, WorkerId
  <2> QED  BY <2>4, <2>7, <2>8 DEF TypeInv
<1>10. ASSUME NEW c \in Resizer, NEW n \in ResizeTo, ResizeShrink(c, n)
       PROVE  TypeInv'
  <2>1. TypeOK'
    BY <1>0, <1>10 DEF ResizeShrink, CallerState, shutdownVars
  <2>2. Undisturbed
    BY <1>10 DEF ResizeShrink, Undisturbed, SameAt
  <2> QED  BY <2>1, <2>2, <1>a DEF TypeInv
<1>11. CASE Shutdown
  <2>1. shutdowns' \in 0..MaxShutdowns
    BY <1>0, <1>11, ThreadPoolAssumption DEF Shutdown
  <2>2. TypeOK'
    BY <1>0, <1>11, <2>1 DEF Shutdown, CallerState
  <2>3. Undisturbed
    BY <1>11 DEF Shutdown, Undisturbed, SameAt
  <2> QED  BY <2>2, <2>3, <1>a DEF TypeInv
<1>12. CASE ShutdownNotify
  <2>1. joinEnd' \in 0..MaxWorkers
    BY <1>0, <1>12, ThreadPoolAssumption DEF ShutdownNotify, WorkerId
  <2>2. TypeOK'
    BY <1>0, <1>12, <2>1 DEF ShutdownNotify, AllWoken, CallerState, WorkerState
  <2>3. Undisturbed
    BY <1>0, <1>12 DEF ShutdownNotify, AllWoken, Undisturbed, SameAt
  <2> QED  BY <2>2, <2>3, <1>a DEF TypeInv
<1>13. CASE Join \/ ShutdownReturn
  <2>1. joined' \in 0..MaxWorkers
    BY <1>0, <1>13, ThreadPoolAssumption DEF Join, ShutdownReturn, shutdownVars
  <2>2. TypeOK'
    BY <1>0, <1>13, <2>1 DEF Join, ShutdownReturn, CallerState, shutdownVars
  <2>3. Undisturbed
    BY <1>13 DEF Join, ShutdownReturn, Undisturbed, SameAt
  <2> QED  BY <2>2, <2>3, <1>a DEF TypeInv
<1>14. CASE SpuriousWakeup
  <2>1. TypeOK'
    BY <1>0, <1>14 DEF SpuriousWakeup, WorkersAt, CallersAt, CallerState, WorkerState, shutdownVars
  <2>2. Undisturbed
    BY <1>0, <1>14 DEF SpuriousWakeup, WorkersAt, Undisturbed, SameAt
  <2> QED  BY <2>1, <2>2, <1>a DEF TypeInv
<1>15. CASE UNCHANGED vars
  BY <1>15 DEF vars, shutdownVars, TypeInv, TypeOK, ActiveCount, Born, WorkersAt
<1> QED
  BY <1>1, <1>2, <1>3, <1>4, <1>5, <1>6, <1>7, <1>8, <1>9, <1>10, <1>11, <1>12,
     <1>13, <1>14, <1>15
     DEF Next, WorkerStep, CallerStep, ShutdownStep, Call, Caller

(* Every variable keeps its type, and activeThreads, which workerThread()
   increments and decrements in two critical sections, is at every moment the
   number of workers outside the mutex with a task (ActiveCount of TypeInv), and
   so the decrement of a size_t never wraps below zero. *)
THEOREM TypeCorrect == Spec => []TypeOK
<1>1. TypeInv => TypeOK
  BY DEF TypeInv
<1> QED  BY <1>1, TypeInvInit, TypeInvStep, PTL DEF Spec

-----------------------------------------------------------------------------
(* waitForCompletion() misses no wakeup. *)

LEMMA CompletionInit == Init => CompletionNotLost
  BY DEF Init, CompletionNotLost, CallersAt

LEMMA CompletionStep ==
  TypeInv /\ TypeInv' /\ CompletionNotLost /\ [Next]_vars => CompletionNotLost'
<1> SUFFICES ASSUME TypeInv, TypeInv', CompletionNotLost, [Next]_vars,
                    NEW c \in Caller, cpc'[c] = "waitasleep"
             PROVE  tasks' # <<>> \/ activeThreads' # 0
  BY DEF CompletionNotLost, CallersAt
<1>0. TypeOK /\ TypeOK'
  BY DEF TypeInv
<1>a. cpc[c] = "waitasleep" => tasks # <<>> \/ activeThreads # 0
  BY DEF CompletionNotLost, CallersAt
<1> USE DEF TypeOK
<1>1. ASSUME NEW w \in WorkerId, WorkerSleep(w) \/ WorkerExit(w) \/ WorkerPause(w) \/ WorkerPauseTest(w)
      PROVE  tasks' # <<>> \/ activeThreads' # 0
  BY <1>a, <1>1 DEF WorkerSleep, WorkerExit, WorkerPause, WorkerPauseTest
<1>2. ASSUME NEW w \in WorkerId, WorkerTake(w)
      PROVE  activeThreads' # 0
  BY <1>0, <1>2 DEF WorkerTake, Counted
<1>3. ASSUME NEW w \in WorkerId, WorkerDone(w)
      PROVE  tasks' # <<>> \/ activeThreads' # 0
  <2>1. CASE LeavesIdle
    BY <1>0, <1>3, <2>1 DEF WorkerDone, WokenCallers
  <2>2. CASE ~LeavesIdle
    BY <1>0, <1>3, <2>2 DEF WorkerDone, LeavesIdle
  <2> QED  BY <2>1, <2>2
<1>4. ASSUME NEW d \in Submitter, NEW t \in Task, Enqueue(d, t) \/ EnqueueRefused(d, t)
      PROVE  tasks' # <<>> \/ activeThreads' # 0
  <2>1. Enqueue(d, t) => tasks' # <<>>
    BY <1>0 DEF Enqueue
  <2>2. EnqueueRefused(d, t) => cpc' = cpc /\ tasks' = tasks /\ activeThreads' = activeThreads
    BY DEF EnqueueRefused
  <2> QED  BY <1>4, <1>a, <2>1, <2>2
<1>5. ASSUME NEW d \in Caller, NotifyOne(d) \/ ResumeNotify(d)
      PROVE  tasks' # <<>> \/ activeThreads' # 0
  BY <1>0, <1>a, <1>5 DEF NotifyOne, ResumeNotify, WokenCallers
<1>6. ASSUME NEW d \in Caller, WaitTest(d)
      PROVE  tasks' # <<>> \/ activeThreads' # 0
  BY <1>0, <1>a, <1>6 DEF WaitTest, Completed
<1>7. ASSUME NEW d \in Caller, Pause(d) \/ Resume(d) \/ WaitForCompletion(d)
      PROVE  tasks' # <<>> \/ activeThreads' # 0
  BY <1>0, <1>a, <1>7 DEF Pause, Resume, WaitForCompletion
<1>8. ASSUME NEW d \in Resizer, NEW n \in ResizeTo, ResizeGrow(d, n) \/ ResizeShrink(d, n)
      PROVE  tasks' # <<>> \/ activeThreads' # 0
  BY <1>0, <1>a, <1>8 DEF ResizeGrow, ResizeShrink
<1>9. CASE Shutdown \/ ShutdownStep \/ SpuriousWakeup
  BY <1>0, <1>a, <1>9
     DEF Shutdown, ShutdownStep, ShutdownNotify, Join, ShutdownReturn, SpuriousWakeup
<1>10. CASE UNCHANGED vars
  BY <1>a, <1>10 DEF vars
<1> QED
  BY <1>1, <1>2, <1>3, <1>4, <1>5, <1>6, <1>7, <1>8, <1>9, <1>10
     DEF Next, WorkerStep, CallerStep, Call, Caller

(* A thread that sleeps in waitForCompletion() always has a running or queued
   task to be woken by, for any number of workers, callers and tasks. *)
THEOREM NoLostCompletion == Spec => []CompletionNotLost
<1>1. Init => TypeInv /\ CompletionNotLost
  BY TypeInvInit, CompletionInit
<1>2. (TypeInv /\ CompletionNotLost) /\ [Next]_vars => (TypeInv /\ CompletionNotLost)'
  BY TypeInvStep, CompletionStep
<1> QED  BY <1>1, <1>2, PTL DEF Spec

-----------------------------------------------------------------------------
(* shutdown().  DrainInv is inductive where ShutdownDrains is not: it says
   what the join loop has found so far. *)

StopperRoles == cpc[Stopper] \in {"idle", "stopped", "join", "threw"}
ExitedDrained == \A w \in WorkerId : wpc[w] = "exited" => stop /\ tasks = <<>>
JoinedExited == \A w \in WorkerId : w <= joined => wpc[w] = "exited"
JoinBounds ==
  /\ joined <= joinEnd
  /\ joinEnd <= size
  /\ ShutdownReturned => joined = joinEnd
DrainInv == StopperRoles /\ ExitedDrained /\ JoinedExited /\ JoinBounds

LEMMA DrainInit == Init => DrainInv
<1> SUFFICES ASSUME Init PROVE DrainInv
  OBVIOUS
<1>1. StopperRoles
  BY DEF Init, StopperRoles, Caller
<1>2. ExitedDrained
  BY DEF Init, ExitedDrained
<1>3. JoinedExited /\ JoinBounds
  BY ThreadPoolAssumption DEF Init, JoinedExited, JoinBounds, ShutdownReturned, WorkerId
<1> QED  BY <1>1, <1>2, <1>3 DEF DrainInv

(* What most steps leave alone. *)
StopperStays ==
  /\ cpc'[Stopper] = cpc[Stopper]
  /\ joined' = joined /\ joinEnd' = joinEnd /\ shutdowns' = shutdowns
  /\ size' = size

LEMMA DrainStep == TypeInv /\ DrainInv /\ [Next]_vars => DrainInv'
<1> SUFFICES ASSUME TypeInv, DrainInv, [Next]_vars PROVE DrainInv'
  OBVIOUS
<1>0. TypeOK /\ Born
  BY DEF TypeInv
<1>a. StopperRoles /\ ExitedDrained /\ JoinedExited /\ JoinBounds
  BY DEF DrainInv
<1>b. Stopper \in Caller /\ Stopper \notin Submitter \cup Waiter \cup Pauser \cup Resizer
  BY ThreadPoolAssumption DEF Caller
<1>c. ASSUME StopperStays, SameAt("exited"), stop' = stop, tasks' = tasks
      PROVE  DrainInv'
  BY <1>a, <1>c
     DEF StopperStays, SameAt, DrainInv, StopperRoles, ExitedDrained, JoinedExited,
         JoinBounds, ShutdownReturned
<1> USE DEF TypeOK
<1>1. ASSUME NEW w \in WorkerId, WorkerSleep(w) \/ WorkerPause(w) \/ WorkerPauseTest(w)
      PROVE  DrainInv'
  <2>1. StopperStays /\ SameAt("exited") /\ stop' = stop /\ tasks' = tasks
    BY <1>0, <1>1
       DEF WorkerSleep, WorkerPause, WorkerPauseTest, StopperStays, SameAt, shutdownVars
  <2> QED  BY <2>1, <1>c
<1>2. ASSUME NEW w \in WorkerId, WorkerExit(w)
      PROVE  DrainInv'
  <2>1. StopperStays
    BY <1>2 DEF WorkerExit, StopperStays, shutdownVars
  <2>2. ExitedDrained'
    BY <1>0, <1>a, <1>2 DEF WorkerExit, MayLeave, ExitedDrained
  <2>3. JoinedExited'
    BY <1>0, <1>a, <1>2 DEF WorkerExit, JoinedExited, shutdownVars
  <2> QED
    BY <1>a, <2>1, <2>2, <2>3
       DEF StopperStays, DrainInv, StopperRoles, JoinBounds, ShutdownReturned
<1>3. ASSUME NEW w \in WorkerId, WorkerTake(w)
      PROVE  DrainInv'
  <2>1. StopperStays
    BY <1>3 DEF WorkerTake, StopperStays, shutdownVars
  <2>2. \A v \in WorkerId : wpc[v] # "exited" /\ wpc'[v] # "exited"
    BY <1>0, <1>a, <1>3 DEF WorkerTake, ExitedDrained
  <2>3. ExitedDrained' /\ JoinedExited'
    BY <1>a, <2>1, <2>2 DEF ExitedDrained, JoinedExited, StopperStays
  <2> QED
    BY <1>a, <2>1, <2>3
       DEF StopperStays, DrainInv, StopperRoles, JoinBounds, ShutdownReturned
<1>4. ASSUME NEW w \in WorkerId, WorkerDone(w)
      PROVE  DrainInv'
  <2>1. StopperStays
    BY <1>0, <1>a, <1>b, <1>4
       DEF WorkerDone, WokenCallers, StopperStays, StopperRoles, shutdownVars
  <2>2. SameAt("exited") /\ stop' = stop /\ tasks' = tasks
    BY <1>0, <1>4 DEF WorkerDone, WokenWorkers, SameAt
  <2> QED  BY <2>1, <2>2, <1>c
<1>5. ASSUME NEW c \in Submitter, NEW t \in Task, Enqueue(c, t)
      PROVE  DrainInv'
  <2>1. StopperStays
    BY <1>b, <1>5 DEF Enqueue, StopperStays, shutdownVars
  <2>2. \A w \in WorkerId : wpc[w] # "exited" /\ wpc'[w] # "exited"
    BY <1>a, <1>5 DEF Enqueue, Accepts, ExitedDrained
  <2>3. ExitedDrained' /\ JoinedExited'
    BY <1>a, <2>1, <2>2 DEF ExitedDrained, JoinedExited, StopperStays
  <2> QED
    BY <1>a, <2>1, <2>3
       DEF StopperStays, DrainInv, StopperRoles, JoinBounds, ShutdownReturned
<1>6. ASSUME NEW c \in Submitter, NEW t \in Task, EnqueueRefused(c, t)
      PROVE  DrainInv'
  BY <1>c, <1>6 DEF EnqueueRefused, StopperStays, SameAt, shutdownVars
<1>7. ASSUME NEW c \in Caller, NotifyOne(c)
      PROVE  DrainInv'
  <2>1. StopperStays
    BY <1>0, <1>a, <1>b, <1>7 DEF NotifyOne, StopperStays, StopperRoles, shutdownVars
  <2>2. SameAt("exited") /\ stop' = stop /\ tasks' = tasks
    BY <1>0, <1>7 DEF NotifyOne, OneWoken, WorkersAt, SameAt
  <2> QED  BY <2>1, <2>2, <1>c
<1>8. ASSUME NEW c \in Caller, ResumeNotify(c)
      PROVE  DrainInv'
  <2>1. StopperStays
    BY <1>0, <1>a, <1>b, <1>8
       DEF ResumeNotify, WokenCallers, StopperStays, StopperRoles, shutdownVars
  <2>2. SameAt("exited") /\ stop' = stop /\ tasks' = tasks
    BY <1>0, <1>8 DEF ResumeNotify, WokenWorkers, SameAt
  <2> QED  BY <2>1, <2>2, <1>c
<1>9. ASSUME NEW c \in Caller, WaitTest(c)
      PROVE  DrainInv'
  <2>1. StopperStays
    BY <1>0, <1>a, <1>b, <1>9 DEF WaitTest, StopperStays, StopperRoles, shutdownVars
  <2> QED  BY <2>1, <1>c, <1>9 DEF WaitTest, SameAt
<1>10. ASSUME NEW c \in Caller, Pause(c) \/ Resume(c) \/ WaitForCompletion(c)
       PROVE  DrainInv'
  <2>1. StopperStays
    BY <1>0, <1>b, <1>10 DEF Pause, Resume, WaitForCompletion, StopperStays, shutdownVars
  <2> QED  BY <2>1, <1>c, <1>10 DEF Pause, Resume, WaitForCompletion, SameAt
<1>11. ASSUME NEW c \in Resizer, NEW n \in ResizeTo, ResizeGrow(c, n)
       PROVE  DrainInv'
  <2>1. SameAt("exited")
    <3>1. \A w \in WorkerId : wpc'[w] = IF w \in (size + 1)..n THEN "test" ELSE wpc[w]
      BY <1>11 DEF ResizeGrow
    <3> QED  BY <1>0, <3>1 DEF SameAt, Born, WorkerId
  <2>2. ExitedDrained' /\ JoinedExited'
    BY <1>a, <1>11, <2>1 DEF ResizeGrow, SameAt, ExitedDrained, JoinedExited, shutdownVars
  <2>3. size' > size /\ size' \in Int /\ joinEnd' = joinEnd /\ joined' = joined /\ shutdowns' = shutdowns
    BY <1>0, <1>11, ThreadPoolAssumption DEF ResizeGrow, WorkerId, shutdownVars
  <2>4. cpc'[Stopper] = cpc[Stopper] \/ cpc'[Stopper] = "threw"
    BY <1>0, <1>b, <1>11 DEF ResizeGrow
  <2>5. JoinBounds'
    BY <1>0, <1>a, <2>3, <2>4 DEF JoinBounds, ShutdownReturned, WorkerId
  <2> QED  BY <1>a, <2>2, <2>4, <2>5 DEF DrainInv, StopperRoles
<1>12. ASSUME NEW c \in Resizer, NEW n \in ResizeTo, ResizeShrink(c, n)
       PROVE  DrainInv'
  <2>1. StopperStays
    BY <1>b, <1>12 DEF ResizeShrink, StopperStays, shutdownVars
  <2> QED  BY <2>1, <1>c, <1>12 DEF ResizeShrink, SameAt
<1>13. CASE Shutdown
  <2>1. ExitedDrained' /\ JoinedExited'
    BY <1>a, <1>13 DEF Shutdown, ExitedDrained, JoinedExited
  <2>2. cpc'[Stopper] = "stopped"
    BY <1>0, <1>b, <1>13 DEF Shutdown
  <2> QED
    BY <1>a, <1>13, <2>1, <2>2
       DEF Shutdown, DrainInv, StopperRoles, JoinBounds, ShutdownReturned
<1>14. CASE ShutdownNotify
  <2>1. SameAt("exited") /\ stop' = stop /\ tasks' = tasks /\ joined' = joined
    BY <1>0, <1>14 DEF ShutdownNotify, AllWoken, SameAt
  <2>2. cpc'[Stopper] \in {"threw", "join"}
    BY <1>0, <1>b, <1>14 DEF ShutdownNotify
  <2>3. ExitedDrained' /\ JoinedExited'
    BY <1>a, <2>1 DEF SameAt, ExitedDrained, JoinedExited
  <2>4. JoinBounds'
    BY <1>0, <1>a, <1>14, <2>1, <2>2 DEF ShutdownNotify, JoinBounds, ShutdownReturned, WorkerId
  <2> QED  BY <2>2, <2>3, <2>4 DEF DrainInv, StopperRoles
<1>15. CASE Join
  <2>1. ExitedDrained' /\ StopperRoles'
    BY <1>a, <1>15 DEF Join, ExitedDrained, StopperRoles
  <2>2. JoinedExited'
    BY <1>0, <1>a, <1>15 DEF Join, JoinedExited, WorkerId
  <2>3. JoinBounds'
    BY <1>0, <1>a, <1>15 DEF Join, JoinBounds, ShutdownReturned, WorkerId
  <2> QED  BY <2>1, <2>2, <2>3 DEF DrainInv
<1>16. CASE ShutdownReturn
  <2>1. ExitedDrained' /\ JoinedExited'
    BY <1>a, <1>16 DEF ShutdownReturn, ExitedDrained, JoinedExited, shutdownVars
  <2>2. cpc'[Stopper] = "idle"
    BY <1>0, <1>b, <1>16 DEF ShutdownReturn
  <2> QED
    BY <1>a, <1>16, <2>1, <2>2
       DEF ShutdownReturn, DrainInv, StopperRoles, JoinBounds, ShutdownReturned, shutdownVars
<1>17. CASE SpuriousWakeup
  <2>1. StopperStays
    BY <1>0, <1>a, <1>b, <1>17
       DEF SpuriousWakeup, CallersAt, StopperStays, StopperRoles, shutdownVars
  <2>2. SameAt("exited") /\ stop' = stop /\ tasks' = tasks
    BY <1>0, <1>17 DEF SpuriousWakeup, WorkersAt, SameAt
  <2> QED  BY <2>1, <2>2, <1>c
<1>18. CASE UNCHANGED vars
  BY <1>c, <1>18 DEF vars, shutdownVars, StopperStays, SameAt
<1> QED
  BY <1>1, <1>2, <1>3, <1>4, <1>5, <1>6, <1>7, <1>8, <1>9, <1>10, <1>11, <1>12,
     <1>13, <1>14, <1>15, <1>16, <1>17, <1>18
     DEF Next, WorkerStep, CallerStep, ShutdownStep, Call, Caller

LEMMA DrainSuffices == TypeInv /\ DrainInv => ShutdownDrains
<1> SUFFICES ASSUME TypeInv, DrainInv, ShutdownReturned, joinEnd = size
             PROVE  tasks = <<>> /\ \A w \in 1..size : wpc[w] = "exited"
  BY DEF ShutdownDrains
<1>1. size \in 1..MaxWorkers /\ MaxWorkers \in Nat /\ joined = size
  BY ThreadPoolAssumption DEF TypeInv, TypeOK, WorkerId, DrainInv, JoinBounds
<1>2. \A w \in 1..size : w \in WorkerId /\ wpc[w] = "exited"
  BY <1>1 DEF DrainInv, JoinedExited, WorkerId
<1>3. 1 \in 1..size
  BY <1>1
<1> QED  BY <1>2, <1>3 DEF DrainInv, ExitedDrained

(* When shutdown() returns, every thread of a pool that was not grown meanwhile
   has ended, and every accepted task had been run before. *)
THEOREM ShutdownIsClean == Spec => []ShutdownDrains
<1>1. Init => TypeInv /\ DrainInv
  BY TypeInvInit, DrainInit
<1>2. (TypeInv /\ DrainInv) /\ [Next]_vars => (TypeInv /\ DrainInv)'
  BY TypeInvStep, DrainStep
<1> QED  BY <1>1, <1>2, DrainSuffices, PTL DEF Spec

-----------------------------------------------------------------------------
(* Every task is in one place.  OwnInv is TaskOwnership element by element. *)

QueuedFate == \A t \in Task : fate[t] = "queued" <=> \E i \in 1..Len(tasks) : tasks[i] = t
QueueDistinct == \A i, j \in 1..Len(tasks) : tasks[i] = tasks[j] => i = j
RunningTask == \A w \in WorkerId : wpc[w] = "run" => running[w] \in Task
RunningFate ==
  \A t \in Task : fate[t] = "running" <=> \E w \in WorkerId : wpc[w] = "run" /\ running[w] = t
RunnersDistinct ==
  \A v, w \in WorkerId :
     wpc[v] = "run" /\ wpc[w] = "run" /\ running[v] = running[w] => v = w
OwnInv == QueuedFate /\ QueueDistinct /\ RunningTask /\ RunningFate /\ RunnersDistinct

LEMMA OwnInit == Init => OwnInv
  BY DEF Init, OwnInv, QueuedFate, QueueDistinct, RunningTask, RunningFate, RunnersDistinct

LEMMA OwnSuffices == TypeInv /\ OwnInv => TaskOwnership
<1> SUFFICES ASSUME TypeInv, OwnInv PROVE TaskOwnership
  OBVIOUS
<1>0. TypeOK
  BY DEF TypeInv
<1>1. Queued = {t \in Task : fate[t] = "queued"}
  BY <1>0 DEF TypeOK, OwnInv, QueuedFate, Queued
<1>2. Executing = {t \in Task : fate[t] = "running"}
  BY <1>0 DEF TypeOK, OwnInv, RunningTask, RunningFate, Executing, WorkersAt
<1> QED
  BY <1>1, <1>2 DEF TaskOwnership, OwnInv, QueueDistinct, RunnersDistinct, WorkersAt

(* What a step does that moves no task. *)
NoTaskMoves == tasks' = tasks /\ fate' = fate /\ running' = running /\ SameAt("run")

LEMMA OwnKept == ASSUME OwnInv, NoTaskMoves PROVE OwnInv'
  BY DEF OwnInv, NoTaskMoves, SameAt, QueuedFate, QueueDistinct, RunningTask, RunningFate,
         RunnersDistinct

(* Every step that is not a push, a pop or the end of a task moves none. *)
TaskMove ==
  \/ \E w \in WorkerId : WorkerTake(w) \/ WorkerDone(w)
  \/ \E c \in Submitter, t \in Task : Enqueue(c, t) \/ EnqueueRefused(c, t)

LEMMA OtherSteps ==
  ASSUME TypeInv, [Next]_vars
  PROVE  TaskMove \/ NoTaskMoves
<1>0. TypeOK /\ Born
  BY DEF TypeInv
<1> USE DEF TypeOK
<1>1. ASSUME NEW w \in WorkerId, WorkerSleep(w) \/ WorkerExit(w) \/ WorkerPause(w) \/ WorkerPauseTest(w)
      PROVE  NoTaskMoves
  BY <1>0, <1>1
     DEF WorkerSleep, WorkerExit, WorkerPause, WorkerPauseTest, NoTaskMoves, SameAt
<1>2. ASSUME NEW c \in Caller, NotifyOne(c) \/ ResumeNotify(c)
      PROVE  NoTaskMoves
  BY <1>0, <1>2
     DEF NotifyOne, OneWoken, WorkersAt, ResumeNotify, WokenWorkers, NoTaskMoves, SameAt
<1>3. ASSUME NEW c \in Caller, WaitTest(c) \/ WaitForCompletion(c) \/ Pause(c) \/ Resume(c)
      PROVE  NoTaskMoves
  BY <1>3 DEF WaitTest, WaitForCompletion, Pause, Resume, NoTaskMoves, SameAt
<1>4. ASSUME NEW c \in Resizer, NEW n \in ResizeTo, ResizeGrow(c, n)
      PROVE  NoTaskMoves
  <2>1. \A w \in WorkerId : wpc'[w] = IF w \in (size + 1)..n THEN "test" ELSE wpc[w]
    BY <1>4 DEF ResizeGrow
  <2> QED  BY <1>0, <1>4, <2>1 DEF ResizeGrow, NoTaskMoves, SameAt, Born, WorkerId
<1>5. ASSUME NEW c \in Resizer, NEW n \in ResizeTo, ResizeShrink(c, n)
      PROVE  NoTaskMoves
  BY <1>5 DEF ResizeShrink, NoTaskMoves, SameAt
<1>6. CASE Shutdown \/ Join \/ ShutdownReturn
  BY <1>6 DEF Shutdown, Join, ShutdownReturn, NoTaskMoves, SameAt
<1>7. CASE ShutdownNotify \/ SpuriousWakeup
  BY <1>0, <1>7 DEF ShutdownNotify, AllWoken, SpuriousWakeup, WorkersAt, NoTaskMoves, SameAt
<1>8. CASE UNCHANGED vars
  BY <1>8 DEF vars, NoTaskMoves, SameAt
<1> QED
  BY <1>1, <1>2, <1>3, <1>4, <1>5, <1>6, <1>7, <1>8
     DEF Next, WorkerStep, CallerStep, ShutdownStep, Call, Caller, TaskMove

LEMMA OwnStep == TypeInv /\ OwnInv /\ [Next]_vars => OwnInv'
<1> SUFFICES ASSUME TypeInv, OwnInv, [Next]_vars PROVE OwnInv'
  OBVIOUS
<1>0. TypeOK
  BY DEF TypeInv
<1>a. QueuedFate /\ QueueDistinct /\ RunningTask /\ RunningFate /\ RunnersDistinct
  BY DEF OwnInv
<1> USE DEF TypeOK
<1>1. ASSUME NEW w \in WorkerId, WorkerTake(w)
      PROVE  OwnInv'
  <2> DEFINE h == Head(tasks)
  <2>1. /\ h \in Task /\ h = tasks[1] /\ tasks # <<>> /\ Len(tasks) \in Nat \ {0}
        /\ tasks' = Tail(tasks) /\ Len(tasks') = Len(tasks) - 1
        /\ \A i \in 1..Len(tasks') : tasks'[i] = tasks[i + 1] /\ i + 1 \in 1..Len(tasks)
    BY <1>0, <1>1 DEF WorkerTake, Popped
  <2>2. /\ fate' = [fate EXCEPT ![h] = "running"]
        /\ running' = [running EXCEPT ![w] = h]
        /\ wpc' = [wpc EXCEPT ![w] = "run"] /\ wpc[w] = "test"
    BY <1>1 DEF WorkerTake
  <2>3. fate[h] = "queued" /\ 1 \in 1..Len(tasks)
    BY <1>a, <2>1 DEF QueuedFate
  <2> HIDE DEF h
  <2>4. QueueDistinct'
    <3> SUFFICES ASSUME NEW i \in 1..Len(tasks'), NEW j \in 1..Len(tasks'), tasks'[i] = tasks'[j]
                 PROVE  i = j
      BY DEF QueueDistinct
    <3>1. i + 1 = j + 1
      BY <1>a, <2>1 DEF QueueDistinct
    <3> QED  BY <2>1, <3>1
  <2>5. QueuedFate'
    <3> SUFFICES ASSUME NEW t \in Task
                 PROVE  fate'[t] = "queued" <=> \E i \in 1..Len(tasks') : tasks'[i] = t
      BY DEF QueuedFate
    <3>1. CASE t = h
      <4>1. ASSUME NEW i \in 1..Len(tasks') PROVE tasks'[i] # t
        <5>1. tasks'[i] = tasks[i + 1] /\ i + 1 # 1 /\ i + 1 \in 1..Len(tasks)
          BY <2>1
        <5> QED  BY <1>a, <2>1, <2>3, <3>1, <5>1 DEF QueueDistinct
      <4> QED  BY <1>0, <2>1, <2>2, <3>1, <4>1
    <3>2. CASE t # h
      <4>1. fate'[t] = fate[t]
        BY <1>0, <2>2, <3>2
      <4>2. ASSUME NEW i \in 1..Len(tasks), tasks[i] = t
            PROVE  \E k \in 1..Len(tasks') : tasks'[k] = t
        <5>1. i # 1
          BY <2>1, <3>2, <4>2
        <5>2. i - 1 \in 1..Len(tasks')
          BY <2>1, <5>1
        <5>3. tasks'[i - 1] = t
          BY <2>1, <4>2, <5>2
        <5> QED  BY <5>2, <5>3
      <4>3. ASSUME NEW k \in 1..Len(tasks'), tasks'[k] = t
            PROVE  \E i \in 1..Len(tasks) : tasks[i] = t
        BY <2>1, <4>3
      <4> QED  BY <1>a, <4>1, <4>2, <4>3 DEF QueuedFate
    <3> QED  BY <3>1, <3>2
  <2>6. RunningTask' /\ RunningFate'
    BY <1>0, <1>a, <2>1, <2>2 DEF RunningTask, RunningFate
  <2>7. RunnersDistinct'
    BY <1>0, <1>a, <2>1, <2>2, <2>3 DEF RunningTask, RunningFate, RunnersDistinct
  <2> QED  BY <2>4, <2>5, <2>6, <2>7 DEF OwnInv
<1>2. ASSUME NEW w \in WorkerId, WorkerDone(w)
      PROVE  OwnInv'
  <2>1. /\ wpc[w] = "run" /\ tasks' = tasks
        /\ fate' = [fate EXCEPT ![running[w]] = "done"]
        /\ running' = [running EXCEPT ![w] = NoTask]
        /\ \A v \in WorkerId : wpc'[v] = "run" <=> (wpc[v] = "run" /\ v # w)
    BY <1>0, <1>2 DEF WorkerDone, WokenWorkers
  <2>2. running[w] \in Task /\ fate[running[w]] = "running"
    BY <1>a, <2>1 DEF RunningTask, RunningFate
  <2>3. QueuedFate' /\ QueueDistinct'
    BY <1>0, <1>a, <2>1, <2>2 DEF QueuedFate, QueueDistinct
  <2>4. \A v \in WorkerId : wpc'[v] = "run" => running'[v] = running[v] /\ wpc[v] = "run" /\ v # w
    BY <1>0, <2>1
  <2>5. RunningTask' /\ RunnersDistinct'
    BY <1>a, <2>4 DEF RunningTask, RunnersDistinct
  <2>6. RunningFate'
    <3> SUFFICES ASSUME NEW t \in Task
                 PROVE  fate'[t] = "running" <=> \E v \in WorkerId : wpc'[v] = "run" /\ running'[v] = t
      BY DEF RunningFate
    <3>1. CASE t = running[w]
      <4>1. fate'[t] = "done"
        BY <1>0, <2>1, <2>2, <3>1
      <4>2. \A v \in WorkerId : wpc'[v] = "run" => running'[v] # t
        BY <1>a, <2>1, <2>4, <3>1 DEF RunnersDistinct
      <4> QED  BY <4>1, <4>2
    <3>2. CASE t # running[w]
      BY <1>0, <1>a, <2>1, <2>2, <2>4, <3>2 DEF RunningFate
    <3> QED  BY <3>1, <3>2
  <2> QED  BY <2>3, <2>5, <2>6 DEF OwnInv
<1>3. ASSUME NEW c \in Submitter, NEW t \in Task, Enqueue(c, t)
      PROVE  OwnInv'
  <2>1. /\ fate[t] = "new" /\ fate' = [fate EXCEPT ![t] = "queued"]
        /\ tasks' = Append(tasks, t) /\ wpc' = wpc /\ running' = running
    BY <1>3 DEF Enqueue
  <2>2. /\ Len(tasks) \in Nat /\ Len(tasks') = Len(tasks) + 1 /\ tasks'[Len(tasks) + 1] = t
        /\ \A i \in 1..Len(tasks) : tasks'[i] = tasks[i]
    BY <1>0, <2>1
  <2>3. \A i \in 1..Len(tasks) : tasks[i] # t
    BY <1>a, <2>1 DEF QueuedFate
  <2>4. QueueDistinct'
    BY <1>a, <2>2, <2>3 DEF QueueDistinct
  <2>5. QueuedFate'
    <3> SUFFICES ASSUME NEW u \in Task
                 PROVE  fate'[u] = "queued" <=> \E i \in 1..Len(tasks') : tasks'[i] = u
      BY DEF QueuedFate
    <3>1. CASE u = t
      <4>1. Len(tasks) + 1 \in 1..Len(tasks')
        BY <2>2
      <4> QED  BY <1>0, <2>1, <2>2, <3>1, <4>1
    <3>2. CASE u # t
      <4>1. fate'[u] = fate[u]
        BY <1>0, <2>1, <3>2
      <4>2. \A i \in 1..Len(tasks') : tasks'[i] = u <=> (i \in 1..Len(tasks) /\ tasks[i] = u)
        BY <2>2, <3>2
      <4>3. \A i \in 1..Len(tasks) : i \in 1..Len(tasks')
        BY <2>2
      <4> QED  BY <1>a, <4>1, <4>2, <4>3 DEF QueuedFate
    <3> QED  BY <3>1, <3>2
  <2>6. RunningTask' /\ RunningFate' /\ RunnersDistinct'
    BY <1>0, <1>a, <2>1 DEF RunningTask, RunningFate, RunnersDistinct
  <2> QED  BY <2>4, <2>5, <2>6 DEF OwnInv
<1>4. ASSUME NEW c \in Submitter, NEW t \in Task, EnqueueRefused(c, t)
      PROVE  OwnInv'
  <2>1. /\ fate[t] = "new" /\ fate' = [fate EXCEPT ![t] = "refused"]
        /\ tasks' = tasks /\ wpc' = wpc /\ running' = running
    BY <1>4 DEF EnqueueRefused
  <2> QED
    BY <1>0, <1>a, <2>1
       DEF OwnInv, QueuedFate, QueueDistinct, RunningTask, RunningFate, RunnersDistinct
<1> QED  BY <1>1, <1>2, <1>3, <1>4, OtherSteps, OwnKept DEF TaskMove

(* No accepted task is lost, duplicated or run by two workers. *)
THEOREM TasksOwned == Spec => []TaskOwnership
<1>1. Init => TypeInv /\ OwnInv
  BY TypeInvInit, OwnInit
<1>2. (TypeInv /\ OwnInv) /\ [Next]_vars => (TypeInv /\ OwnInv)'
  BY TypeInvStep, OwnStep
<1> QED  BY <1>1, <1>2, OwnSuffices, PTL DEF Spec

-----------------------------------------------------------------------------
(* The end of waitForCompletion(). *)

LEMMA WaitStep ==
  ASSUME TypeInv, OwnInv, [Next]_vars,
         NEW c \in Waiter, cpc[c] = "waittest", cpc'[c] = "idle"
  PROVE  \A t \in Task : fate[t] \notin {"queued", "running"}
<1>0. TypeOK /\ ActiveCount
  BY DEF TypeInv
<1>1. c \in Caller /\ c # Stopper
  BY ThreadPoolAssumption DEF Caller
<1>2. WaitTest(c)
  <2> USE <1>0, <1>1 DEF TypeOK
  <2>1. ASSUME NEW w \in WorkerId, WorkerStep(w) PROVE FALSE
    BY <2>1
       DEF WorkerStep, WorkerSleep, WorkerExit, WorkerPause, WorkerTake, WorkerPauseTest,
           WorkerDone, WokenCallers
  <2>2. ASSUME NEW d \in Caller, NotifyOne(d) \/ ResumeNotify(d) PROVE FALSE
    BY <2>2 DEF NotifyOne, ResumeNotify, WokenCallers
  <2>3. ASSUME NEW d \in Caller, WaitTest(d) PROVE WaitTest(c)
    BY <2>3 DEF WaitTest
  <2>4. ASSUME Call PROVE FALSE
    BY <2>4
       DEF Call, Enqueue, EnqueueRefused, Pause, Resume, WaitForCompletion, ResizeGrow,
           ResizeShrink, Shutdown
  <2>5. ASSUME ShutdownStep \/ SpuriousWakeup \/ UNCHANGED vars PROVE FALSE
    BY <2>5
       DEF ShutdownStep, ShutdownNotify, Join, ShutdownReturn, SpuriousWakeup, CallersAt, vars
  <2> QED  BY <2>1, <2>2, <2>3, <2>4, <2>5 DEF Next, CallerStep
<1>3. Completed
  BY <1>0, <1>1, <1>2 DEF WaitTest, TypeOK
<1>4. WorkersAt("run") = {}
  BY <1>0, <1>3, WorkersFinite, FS_EmptySet DEF Completed, ActiveCount, WorkersAt
<1> QED
  BY <1>3, <1>4 DEF Completed, OwnInv, QueuedFate, RunningFate, WorkersAt

(* waitForCompletion() returns only when every task accepted so far is done:
   no task escapes both the queue and the count of active threads. *)
THEOREM WaitIsExact == Spec => WaitMeansDone
<1> DEFINE A == \A c \in Waiter : (cpc[c] = "waittest" /\ cpc'[c] = "idle")
                  => \A t \in Task : fate[t] \notin {"queued", "running"}
<1>1. Init => TypeInv /\ OwnInv
  BY TypeInvInit, OwnInit
<1>2. (TypeInv /\ OwnInv) /\ [Next]_vars => (TypeInv /\ OwnInv)'
  BY TypeInvStep, OwnStep
<1>3. (TypeInv /\ OwnInv) /\ [Next]_vars => [A]_vars
  BY WaitStep
<1>4. Spec => [][A]_vars
  BY <1>1, <1>2, <1>3, PTL DEF Spec
<1> QED  BY <1>4 DEF WaitMeansDone

-----------------------------------------------------------------------------
(* The threads, the mutex and the condition variables implement TaskPool. *)

LEMMA RefineInit == Init => Pool!Init
<1> SUFFICES ASSUME Init PROVE Pool!Init
  OBVIOUS
<1>1. Executing = {}
  BY DEF Init, Executing, WorkersAt
<1> QED  BY <1>1 DEF Init, Pool!Init

LEMMA StopStays == [Next]_vars => stop' = stop \/ stop' = TRUE
  BY DEF Next, WorkerStep, WorkerSleep, WorkerExit, WorkerPause, WorkerTake, WorkerPauseTest,
         WorkerDone, CallerStep, NotifyOne, ResumeNotify, WaitTest, ShutdownStep,
         ShutdownNotify, Join, ShutdownReturn, Call, Enqueue, EnqueueRefused, Pause, Resume,
         WaitForCompletion, ResizeGrow, ResizeShrink, Shutdown, SpuriousWakeup, vars

LEMMA NewIsFresh ==
  ASSUME TypeInv, OwnInv, NEW t \in Task, fate[t] = "new" PROVE Pool!Fresh(t)
<1>1. Queued = {u \in Task : fate[u] = "queued"} /\ Executing = {u \in Task : fate[u] = "running"}
  BY OwnSuffices DEF TaskOwnership
<1>2. Pool!Pending = Queued
  BY DEF Pool!Pending, Queued, TypeInv, TypeOK
<1> QED  BY <1>1, <1>2 DEF Pool!Fresh

LEMMA RefineStep ==
  TypeInv /\ OwnInv /\ OwnInv' /\ TypeInv' /\ [Next]_vars => [Pool!Next]_(Pool!vars)
<1> SUFFICES ASSUME TypeInv, TypeInv', OwnInv, OwnInv', [Next]_vars
             PROVE  [Pool!Next]_(Pool!vars)
  OBVIOUS
<1>0. TypeOK /\ TypeOK'
  BY DEF TypeInv
<1>a. /\ Executing = {u \in Task : fate[u] = "running"}
      /\ Executing' = {u \in Task : fate'[u] = "running"}
  <2>1. TaskOwnership /\ TaskOwnership'
    BY OwnSuffices, PTL
  <2> QED  BY <2>1 DEF TaskOwnership
<1>1. CASE NoTaskMoves
  <2>1. Executing' = Executing
    BY <1>1, <1>a DEF NoTaskMoves
  <2>2. CASE stop' = stop
    BY <1>1, <2>1, <2>2 DEF NoTaskMoves, Pool!vars
  <2>3. CASE stop' = TRUE
    BY <1>1, <2>1, <2>3 DEF NoTaskMoves, Pool!Next, Pool!Close
  <2> QED  BY <2>2, <2>3, StopStays
<1>2. ASSUME NEW w \in WorkerId, WorkerTake(w)
      PROVE  Pool!Start
  <2> DEFINE h == Head(tasks)
  <2>1. /\ tasks # <<>> /\ tasks' = Tail(tasks) /\ h \in Task /\ stop' = stop
        /\ fate' = [fate EXCEPT ![h] = "running"]
    BY <1>0, <1>2 DEF WorkerTake, Popped, TypeOK
  <2>2. fate[h] = "queued"
    BY <1>0, <2>1 DEF TypeOK, OwnInv, QueuedFate
  <2>3. \A u \in Task : fate'[u] = IF u = h THEN "running" ELSE fate[u]
    BY <1>0, <2>1 DEF TypeOK
  <2>4. /\ Executing' = Executing \cup {h}
        /\ {u \in Task : fate'[u] = "done"} = {u \in Task : fate[u] = "done"}
        /\ {u \in Task : fate'[u] = "refused"} = {u \in Task : fate[u] = "refused"}
    BY <1>a, <2>1, <2>2, <2>3
  <2> QED  BY <2>1, <2>4 DEF Pool!Start
<1>3. ASSUME NEW w \in WorkerId, WorkerDone(w)
      PROVE  \E t \in Task : Pool!Finish(t)
  <2> DEFINE t == running[w]
  <2>1. /\ wpc[w] = "run" /\ tasks' = tasks /\ stop' = stop
        /\ fate' = [fate EXCEPT ![t] = "done"]
    BY <1>3 DEF WorkerDone
  <2>2. t \in Task /\ fate[t] = "running"
    BY <2>1 DEF OwnInv, RunningTask, RunningFate
  <2>3. \A u \in Task : fate'[u] = IF u = t THEN "done" ELSE fate[u]
    BY <1>0, <2>1 DEF TypeOK
  <2>4. /\ t \in Executing /\ Executing' = Executing \ {t}
        /\ {u \in Task : fate'[u] = "done"} = {u \in Task : fate[u] = "done"} \cup {t}
        /\ {u \in Task : fate'[u] = "refused"} = {u \in Task : fate[u] = "refused"}
    BY <1>a, <2>2, <2>3
  <2> QED  BY <2>1, <2>2, <2>4 DEF Pool!Finish
<1>4. ASSUME NEW c \in Submitter, NEW t \in Task, Enqueue(c, t)
      PROVE  Pool!Submit(t)
  <2>1. /\ fate[t] = "new" /\ ~stop /\ tasks' = Append(tasks, t) /\ stop' = stop
        /\ fate' = [fate EXCEPT ![t] = "queued"]
    BY <1>4 DEF Enqueue, Accepts
  <2>2. \A u \in Task : fate'[u] = IF u = t THEN "queued" ELSE fate[u]
    BY <1>0, <2>1 DEF TypeOK
  <2>3. /\ Executing' = Executing
        /\ {u \in Task : fate'[u] = "done"} = {u \in Task : fate[u] = "done"}
        /\ {u \in Task : fate'[u] = "refused"} = {u \in Task : fate[u] = "refused"}
    BY <1>a, <2>1, <2>2
  <2> QED  BY <2>1, <2>3, NewIsFresh DEF Pool!Submit
<1>5. ASSUME NEW c \in Submitter, NEW t \in Task, EnqueueRefused(c, t)
      PROVE  Pool!Refuse(t)
  <2>1. /\ fate[t] = "new" /\ stop /\ tasks' = tasks /\ stop' = stop
        /\ fate' = [fate EXCEPT ![t] = "refused"]
    BY <1>5 DEF EnqueueRefused, Accepts
  <2>2. \A u \in Task : fate'[u] = IF u = t THEN "refused" ELSE fate[u]
    BY <1>0, <2>1 DEF TypeOK
  <2>3. /\ Executing' = Executing
        /\ {u \in Task : fate'[u] = "done"} = {u \in Task : fate[u] = "done"}
        /\ {u \in Task : fate'[u] = "refused"} = {u \in Task : fate[u] = "refused"} \cup {t}
    BY <1>a, <2>1, <2>2
  <2> QED  BY <2>1, <2>3, NewIsFresh DEF Pool!Refuse
<1> QED  BY <1>1, <1>2, <1>3, <1>4, <1>5, OtherSteps DEF TaskMove, Pool!Next

(* The pool of threads implements the promise TaskPool makes: every accepted
   task is started once, in order, and finished once, and none is accepted
   after shutdown() has set stop. *)
THEOREM PoolImplementsTaskPool == Spec => ImplementsTaskPool
<1>1. Init => TypeInv /\ OwnInv
  BY TypeInvInit, OwnInit
<1>2. (TypeInv /\ OwnInv) /\ [Next]_vars => (TypeInv /\ OwnInv)'
  BY TypeInvStep, OwnStep
<1> QED
  BY <1>1, <1>2, RefineInit, RefineStep, PTL DEF Spec, ImplementsTaskPool, Pool!Spec

-----------------------------------------------------------------------------
(* Wakeups.  While nobody has called pause(), every task in the queue is
   matched by a worker about to look or by a notify_one() not yet made. *)

NotPaused == ~paused
NotifiersSubmit == CallersAt("notify") \subseteq Submitter
WakeInv == NotPaused /\ NotifiersSubmit /\ NoStrandedTask

Testing == WorkersAt("test")
Notifying == CallersAt("notify")

(* Neither set loses an element, no worker falls asleep, no task arrives. *)
SlackGrows ==
  /\ tasks' = tasks
  /\ Testing \subseteq Testing'
  /\ Notifying \subseteq Notifying'
  /\ WorkersAt("asleep")' \subseteq WorkersAt("asleep")

LEMMA Finiteness ==
  ASSUME NotifiersSubmit
  PROVE  /\ IsFiniteSet(Testing) /\ Cardinality(Testing) \in Nat
         /\ IsFiniteSet(Notifying) /\ Cardinality(Notifying) \in Nat
<1>1. IsFiniteSet(Testing) /\ Cardinality(Testing) \in Nat
  BY WorkersFinite DEF Testing, WorkersAt
<1>2. IsFiniteSet(Notifying) /\ Cardinality(Notifying) \in Nat
  BY ThreadPoolAssumption, FS_Subset, FS_CardinalityType DEF Notifying, NotifiersSubmit
<1> QED  BY <1>1, <1>2

LEMMA SlackKept ==
  ASSUME TypeInv, WakeInv, NotifiersSubmit', SlackGrows PROVE NoStrandedTask'
<1>1. /\ IsFiniteSet(Testing) /\ Cardinality(Testing) \in Nat
      /\ IsFiniteSet(Notifying) /\ Cardinality(Notifying) \in Nat
  BY Finiteness DEF WakeInv
<1>2. /\ IsFiniteSet(Testing') /\ Cardinality(Testing') \in Nat
  BY WorkersFinite DEF Testing, WorkersAt
<1>3. /\ IsFiniteSet(Notifying') /\ Cardinality(Notifying') \in Nat
  BY ThreadPoolAssumption, FS_Subset, FS_CardinalityType DEF Notifying, NotifiersSubmit
<1>4. Cardinality(Testing) <= Cardinality(Testing') /\ Cardinality(Notifying) <= Cardinality(Notifying')
  BY <1>2, <1>3, FS_Subset DEF SlackGrows
<1>5. Len(tasks) \in Nat
  BY DEF TypeInv, TypeOK
<1>6. WorkersAt("asleep") # {} => Len(tasks) <= Cardinality(Testing) + Cardinality(Notifying)
  BY DEF WakeInv, NoStrandedTask, Testing, Notifying
<1>7. WorkersAt("asleep")' # {} => Len(tasks') <= Cardinality(Testing') + Cardinality(Notifying')
  BY <1>1, <1>2, <1>3, <1>4, <1>5, <1>6 DEF SlackGrows
<1> QED  BY <1>7 DEF NoStrandedTask, Testing, Notifying

LEMMA WakeInit == Init => WakeInv
<1> SUFFICES ASSUME Init PROVE WakeInv
  OBVIOUS
<1>1. WorkersAt("asleep") = {} /\ CallersAt("notify") = {}
  BY DEF Init, WorkersAt, CallersAt
<1> QED  BY <1>1 DEF Init, WakeInv, NotPaused, NotifiersSubmit, NoStrandedTask

LEMMA WakeStep == TypeInv /\ TypeInv' /\ WakeInv /\ NotPaused' /\ [Next]_vars => WakeInv'
<1> SUFFICES ASSUME TypeInv, TypeInv', WakeInv, NotPaused', [Next]_vars PROVE WakeInv'
  OBVIOUS
<1>0. TypeOK /\ TypeOK' /\ Born
  BY DEF TypeInv
<1>a. ~paused /\ NotifiersSubmit /\ Len(tasks) \in Nat
  BY <1>0 DEF WakeInv, NotPaused, TypeOK
<1>b. NotPaused'
  OBVIOUS
<1> USE DEF TypeOK
<1>c. NotifiersSubmit'
  <2>1. ASSUME NEW c \in Caller, cpc'[c] = "notify", cpc[c] # "notify" PROVE c \in Submitter
    <3>1. ASSUME NEW w \in WorkerId, WorkerStep(w) PROVE FALSE
      BY <1>0, <2>1, <3>1
         DEF WorkerStep, WorkerSleep, WorkerExit, WorkerPause, WorkerTake, WorkerPauseTest,
             WorkerDone, WokenCallers
    <3>2. ASSUME NEW d \in Caller, CallerStep(d) PROVE FALSE
      BY <1>0, <2>1, <3>2 DEF CallerStep, NotifyOne, ResumeNotify, WaitTest, WokenCallers
    <3>3. ASSUME ShutdownStep \/ SpuriousWakeup \/ UNCHANGED vars PROVE FALSE
      BY <1>0, <2>1, <3>3
         DEF ShutdownStep, ShutdownNotify, Join, ShutdownReturn, SpuriousWakeup, CallersAt, vars
    <3>4. ASSUME NEW d \in Submitter, NEW t \in Task, Enqueue(d, t) \/ EnqueueRefused(d, t)
          PROVE  c \in Submitter
      BY <1>0, <2>1, <3>4 DEF Enqueue, EnqueueRefused
    <3>5. ASSUME NEW d \in Caller, Pause(d) \/ Resume(d) \/ WaitForCompletion(d) PROVE FALSE
      BY <1>0, <2>1, <3>5 DEF Pause, Resume, WaitForCompletion
    <3>6. ASSUME NEW d \in Resizer, NEW n \in ResizeTo, ResizeGrow(d, n) \/ ResizeShrink(d, n)
          PROVE  FALSE
      BY <1>0, <2>1, <3>6 DEF ResizeGrow, ResizeShrink
    <3>7. ASSUME Shutdown PROVE FALSE
      BY <1>0, <2>1, <3>7 DEF Shutdown
    <3> QED
      BY <3>1, <3>2, <3>3, <3>4, <3>5, <3>6, <3>7 DEF Next, Call, Caller
  <2> QED  BY <1>a, <2>1 DEF NotifiersSubmit, CallersAt
<1>d. /\ IsFiniteSet(Testing) /\ Cardinality(Testing) \in Nat
      /\ IsFiniteSet(Notifying) /\ Cardinality(Notifying) \in Nat
  BY <1>a, Finiteness
<1>e. WorkersAt("asleep") # {} => Len(tasks) <= Cardinality(Testing) + Cardinality(Notifying)
  BY DEF WakeInv, NoStrandedTask, Testing, Notifying
<1>f. ASSUME SlackGrows PROVE WakeInv'
  BY <1>b, <1>c, <1>f, SlackKept DEF WakeInv
<1>1. ASSUME NEW w \in WorkerId, WorkerSleep(w) \/ WorkerExit(w)
      PROVE  WakeInv'
  <2>1. tasks' = <<>> /\ Len(tasks') = 0
    BY <1>a, <1>1 DEF WorkerSleep, WakePredicate, WorkerExit, MayLeave
  <2>2. Cardinality(WorkersAt("test")') \in Nat /\ Cardinality(CallersAt("notify")') \in Nat
    BY <1>c, WorkersFinite, ThreadPoolAssumption, FS_Subset, FS_CardinalityType
       DEF WorkersAt, NotifiersSubmit
  <2> QED  BY <1>b, <1>c, <2>1, <2>2 DEF WakeInv, NoStrandedTask
<1>2. ASSUME NEW w \in WorkerId, WorkerTake(w)
      PROVE  WakeInv'
  <2>1. tasks # <<>> /\ Len(tasks') = Len(tasks) - 1
    BY <1>0, <1>2 DEF WorkerTake, Popped
  <2>2. w \in Testing /\ Testing' = Testing \ {w} /\ Notifying' = Notifying
    BY <1>0, <1>2 DEF WorkerTake, Testing, Notifying, WorkersAt, CallersAt
  <2>3. Cardinality(Testing') = Cardinality(Testing) - 1
    BY <1>d, <2>2, FS_RemoveElement
  <2>4. WorkersAt("asleep")' = WorkersAt("asleep")
    BY <1>0, <1>2 DEF WorkerTake, WorkersAt
  <2>5. WorkersAt("asleep")' # {} => Len(tasks') <= Cardinality(Testing') + Cardinality(Notifying')
    BY <1>a, <1>d, <1>e, <2>1, <2>2, <2>3, <2>4
  <2> QED  BY <1>b, <1>c, <2>5 DEF WakeInv, NoStrandedTask, Testing, Notifying
<1>3. ASSUME NEW w \in WorkerId, WorkerDone(w)
      PROVE  WakeInv'
  BY <1>0, <1>3, <1>f
     DEF WorkerDone, WokenWorkers, WokenCallers, SlackGrows, Testing, Notifying, WorkersAt, CallersAt
<1>4. ASSUME NEW w \in WorkerId, WorkerPause(w) \/ WorkerPauseTest(w)
      PROVE  WakeInv'
  BY <1>0, <1>a, <1>4, <1>f
     DEF WorkerPause, WorkerPauseTest, SlackGrows, Testing, Notifying, WorkersAt, CallersAt
<1>5. ASSUME NEW c \in Submitter, NEW t \in Task, Enqueue(c, t)
      PROVE  WakeInv'
  <2>1. Len(tasks') = Len(tasks) + 1
    BY <1>0, <1>5 DEF Enqueue
  <2>2. c \notin Notifying /\ Notifying' = Notifying \cup {c} /\ Testing' = Testing
    BY <1>0, <1>5 DEF Enqueue, Testing, Notifying, WorkersAt, CallersAt, Caller
  <2>3. Cardinality(Notifying') = Cardinality(Notifying) + 1
    BY <1>d, <2>2, FS_AddElement
  <2>4. WorkersAt("asleep")' = WorkersAt("asleep")
    BY <1>5 DEF Enqueue, WorkersAt
  <2>5. WorkersAt("asleep")' # {} => Len(tasks') <= Cardinality(Testing') + Cardinality(Notifying')
    BY <1>a, <1>d, <1>e, <2>1, <2>2, <2>3, <2>4
  <2> QED  BY <1>b, <1>c, <2>5 DEF WakeInv, NoStrandedTask, Testing, Notifying
<1>6. ASSUME NEW c \in Caller, NotifyOne(c)
      PROVE  WakeInv'
  <2>1. CASE WorkersAt("asleep") = {}
    <3>1. WorkersAt("asleep")' = {}
      BY <1>6, <2>1 DEF NotifyOne, OneWoken, WorkersAt
    <3> QED  BY <1>b, <1>c, <3>1 DEF WakeInv, NoStrandedTask
  <2>2. CASE WorkersAt("asleep") # {}
    <3>1. PICK w \in WorkersAt("asleep") : wpc' = [wpc EXCEPT ![w] = "test"]
      BY <1>6, <2>2 DEF NotifyOne, OneWoken
    <3>2. /\ w \notin Testing /\ Testing' = Testing \cup {w}
          /\ c \in Notifying /\ Notifying' = Notifying \ {c}
          /\ tasks' = tasks
      BY <1>0, <1>6, <3>1 DEF NotifyOne, Testing, Notifying, WorkersAt, CallersAt
    <3>3. Cardinality(Testing') = Cardinality(Testing) + 1
      BY <1>d, <3>2, FS_AddElement
    <3>4. Cardinality(Notifying') = Cardinality(Notifying) - 1
      BY <1>d, <3>2, FS_RemoveElement
    <3>5. Len(tasks') <= Cardinality(Testing') + Cardinality(Notifying')
      BY <1>a, <1>d, <1>e, <2>2, <3>2, <3>3, <3>4
    <3> QED  BY <1>b, <1>c, <3>5 DEF WakeInv, NoStrandedTask, Testing, Notifying
  <2> QED  BY <2>1, <2>2
<1>7. ASSUME NEW c \in Caller, ResumeNotify(c) \/ WaitTest(c)
      PROVE  WakeInv'
  BY <1>0, <1>7, <1>f
     DEF ResumeNotify, WaitTest, WokenWorkers, WokenCallers, SlackGrows, Testing, Notifying,
         WorkersAt, CallersAt
<1>8. ASSUME NEW c \in Submitter, NEW t \in Task, EnqueueRefused(c, t)
      PROVE  WakeInv'
  BY <1>0, <1>8, <1>f
     DEF EnqueueRefused, SlackGrows, Testing, Notifying, WorkersAt, CallersAt
<1>9. ASSUME NEW c \in Waiter, WaitForCompletion(c)
      PROVE  WakeInv'
  BY <1>0, <1>9, <1>f DEF WaitForCompletion, SlackGrows, Testing, Notifying, WorkersAt, CallersAt
<1>10. ASSUME NEW c \in Resizer, NEW n \in ResizeTo, ResizeGrow(c, n)
       PROVE  WakeInv'
  <2>1. \A w \in WorkerId : wpc'[w] = IF w \in (size + 1)..n THEN "test" ELSE wpc[w]
    BY <1>10 DEF ResizeGrow
  <2>2. Testing \subseteq Testing' /\ WorkersAt("asleep")' \subseteq WorkersAt("asleep")
    BY <2>1 DEF Testing, WorkersAt
  <2>3. tasks' = tasks /\ Notifying \subseteq Notifying'
    BY <1>0, <1>10 DEF ResizeGrow, Notifying, CallersAt
  <2> QED  BY <1>f, <2>2, <2>3 DEF SlackGrows
<1>11. ASSUME NEW c \in Resizer, NEW n \in ResizeTo, ResizeShrink(c, n)
       PROVE  WakeInv'
  BY <1>0, <1>11, <1>f DEF ResizeShrink, SlackGrows, Testing, Notifying, WorkersAt, CallersAt
<1>12. CASE Shutdown \/ Join \/ ShutdownReturn
  BY <1>0, <1>12, <1>f
     DEF Shutdown, Join, ShutdownReturn, SlackGrows, Testing, Notifying, WorkersAt, CallersAt
<1>13. CASE ShutdownNotify
  <2>1. WorkersAt("asleep")' = {}
    BY <1>0, <1>13 DEF ShutdownNotify, AllWoken, WorkersAt
  <2> QED  BY <1>b, <1>c, <2>1 DEF WakeInv, NoStrandedTask
<1>14. CASE SpuriousWakeup
  BY <1>0, <1>14, <1>f DEF SpuriousWakeup, SlackGrows, Testing, Notifying, WorkersAt, CallersAt
<1>15. CASE UNCHANGED vars
  BY <1>15, <1>f DEF vars, SlackGrows, Testing, Notifying, WorkersAt, CallersAt
<1>16. ASSUME NEW c \in Pauser, Resume(c)
       PROVE  WakeInv'
  BY <1>0, <1>16, <1>f DEF Resume, SlackGrows, Testing, Notifying, WorkersAt, CallersAt
<1>17. ASSUME NEW c \in Pauser PROVE ~Pause(c)
  BY <1>b DEF Pause, NotPaused
<1> QED
  BY <1>1, <1>2, <1>3, <1>4, <1>5, <1>6, <1>7, <1>8, <1>9, <1>10, <1>11, <1>12, <1>13,
     <1>14, <1>15, <1>16, <1>17
     DEF Next, WorkerStep, CallerStep, ShutdownStep, Call, Caller

(* As long as nobody pauses the pool no wakeup is lost: a worker sleeps only
   while every queued task already has a worker or a notification on its way. *)
THEOREM NoLostWakeup == Spec => NoWakeupLost
<1>1. Init => TypeInv /\ WakeInv
  BY TypeInvInit, WakeInit
<1>2. (TypeInv /\ WakeInv) /\ NotPaused' /\ [Next]_vars => (TypeInv /\ WakeInv)'
  BY TypeInvStep, WakeStep
<1>3. WakeInv => NoStrandedTask
  BY DEF WakeInv
<1>4. NotPaused <=> ~paused
  BY DEF NotPaused
<1> QED  BY <1>1, <1>2, <1>3, <1>4, PTL DEF Spec, NoWakeupLost
=============================================================================
