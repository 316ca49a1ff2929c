---------------------------- MODULE ServerSizing ----------------------------
(***************************************************************************)
(* How the server sizes its thread pool: adjustThreadPoolSize(), called by *)
(* the main thread before it enqueues a connection and by each worker      *)
(* after its connection has ended.                                         *)
(*                                                                         *)
(* The function asks the pool twice and tells it once, and lets go of      *)
(* queueMutex in between: every other adjustment, enqueue() and pop may    *)
(* come between two of its steps.  Each of them is one critical section of *)
(* ThreadPool.  Waking workers is left to ThreadPool.NoWakeupLost: here an *)
(* idle worker takes a task when it is scheduled.                          *)
(***************************************************************************)
EXTENDS Integers, Sequences, FiniteSets

CONSTANTS
  InitialThreads,  \* threadPool(10), and the lower bound of a shrink
  MaxConnections   \* bound: connections accepted in all

ASSUME ServerSizingAssumption ==
  /\ InitialThreads \in Nat \ {0}
  /\ MaxConnections \in Nat

Connection == 1..MaxConnections   \* in the order of accept()
Main == 0                         \* the main thread
Adjuster == {Main} \cup Connection  \* a connection stands for its worker

VARIABLES
  at,                 \* how far each connection has come
  accepted,           \* the connections accepted so far
  activeConnections,  \* std::atomic<size_t> activeConnections
  overloaded,         \* history: activeConnections was above InitialThreads
  queue,              \* tasks of the pool: the connections that wait
  size,               \* workers.size() of the pool
  apc,                \* where each thread is in adjustThreadPoolSize()
  queueSize,          \* its local variables
  currentSize

vars == <<at, accepted, activeConnections, overloaded, queue, size, apc, queueSize, currentSize>>
localVars == <<queueSize, currentSize>>
connVars == <<at, accepted, activeConnections, overloaded>>

(* "hung": in the enqueue() that resize() calls while it holds the mutex of
   enqueue() (ThreadPool.ResizeShrink). *)
AdjustState == {"idle", "queuesize", "size", "resize", "enqueue", "hung"}
Progress == {"absent", "accepted", "queued", "served", "ending", "done"}

TypeOK ==
  /\ at \in [Connection -> Progress]
  /\ accepted \in 0..MaxConnections
  /\ activeConnections \in 0..MaxConnections
  /\ overloaded \in BOOLEAN
  /\ queue \in Seq(Connection)
  /\ size \in Nat
  /\ apc \in [Adjuster -> AdjustState]
  /\ queueSize \in [Adjuster -> 0..MaxConnections]
  /\ currentSize \in [Adjuster -> Nat]

Init ==
  /\ at = [c \in Connection |-> "absent"]
  /\ accepted = 0
  /\ activeConnections = 0
  /\ overloaded = FALSE
  /\ queue = <<>>
  /\ size = InitialThreads
  /\ apc = [t \in Adjuster |-> "idle"]
  /\ queueSize = [t \in Adjuster |-> 0]
  /\ currentSize = [t \in Adjuster |-> 0]

Hung == \E t \in Adjuster : apc[t] = "hung"
Busy == {c \in Connection : at[c] \in {"served", "ending"}}

-----------------------------------------------------------------------------
(* adjustThreadPoolSize() *)

GetQueueSize(t) ==
  /\ apc[t] = "queuesize" /\ ~Hung
  /\ queueSize' = [queueSize EXCEPT ![t] = Len(queue)]
  /\ apc' = [apc EXCEPT ![t] = "size"]
  /\ UNCHANGED <<connVars, queue, size, currentSize>>

GetSize(t) ==
  /\ apc[t] = "size" /\ ~Hung
  /\ currentSize' = [currentSize EXCEPT ![t] = size]
  /\ apc' = [apc EXCEPT ![t] = "resize"]
  /\ UNCHANGED <<connVars, queue, size, queueSize>>

Larger(m, n) == IF m < n THEN n ELSE m
Smaller(m, n) == IF m < n THEN m ELSE n

(* Mutants: the pool grows one longer queue too late; the lower bound of a
   shrink is forgotten. *)
GrowsLate(q, s) ==
  IF q > s + 1 THEN Smaller(s * 2, q + s)
  ELSE IF q < s \div 2 THEN Larger(s \div 2, InitialThreads) ELSE s
ShrinksToNothing(q, s) ==
  IF q > s THEN Smaller(s * 2, q + s) ELSE IF q < s \div 2 THEN s \div 2 ELSE s
NewSize(q, s) ==
  IF q > s THEN Smaller(s * 2, q + s)
  ELSE IF q < s \div 2 THEN Larger(s \div 2, InitialThreads) ELSE s

(* The main thread goes on to enqueue(); a worker comes to the end of its
   task and is free again.  The local variables go out of scope. *)
Adjusted(t) ==
  /\ apc' = [apc EXCEPT ![t] = IF t = Main THEN "enqueue" ELSE "idle"]
  /\ at' = IF t = Main THEN at ELSE [at EXCEPT ![t] = "done"]
  /\ queueSize' = [queueSize EXCEPT ![t] = 0]
  /\ currentSize' = [currentSize EXCEPT ![t] = 0]

(* resize() to as many or more workers. *)
Resize(t) ==
  /\ apc[t] = "resize" /\ ~Hung
  /\ NewSize(queueSize[t], currentSize[t]) >= size
  /\ size' = NewSize(queueSize[t], currentSize[t])
  /\ Adjusted(t)
  /\ UNCHANGED <<accepted, activeConnections, overloaded, queue>>

(* resize() to fewer workers never returns, and keeps the mutex. *)
ResizeHangs(t) ==
  /\ apc[t] = "resize" /\ ~Hung
  /\ NewSize(queueSize[t], currentSize[t]) < size
  /\ apc' = [apc EXCEPT ![t] = "hung"]
  /\ UNCHANGED <<connVars, queue, size, localVars>>

AdjustStep(t) == GetQueueSize(t) \/ GetSize(t) \/ Resize(t) \/ ResizeHangs(t)

-----------------------------------------------------------------------------
(* handleNewConnection() *)

(* accept() and ++activeConnections; the connections of a failed epoll_ctl()
   do not come this far. *)
Accept ==
  /\ apc[Main] = "idle"
  /\ accepted < MaxConnections
  /\ accepted' = accepted + 1
  /\ at' = [at EXCEPT ![accepted + 1] = "accepted"]
  /\ activeConnections' = activeConnections + 1
  /\ overloaded' = (overloaded \/ activeConnections + 1 > InitialThreads)
  /\ apc' = [apc EXCEPT ![Main] = "queuesize"]
  /\ UNCHANGED <<queue, size, localVars>>

Enqueue ==
  /\ apc[Main] = "enqueue" /\ ~Hung
  /\ queue' = Append(queue, accepted)
  /\ at' = [at EXCEPT ![accepted] = "queued"]
  /\ apc' = [apc EXCEPT ![Main] = "idle"]
  /\ UNCHANGED <<accepted, activeConnections, overloaded, size, localVars>>

-----------------------------------------------------------------------------
(* The workers *)

(* Mutant: a worker whose connection has ended is not used again. *)
WorkerLost == Cardinality({c \in Connection : at[c] \in {"served", "ending", "done"}}) < size
WorkerIdle == Cardinality(Busy) < size

Take ==
  /\ queue # <<>> /\ ~Hung
  /\ WorkerIdle
  /\ at' = [at EXCEPT ![Head(queue)] = "served"]
  /\ queue' = Tail(queue)
  /\ UNCHANGED <<accepted, activeConnections, overloaded, size, apc, localVars>>

(* Mutant: the connection is counted out twice. *)
CountsTwice == activeConnections - 2
CountsOut == activeConnections - 1

(* connectionHandler() has returned: --activeConnections. *)
SessionEnds(c) ==
  /\ at[c] = "served"
  /\ at' = [at EXCEPT ![c] = "ending"]
  /\ activeConnections' = CountsOut
  /\ apc' = [apc EXCEPT ![c] = "queuesize"]
  /\ UNCHANGED <<accepted, overloaded, queue, size, localVars>>

(* getConnection() has thrown: the rest of the task is skipped. *)
SessionThrows(c) ==
  /\ at[c] = "served" /\ ~Hung
  /\ at' = [at EXCEPT ![c] = "done"]
  /\ UNCHANGED <<accepted, activeConnections, overloaded, queue, size, apc, localVars>>

Next ==
  \/ Accept \/ Enqueue \/ Take
  \/ \E t \in Adjuster : AdjustStep(t)
  \/ \E c \in Connection : SessionEnds(c) \/ SessionThrows(c)

Spec == Init /\ [][Next]_vars

(* The threads of the server are scheduled; clients owe neither a connection
   nor the end of a session. *)
Fairness ==
  /\ WF_vars(Enqueue)
  /\ WF_vars(Take)
  /\ \A t \in Adjuster : WF_vars(AdjustStep(t))

FairSpec == Spec /\ Fairness

-----------------------------------------------------------------------------
(* What the sizing ensures. *)

(* A pool that serves no more connections at a time than it was built for
   keeps its size and never comes to the shrink it would not survive,
   although each thread decides on two answers that may be out of date. *)
SmallLoadNeverHangs == ~overloaded => (size = InitialThreads /\ ~Hung)

(* At most one connection more than the pool has workers waits for one:
   the pool has doubled before the queue gets longer. *)
WaitingBounded == Len(queue) <= size + 1

(* Once no session lasts for ever, every connection that waits gets a worker,
   unless the pool hangs in a shrink. *)
QueuedServed ==
  (\A c \in Connection : []<>(at[c] # "served"))
    => \A c \in Connection : at[c] = "queued" ~> (at[c] # "queued" \/ Hung)
=============================================================================
