---------------------------- MODULE EpollServer ----------------------------
(***************************************************************************)
(* Server of src/server-core: the main thread, which accepts connections,  *)
(* one connectionHandler() per connection in the thread pool, and the      *)
(* epoll instance they share.                                              *)
(*                                                                         *)
(* The main thread and every handler call epoll_wait() on the same epoll   *)
(* descriptor.  The kernel hands an edge-triggered event to one of them,   *)
(* and only the handler of the connection acts on it.  A connection is     *)
(* rearmed by the EPOLLOUT / EPOLLIN pair of epoll_ctl() calls around each *)
(* send (amilink.cpp); such pairs in a row have the effect of one.         *)
(*                                                                         *)
(* With fewer than ten clients each finds an idle worker in the pool of    *)
(* ten, adjustThreadPoolSize() leaves the pool as it is (ServerSizing),    *)
(* and the buffer of the main thread has room for every event.             *)
(***************************************************************************)
EXTENDS Integers, Sequences, FiniteSets

CONSTANTS
  Client,         \* the clients, each of which connects once
  Listener,       \* the listening socket sLink, among the descriptors
  Backlog,        \* the listen() backlog
  InitialEvents,  \* INITIAL_EVENTS of run(), and the threads of the pool
  MaxMessages,    \* bound: messages that wait in a socket
  MaxFaults       \* bound: calls that fail, of accept(), epoll_ctl(),
                  \* getConnection() and those of initialize()

ASSUME EpollServerAssumption ==
  /\ Listener \notin Client
  /\ IsFiniteSet(Client)
  /\ InitialEvents \in Nat
  /\ Cardinality(Client) < InitialEvents
  /\ Backlog \in Nat \ {0}
  /\ MaxMessages \in Nat
  /\ MaxFaults \in Nat

VARIABLES
  running,            \* bool running
  process,            \* whether the process lives
  mpc,                \* where the main thread is in run(), or how far start()
                      \* has come
  spc,                \* where the caller of stop() is
  backlog,            \* connections the kernel has ready for accept()
  at,                 \* how far the connection of each client has come
  inbox,              \* what each socket has received and nobody has read
  hungup,             \* the clients that closed their end
  ready,              \* the ready list of the epoll instance
  taken,              \* history: connections whose input event went to a
                      \* thread that is not their handler
  activeConnections,  \* std::atomic<size_t> activeConnections
  faults

netVars == <<backlog, inbox, hungup>>
vars == <<running, process, mpc, spc, netVars, at, ready, taken, activeConnections, faults>>

Message == {"request", "goodbye"}

(* "new": before start(); "unbound", "deaf": initialize() has failed, without
   or with a listening socket, and there is no main thread. *)
MainState == {"new", "unbound", "deaf", "test", "wait", "accept", "exited"}

(* "queued": the task is in the thread pool; "connect": the handler is in
   getConnection(); "reply", "bye", "heartbeat": it sends, and the descriptor
   waits for EPOLLOUT; "close": it has left its loop; "ended": the socket is
   closed and activeConnections not yet decremented; "abandoned":
   getConnection() threw. *)
Sending == {"reply", "bye", "heartbeat"}
Listening == {"queued", "connect", "wait", "read", "close", "abandoned"}
Progress == {"absent", "backlog", "ended", "done"} \cup Sending \cup Listening

At(s) == {c \in Client : at[c] = s}
Readable(c) == inbox[c] # <<>> \/ c \in hungup

TypeOK ==
  /\ running \in BOOLEAN
  /\ process \in {"up", "killed", "terminated", "aborted"}
  /\ mpc \in MainState
  /\ spc \in {"idle", "joining", "draining", "stopped"}
  /\ backlog \in Seq(Client)
  /\ Len(backlog) <= Backlog
  /\ at \in [Client -> Progress]
  /\ inbox \in [Client -> Seq(Message)]
  /\ hungup \subseteq Client
  /\ ready \subseteq Client \cup {Listener}
  /\ taken \subseteq Client
  /\ activeConnections \in 0..Cardinality(Client)
  /\ faults \in 0..MaxFaults

Init ==
  /\ running = FALSE
  /\ process = "up"
  /\ mpc = "new"
  /\ spc = "idle"
  /\ backlog = <<>>
  /\ at = [c \in Client |-> "absent"]
  /\ inbox = [c \in Client |-> <<>>]
  /\ hungup = {}
  /\ ready = {}
  /\ taken = {}
  /\ activeConnections = 0
  /\ faults = 0

-----------------------------------------------------------------------------
(* epoll, external: what each call does to the ready list *)

(* The entries epoll_wait() would report. *)
Reported ==
  {c \in ready \cap Client : at[c] \in Sending \/ Readable(c)}
    \cup (IF backlog # <<>> THEN ready \cap {Listener} ELSE {})

(* Mutant: the listener is registered with EPOLLET as the connections are. *)
EdgeTriggered == {}
(* sLink is registered with EPOLLIN alone: it stays on the list. *)
LevelTriggered == {Listener}

(* epoll_wait() of a thread that handles the connections `mine` returns the
   events of E. *)
Harvest(E, mine) ==
  /\ ready' = (ready \ E) \cup (E \cap LevelTriggered)
  /\ taken' = taken \cup {c \in E \cap Client : at[c] \in Listening /\ c \notin mine}

(* Input for c: an edge, if the descriptor waits for EPOLLIN. *)
Edge(c) ==
  IF at[c] \in Listening
  THEN ready' = ready \cup {c} /\ taken' = taken \ {c}
  ELSE UNCHANGED <<ready, taken>>

(* Mutant: the descriptor is not set back to EPOLLIN after a send. *)
NotRearmed(c) == ready \ {c}
(* EPOLL_CTL_ADD and EPOLL_CTL_MOD with EPOLLIN report what has come already. *)
Rearmed(c) == IF Readable(c) THEN ready \cup {c} ELSE ready \ {c}

ArmIn(c) ==
  /\ ready' = Rearmed(c)
  /\ taken' = taken \ {c}

(* EPOLL_CTL_MOD with EPOLLOUT: the socket can be written to. *)
ArmOut(c) ==
  /\ ready' = ready \cup {c}
  /\ taken' = taken \ {c}

Fault == faults < MaxFaults /\ faults' = faults + 1

-----------------------------------------------------------------------------
(* The clients, external *)

Connect(c) ==
  /\ mpc \notin {"new", "unbound"}
  /\ at[c] = "absent"
  /\ Len(backlog) < Backlog
  /\ at' = [at EXCEPT ![c] = "backlog"]
  /\ backlog' = Append(backlog, c)
  /\ ready' = ready \cup {Listener}
  /\ UNCHANGED <<running, process, mpc, spc, inbox, hungup, taken, activeConnections, faults>>

Connected(c) == at[c] \notin {"absent", "ended", "done"} /\ c \notin hungup

Send(c, m) ==
  /\ Connected(c)
  /\ Len(inbox[c]) < MaxMessages
  /\ inbox' = [inbox EXCEPT ![c] = Append(@, m)]
  /\ Edge(c)
  /\ UNCHANGED <<running, process, mpc, spc, backlog, hungup, at, activeConnections, faults>>

HangUp(c) ==
  /\ Connected(c)
  /\ hungup' = hungup \cup {c}
  /\ Edge(c)
  /\ UNCHANGED <<running, process, mpc, spc, backlog, inbox, at, activeConnections, faults>>

-----------------------------------------------------------------------------
(* start() and initialize() *)

(* serverInit() calls start() once; nobody starts a server that was stopped. *)
MayStart == mpc = "new" /\ spc = "idle"

(* The listener is registered and the main thread runs. *)
StartServer ==
  /\ MayStart
  /\ running' = TRUE
  /\ mpc' = "test"
  /\ UNCHANGED <<process, spc, netVars, at, ready, taken, activeConnections, faults>>

StartFails(state) ==
  /\ MayStart
  /\ Fault
  /\ mpc' = state
  /\ UNCHANGED <<running, process, spc, netVars, at, ready, taken, activeConnections>>

(* socket(), bind() or listen() fails. *)
ListenFails == StartFails("unbound")
(* fcntl(), epoll_create1() or epoll_ctl() fails: sLink goes on listening. *)
InitializeFails == StartFails("deaf")

-----------------------------------------------------------------------------
(* run() and handleNewConnection() *)

(* Mutant: the plain bool is read once, before the loop. *)
StillRunning == TRUE
RunningSeen == running

MainTest ==
  /\ mpc = "test"
  /\ mpc' = IF RunningSeen THEN "wait" ELSE "exited"
  /\ UNCHANGED <<running, process, spc, netVars, at, ready, taken, activeConnections, faults>>

(* The events of connections fall under "Handle other events or errors",
   which does nothing. *)
MainWait ==
  /\ mpc = "wait"
  /\ Reported # {}
  /\ Harvest(Reported, {})
  /\ mpc' = IF Listener \in Reported THEN "accept" ELSE "test"
  /\ UNCHANGED <<running, process, spc, netVars, at, activeConnections, faults>>

(* accept(), EPOLL_CTL_ADD, ++activeConnections, enqueue(), which throws in
   a pool that is shut down: nothing in run() catches it. *)
Accept ==
  /\ mpc = "accept"
  /\ backlog # <<>>
  /\ backlog' = Tail(backlog)
  /\ at' = [at EXCEPT ![Head(backlog)] = "queued"]
  /\ ArmIn(Head(backlog))
  /\ activeConnections' = activeConnections + 1
  /\ process' = IF spc \in {"draining", "stopped"} THEN "terminated" ELSE process
  /\ UNCHANGED <<running, mpc, spc, inbox, hungup, faults>>

(* epoll_ctl() fails: the connection is closed. *)
AcceptUnwatched ==
  /\ mpc = "accept"
  /\ backlog # <<>>
  /\ Fault
  /\ backlog' = Tail(backlog)
  /\ at' = [at EXCEPT ![Head(backlog)] = "done"]
  /\ UNCHANGED <<running, process, mpc, spc, inbox, hungup, ready, taken, activeConnections>>

(* accept() has nothing more, or fails: the loop ends either way. *)
AcceptEnds ==
  /\ mpc = "accept"
  /\ IF backlog = <<>> THEN faults' = faults ELSE Fault
  /\ mpc' = "test"
  /\ UNCHANGED <<running, process, spc, netVars, at, ready, taken, activeConnections>>

-----------------------------------------------------------------------------
(* connectionHandler() *)

(* A step of the handler of c that sends nothing and touches no counter. *)
Goes(c, from, to) ==
  /\ at[c] = from
  /\ at' = [at EXCEPT ![c] = to]
  /\ UNCHANGED <<running, process, mpc, spc, backlog, hungup, activeConnections>>

Start(c) == Goes(c, "queued", "connect") /\ UNCHANGED <<inbox, ready, taken, faults>>

GetConnection(c) == Goes(c, "connect", "wait") /\ UNCHANGED <<inbox, ready, taken, faults>>

(* The exception ends the task: the socket stays open and registered, and
   activeConnections is not decremented. *)
GetConnectionThrows(c) ==
  Goes(c, "connect", "abandoned") /\ Fault /\ UNCHANGED <<inbox, ready, taken>>

(* epoll_wait() with room for one event, of whatever descriptor. *)
WaitOwn(c) ==
  /\ c \in Reported
  /\ Goes(c, "wait", "read")
  /\ Harvest({c}, {c})
  /\ UNCHANGED <<inbox, faults>>

WaitOther(c) ==
  /\ at[c] = "wait"
  /\ \E e \in Reported \ {c} : Harvest({e}, {c})
  /\ UNCHANGED <<running, process, mpc, spc, netVars, at, activeConnections, faults>>

(* amilinkReadMessage() and the acknowledgement; a goodbye ends the loop. *)
Read(c) ==
  /\ inbox[c] # <<>>
  /\ Goes(c, "read", IF Head(inbox[c]) = "goodbye" THEN "bye" ELSE "reply")
  /\ inbox' = [inbox EXCEPT ![c] = Tail(@)]
  /\ ArmOut(c)
  /\ UNCHANGED faults

(* No message within the timeouts, but recent activity: a heartbeat. *)
ReadNothing(c) ==
  /\ inbox[c] = <<>>
  /\ Goes(c, "read", "heartbeat")
  /\ ArmOut(c)
  /\ UNCHANGED <<inbox, faults>>

(* MAX_INACTIVITY is over. *)
ReadInactive(c) ==
  /\ inbox[c] = <<>>
  /\ Goes(c, "read", "close")
  /\ UNCHANGED <<inbox, ready, taken, faults>>

(* The sends succeed, and the descriptor is set back to EPOLLIN. *)
Sent(c) ==
  /\ \/ Goes(c, "reply", "wait")
     \/ Goes(c, "heartbeat", "wait")
     \/ Goes(c, "bye", "close")
  /\ ArmIn(c)
  /\ UNCHANGED <<inbox, faults>>

(* The heartbeat cannot be sent to the end: the client has closed its end, or
   it is slow and its send buffer is full. *)
HeartbeatFails(c) ==
  /\ Goes(c, "heartbeat", "close")
  /\ ArmIn(c)
  /\ UNCHANGED <<inbox, faults>>

(* send() without MSG_NOSIGNAL on a connection the peer has reset. *)
Sigpipe(c) ==
  /\ at[c] \in Sending
  /\ c \in hungup
  /\ process' = "killed"
  /\ UNCHANGED <<running, mpc, spc, netVars, at, ready, taken, activeConnections, faults>>

(* EPOLL_CTL_DEL, returnConnection(), close(). *)
Close(c) ==
  /\ Goes(c, "close", "ended")
  /\ ready' = ready \ {c}
  /\ taken' = taken \ {c}
  /\ UNCHANGED <<inbox, faults>>

(* Mutants: the task forgets to count its connection out, or Close has done
   it already. *)
KeepsCount == activeConnections
CountsTwice == activeConnections - 2
CountsOut == activeConnections - 1

(* The rest of the task, in handleNewConnection(). *)
Finish(c) ==
  /\ at[c] = "ended"
  /\ at' = [at EXCEPT ![c] = "done"]
  /\ activeConnections' = CountsOut
  /\ UNCHANGED <<running, process, mpc, spc, netVars, ready, taken, faults>>

-----------------------------------------------------------------------------
(* stop() and ~Server() *)

(* Also without start(): the destructor calls stop(). *)
Stop ==
  /\ spc = "idle"
  /\ running' = FALSE
  /\ spc' = "joining"
  /\ UNCHANGED <<process, mpc, netVars, at, ready, taken, activeConnections, faults>>

(* Mutant: the pool is shut down before the main thread is joined. *)
JoinSkipped == TRUE
(* mainThread.joinable() is false before start() and if start() has failed. *)
MainJoined == mpc \in {"new", "unbound", "deaf", "exited"}

StopJoins ==
  /\ spc = "joining"
  /\ MainJoined
  /\ spc' = "draining"
  /\ UNCHANGED <<running, process, mpc, netVars, at, ready, taken, activeConnections, faults>>

(* threadPool.shutdown() returns when every handler has. *)
StopReturns ==
  /\ spc = "draining"
  /\ \A c \in Client : at[c] \in {"absent", "backlog", "abandoned", "done"}
  /\ spc' = "stopped"
  /\ UNCHANGED <<running, process, mpc, netVars, at, ready, taken, activeConnections, faults>>

(* The destructors of the server and of its pool call shutdown() again: join()
   throws, and nothing may leave a destructor (ThreadPool.ShutdownNotify). *)
Destroy ==
  /\ spc = "stopped"
  /\ process' = "aborted"
  /\ UNCHANGED <<running, mpc, spc, netVars, at, ready, taken, activeConnections, faults>>

-----------------------------------------------------------------------------
Starting == StartServer \/ ListenFails \/ InitializeFails
Main == MainTest \/ MainWait \/ Accept \/ AcceptUnwatched \/ AcceptEnds
Handler(c) ==
  \/ Start(c) \/ GetConnection(c) \/ GetConnectionThrows(c) \/ WaitOwn(c) \/ WaitOther(c)
  \/ Read(c) \/ ReadNothing(c) \/ ReadInactive(c) \/ Sent(c) \/ HeartbeatFails(c)
  \/ Sigpipe(c) \/ Close(c) \/ Finish(c)
Stopping == Stop \/ StopJoins \/ StopReturns \/ Destroy
ClientStep(c) == Connect(c) \/ HangUp(c) \/ \E m \in Message : Send(c, m)

Up == process = "up"

Next ==
  /\ Up
  /\ \/ Starting
     \/ Main
     \/ Stopping
     \/ \E c \in Client : Handler(c) \/ ClientStep(c)

Spec == Init /\ [][Next]_vars

(* The scheduler runs every thread that can run, and epoll_wait() returns
   when there is something to report.  Clients owe nothing. *)
Fairness ==
  /\ WF_vars(Up /\ Main)
  /\ WF_vars(Up /\ (StopJoins \/ StopReturns))
  /\ \A c \in Client : WF_vars(Up /\ Handler(c))

FairSpec == Spec /\ Fairness

-----------------------------------------------------------------------------
(* What the server does ensure. *)

(* activeConnections counts the connections that are open or about to be
   counted out, those whose handler died in getConnection() included. *)
ActiveCounts ==
  activeConnections
    = Cardinality({c \in Client : at[c] \in Sending \cup Listening \cup {"ended"}})

(* stop() shuts the pool down only when nobody is left to call enqueue(): the
   exception of a stopped pool never ends the process from run(). *)
NeverTerminated == process # "terminated"

(* A handler waits although there is input for it only if another thread has
   been given the event: the one message read per edge, and what arrives
   while it sends or before accept(), lose nothing by themselves. *)
LostOnlyToOthers ==
  \A c \in Client :
    (at[c] \in {"queued", "connect", "wait"} /\ Readable(c)) => c \in ready \cup taken

(* A client that connects to a running server is accepted, however many
   handlers take the events of the listener from the main thread. *)
Accepted ==
  \A c \in Client : at[c] = "backlog" ~> (at[c] # "backlog" \/ ~running \/ ~Up)

(* stop() sets running and waits for the main thread, which may sleep in
   epoll_wait().  A client that connects ends that sleep, and the main thread
   does not begin another one. *)
StopSeen == (spc = "joining" /\ backlog # <<>>) ~> (MainJoined \/ ~Up)

-----------------------------------------------------------------------------
(* What the comments say and the code does not do. *)

(* "Wait for events on this connection" (server.cpp:689): a message that has
   come for a waiting handler is read. *)
MessagesRead ==
  \A c \in Client : (at[c] = "wait" /\ inbox[c] # <<>>) ~> (at[c] # "wait" \/ ~Up)
=============================================================================
