--------------------------- MODULE ConnectionPool ---------------------------
(***************************************************************************)
(* MySqlConnectionPool: the queue of idle database connections, its mutex, *)
(* and the connection handlers that borrow one connection per session.     *)
(*                                                                         *)
(* The mutex is held from the first look at the queue until getConnection()*)
(* returns, throws or sleeps between attempts, the seconds that            *)
(* createNewConnection() sleeps included: so it is a variable here.  The   *)
(* database is external: a connection may die and the whole server may go  *)
(* down and come back between any two steps.                               *)
(***************************************************************************)
EXTENDS Integers, Sequences, FiniteSets

CONSTANTS
  Handler,            \* the threads that run connectionHandler()
  NoHandler,          \* nobody holds the mutex
  Conn,               \* identities of connections
  NoConn,             \* a null shared_ptr
  PoolSize,           \* poolSize of the configuration file
  InitialSizes,       \* how many connections the constructor has made
  MaxAttempts,        \* maxAttempts of getConnection()
  MaxCreateAttempts,  \* maxCreateAttempts of createNewConnection()
  MaxDeaths,          \* bound: connections that die
  MaxOutages,         \* bound: outages of the database server
  MaxRefusals,        \* bound: connections it refuses while it is up
  MaxSessions         \* bound: sessions of each handler

ASSUME ConnectionPoolAssumption ==
  /\ PoolSize \in Nat
  /\ InitialSizes \subseteq 0..PoolSize
  /\ MaxAttempts \in Nat \ {0}
  /\ MaxCreateAttempts \in Nat \ {0}
  /\ MaxDeaths \in Nat
  /\ MaxOutages \in Nat
  /\ MaxRefusals \in Nat
  /\ MaxSessions \in Nat
  /\ IsFiniteSet(Handler)
  /\ NoHandler \notin Handler
  /\ NoConn \notin Conn

VARIABLES
  connectionQueue,  \* std::queue<std::shared_ptr<sql::Connection>>
  mutex,            \* who holds the mutex
  pc,               \* where each handler is in its session
  conn,             \* the connection each handler refers to
  attempt,          \* the counter of getConnection()
  tries,            \* the counter of createNewConnection()
  lost,             \* how many of PoolSize connections were given up
  live,             \* the connections the database answers on
  dbUp,             \* whether it accepts new ones
  deaths, outages, refusals, sessions

dbVars == <<live, dbUp, deaths, outages, refusals>>
vars == <<connectionQueue, mutex, pc, conn, attempt, tries, lost, dbVars, sessions>>

(* "lock": about to lock in getConnection(), at its start or after the delay;
   "fetch": at its while loop; "create": in createNewConnection(), called from
   there; "use": the handler serves its client; "recreate": in
   createNewConnection(), called from returnConnection(). *)
HandlerState == {"idle", "lock", "fetch", "create", "use", "recreate"}

TypeOK ==
  /\ connectionQueue \in Seq(Conn)
  /\ mutex \in Handler \cup {NoHandler}
  /\ pc \in [Handler -> HandlerState]
  /\ conn \in [Handler -> Conn \cup {NoConn}]
  /\ attempt \in [Handler -> 0..(MaxAttempts - 1)]
  /\ tries \in [Handler -> 0..(MaxCreateAttempts - 1)]
  /\ lost \in 0..PoolSize
  /\ live \subseteq Conn
  /\ dbUp \in BOOLEAN
  /\ deaths \in 0..MaxDeaths
  /\ outages \in 0..MaxOutages
  /\ refusals \in 0..MaxRefusals
  /\ sessions \in [Handler -> 0..MaxSessions]

Elements(q) == {q[i] : i \in 1..Len(q)}
Distinct(q) == \A i, j \in 1..Len(q) : q[i] = q[j] => i = j

Idle == Elements(connectionQueue)
Holders == {h \in Handler : conn[h] # NoConn}
Held == {conn[h] : h \in Holders}

(* The constructor leaves out the connections it cannot create. *)
Init ==
  /\ connectionQueue \in UNION {[1..k -> Conn] : k \in InitialSizes}
  /\ Distinct(connectionQueue)
  /\ mutex = NoHandler
  /\ pc = [h \in Handler |-> "idle"]
  /\ conn = [h \in Handler |-> NoConn]
  /\ attempt = [h \in Handler |-> 0]
  /\ tries = [h \in Handler |-> 0]
  /\ lost = PoolSize - Len(connectionQueue)
  /\ live = Idle
  /\ dbUp = TRUE
  /\ deaths = 0
  /\ outages = 0
  /\ refusals = 0
  /\ sessions = [h \in Handler |-> 0]

-----------------------------------------------------------------------------
(* getConnection() *)

Call(h) ==
  /\ pc[h] = "idle"
  /\ sessions[h] < MaxSessions
  /\ sessions' = [sessions EXCEPT ![h] = @ + 1]
  /\ pc' = [pc EXCEPT ![h] = "lock"]
  /\ attempt' = [attempt EXCEPT ![h] = 0]
  /\ UNCHANGED <<connectionQueue, mutex, conn, tries, lost, dbVars>>

Lock(h) ==
  /\ pc[h] = "lock"
  /\ mutex = NoHandler
  /\ mutex' = h
  /\ pc' = [pc EXCEPT ![h] = "fetch"]
  /\ UNCHANGED <<connectionQueue, conn, attempt, tries, lost, dbVars, sessions>>

(* isConnectionValid(): the database answers "SELECT 1". *)
Valid(x) == x \in live

(* Mutant: the connection is read with front() and not popped. *)
StillQueued == connectionQueue
Remaining == Tail(connectionQueue)

FetchValid(h) ==
  /\ pc[h] = "fetch"
  /\ connectionQueue # <<>>
  /\ Valid(Head(connectionQueue))
  /\ conn' = [conn EXCEPT ![h] = Head(connectionQueue)]
  /\ connectionQueue' = Remaining
  /\ mutex' = NoHandler
  /\ pc' = [pc EXCEPT ![h] = "use"]
  /\ UNCHANGED <<attempt, tries, lost, dbVars, sessions>>

FetchInvalid(h) ==
  /\ pc[h] = "fetch"
  /\ connectionQueue # <<>>
  /\ ~Valid(Head(connectionQueue))
  /\ conn' = [conn EXCEPT ![h] = Head(connectionQueue)]
  /\ connectionQueue' = Remaining
  /\ tries' = [tries EXCEPT ![h] = 0]
  /\ pc' = [pc EXCEPT ![h] = "create"]
  /\ UNCHANGED <<mutex, attempt, lost, dbVars, sessions>>

(* Mutant: one attempt too many. *)
AttemptsCounted(h) == attempt[h] < MaxAttempts
AttemptsLeft(h) == attempt[h] < MaxAttempts - 1

(* Mutant: the mutex is kept over the sleep between two attempts. *)
KeptOver(h) == h
ReleasedBy(h) == NoHandler

(* The queue is empty: unlock, sleep, and lock again for the next attempt. *)
FetchDelay(h) ==
  /\ pc[h] = "fetch"
  /\ connectionQueue = <<>>
  /\ AttemptsLeft(h)
  /\ attempt' = [attempt EXCEPT ![h] = @ + 1]
  /\ mutex' = ReleasedBy(h)
  /\ pc' = [pc EXCEPT ![h] = "lock"]
  /\ UNCHANGED <<connectionQueue, conn, tries, lost, dbVars, sessions>>

(* "Failed to obtain a database connection after multiple attempts" *)
FetchThrow(h) ==
  /\ pc[h] = "fetch"
  /\ connectionQueue = <<>>
  /\ ~AttemptsLeft(h)
  /\ mutex' = NoHandler
  /\ pc' = [pc EXCEPT ![h] = "idle"]
  /\ UNCHANGED <<connectionQueue, conn, attempt, tries, lost, dbVars, sessions>>

-----------------------------------------------------------------------------
(* createNewConnection() and what its two callers do with the result *)

(* getConnection() goes on with its loop; returnConnection() returns. *)
Leave(h) ==
  /\ conn' = [conn EXCEPT ![h] = NoConn]
  /\ \/ /\ pc[h] = "create"
        /\ pc' = [pc EXCEPT ![h] = "fetch"]
        /\ mutex' = mutex
     \/ /\ pc[h] = "recreate"
        /\ pc' = [pc EXCEPT ![h] = "idle"]
        /\ mutex' = NoHandler

Creating(h) == pc[h] \in {"create", "recreate"}

(* Mutant: the caller forgets to push the new connection. *)
NotStocked(x) == connectionQueue
Stocked(x) == Append(connectionQueue, x)

CreateSucceeds(h) ==
  /\ Creating(h)
  /\ dbUp
  /\ \E x \in Conn \ (Idle \cup Held) :
       /\ connectionQueue' = Stocked(x)
       /\ live' = live \cup {x}
  /\ Leave(h)
  /\ UNCHANGED <<attempt, tries, lost, dbUp, deaths, outages, refusals, sessions>>

(* An attempt comes to nothing: the database is down, or it is up and
   connect() returns null or throws, or setSchema() throws. *)
AttemptFails ==
  /\ \/ ~dbUp /\ refusals' = refusals
     \/ dbUp /\ refusals < MaxRefusals /\ refusals' = refusals + 1
  /\ UNCHANGED <<live, dbUp, deaths, outages>>

CreateRetries(h) ==
  /\ Creating(h)
  /\ AttemptFails
  /\ tries[h] < MaxCreateAttempts - 1
  /\ tries' = [tries EXCEPT ![h] = @ + 1]
  /\ UNCHANGED <<connectionQueue, mutex, pc, conn, attempt, lost, sessions>>

(* nullptr: neither caller puts anything in the place of the connection. *)
CreateGivesUp(h) ==
  /\ Creating(h)
  /\ AttemptFails
  /\ tries[h] = MaxCreateAttempts - 1
  /\ lost' = lost + 1
  /\ Leave(h)
  /\ UNCHANGED <<connectionQueue, attempt, tries, sessions>>

-----------------------------------------------------------------------------
(* returnConnection() *)

ReturnValid(h) ==
  /\ pc[h] = "use"
  /\ mutex = NoHandler
  /\ Valid(conn[h])
  /\ connectionQueue' = Append(connectionQueue, conn[h])
  /\ conn' = [conn EXCEPT ![h] = NoConn]
  /\ pc' = [pc EXCEPT ![h] = "idle"]
  /\ UNCHANGED <<mutex, attempt, tries, lost, dbVars, sessions>>

(* Mutant: the broken connection is queued again and replaced as well. *)
QueuedAgain(h) == Append(connectionQueue, conn[h])
Discarded(h) == connectionQueue

ReturnInvalid(h) ==
  /\ pc[h] = "use"
  /\ mutex = NoHandler
  /\ ~Valid(conn[h])
  /\ connectionQueue' = Discarded(h)
  /\ mutex' = h
  /\ tries' = [tries EXCEPT ![h] = 0]
  /\ pc' = [pc EXCEPT ![h] = "recreate"]
  /\ UNCHANGED <<conn, attempt, lost, dbVars, sessions>>

-----------------------------------------------------------------------------
(* The database, external *)

ConnectionDies(x) ==
  /\ x \in live
  /\ deaths < MaxDeaths
  /\ live' = live \ {x}
  /\ deaths' = deaths + 1
  /\ UNCHANGED <<connectionQueue, mutex, pc, conn, attempt, tries, lost, dbUp, outages, refusals,
                 sessions>>

DatabaseFails ==
  /\ dbUp
  /\ outages < MaxOutages
  /\ dbUp' = FALSE
  /\ live' = {}
  /\ outages' = outages + 1
  /\ UNCHANGED <<connectionQueue, mutex, pc, conn, attempt, tries, lost, deaths, refusals, sessions>>

DatabaseRecovers ==
  /\ ~dbUp
  /\ dbUp' = TRUE
  /\ UNCHANGED <<connectionQueue, mutex, pc, conn, attempt, tries, lost, live, deaths, outages,
                 refusals, sessions>>

Get(h) == Lock(h) \/ FetchValid(h) \/ FetchInvalid(h) \/ FetchDelay(h) \/ FetchThrow(h)
Create(h) == CreateSucceeds(h) \/ CreateRetries(h) \/ CreateGivesUp(h)
Return(h) == ReturnValid(h) \/ ReturnInvalid(h)
Database == (\E x \in Conn : ConnectionDies(x)) \/ DatabaseFails \/ DatabaseRecovers

Next ==
  \/ \E h \in Handler : Call(h) \/ Get(h) \/ Create(h) \/ Return(h)
  \/ Database

Spec == Init /\ [][Next]_vars

(* A handler inside the pool is scheduled.  A session need neither begin nor
   end: a client may keep its handler, and the connection, for ever. *)
Fairness == \A h \in Handler : WF_vars(Get(h)) /\ WF_vars(Create(h))
FairSpec == Spec /\ Fairness

-----------------------------------------------------------------------------
(* What the pool promises. *)

(* A connection is in the queue once or referred to by one handler: no two
   handlers ever talk on the same connection. *)
ExclusiveLending ==
  /\ Distinct(connectionQueue)
  /\ Idle \cap Held = {}
  /\ \A g, h \in Holders : conn[g] = conn[h] => g = h

(* The pool never grows over poolSize, and a connection leaves it for good
   only when createNewConnection() has given up on its replacement. *)
Accounted == Len(connectionQueue) + Cardinality(Holders) + lost = PoolSize

(* A pool that has given up no connection and is as large as the number of
   handlers turns nobody away: one that reaches the queue finds something in
   it, be it broken. *)
EnoughForAll ==
  (lost = 0 /\ Cardinality(Handler) <= PoolSize)
    => \A h \in Handler : pc[h] = "fetch" => connectionQueue # <<>>

(* getConnection() comes to an end, by returning or by throwing, although
   other handlers sleep in createNewConnection() under the mutex and clients
   keep their connections for ever. *)
GetReturns == \A h \in Handler : pc[h] = "lock" ~> pc[h] \in {"use", "idle"}

(* The pool with its mutex, health check and replacement lends as LendingPool
   does. *)
Lending == INSTANCE LendingPool WITH
             Client <- Handler,
             idle <- Idle,
             lent <- [h \in Handler |-> IF pc[h] = "use" THEN {conn[h]} ELSE {}]
ImplementsLendingPool == Lending!Spec

(* "replacing any invalid connections to maintain the pool's integrity"
   (README.md:83): once the database is back for good, the pool comes back to
   its size. *)
IntegrityRestored ==
  <>[]dbUp => <>[](Len(connectionQueue) + Cardinality(Holders) = PoolSize)
=============================================================================
