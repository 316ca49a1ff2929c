# A verification project for the epoll server

TLA+ models of the server in `src/` — a thread pool, a pool of MySQL
connections, an epoll core, a stop-and-wait link protocol for measuring devices,
and the requests those devices make — with TLC configurations and TLAPS proofs.
Paths below are relative to the repository.

## 1. The system

| Part | Source | State | Operations |
|---|---|---|---|
| Thread pool | `src/thread-pool/` | task queue, `stop`, `paused`, `activeThreads`, vector of workers, one mutex, two condition variables | `enqueue`, `workerThread`, `pause`, `resume`, `waitForCompletion`, `resize`, `shutdown` |
| MySQL connection pool | `src/mysql-connection-pool/`, lines 1-227 | queue of idle connections, mutex | `getConnection`, `returnConnection`, `createNewConnection`, `isConnectionValid` |
| Database functions | same file, lines 229-549 | tables of the database (external) | inserts and updates used by requests, read-only queries |
| Server core | `src/server-core/server.cpp` 636-861 | `running`, `activeConnections`, the epoll instance, one handler task per connection | `start`, `initialize`, `run`, `handleNewConnection`, `connectionHandler`, `modifyEpollEvent`, `adjustThreadPoolSize`, `stop`, destructor |
| Request handlers | `server.cpp` 40-634 | per connection: `idDevice`, assembly buffer; shared: `isAlgorithmNeeded` | one handler per topic |
| Link protocol | `src/socket-utilities/` | the bytes in the socket | `amilinkSendMessage`, `amilinkReadMessage`, `amilinkGetResponse`, `amilinkHeartbeat` |
| Service, tests, headers | `src/service_main.cpp`, `googleTest`, `include/` | none of their own | start-up; tests |

**How they interact.** The main thread runs `Server::run()`: it accepts
connections, registers each one with the one epoll instance (edge-triggered) and
puts a handler into the thread pool. A handler takes a worker and a database
connection for the whole session. It waits for events on the *shared* epoll
descriptor, reads a frame through the link, handles the request with statements
on its database connection, and answers through the link. `modifyEpollEvent()`
is called around each send and rearms the descriptor.

**What is hard.** Wakeups given after the mutex is released; the two condition
variables of `pause()`; the count of idle connections while one of them is being
replaced for seconds; an edge-triggered event reported to a thread it is not
meant for; acknowledgements without sequence numbers; partial sends; several
handlers inserting into one database without transactions; threads that size the
pool on answers that are out of date; files that change while they are read and
one flag for all handlers; `stop()` against everything else. `PROJECT.json`
lists the hazards by line, and the properties that cover them; three have none
and say why.

**What makes each part correct.**
Thread pool: every accepted task runs once, nobody sleeps through what it waits
for, `shutdown()` works the queue off. Connection pool: a connection is lent to
one handler at a time, none is lost while the database is up, a caller is not
turned away without need. Server: connections are counted and accepted, input is
not overlooked, `stop()` is orderly. Link: a request that the handler answers is
read once and its call gets its own response. Raw data: a stored set is whole
and of its own measurement, and the column that asks for it stays set until it
is stored. Files: a device gets a whole file or the zero response, and one that
was told of another algorithm version finds the algorithm in its next file,
unless a file with it was begun for another device meanwhile. Sizing: the pool
does not shrink under a load it was built for, and no long queue forms.

## 2. Modules

| Module | Models | Checked by |
|---|---|---|
| `TaskPool` | abstract: what a worker pool promises | refined by `ThreadPool` |
| `ThreadPool` | `threadPool.cpp`, `threadPool.h`, every member function | `MCThreadPool` |
| `LendingPool` | abstract: what a pool of connections promises | refined by `ConnectionPool` |
| `ConnectionPool` | `mysqlConnectionPool.cpp` 43-170 | `MCConnectionPool` |
| `EpollServer` | `start`, `run`, `handleNewConnection`, `connectionHandler`, `stop`, destructor | `MCEpollServer` |
| `ServerSizing` | `adjustThreadPoolSize()` and who calls it | itself |
| `Exchange` | abstract: what the link promises whatever goes wrong | refined by `Amilink` |
| `Amilink` | the link between a device and its handler | itself |
| `RawData` | registration, data log, raw data, goodbye, with their SQL statements | `MCRawData` |
| `FileTransfer` | version, algorithm and firmware requests | `MCFileTransfer` |
| `ThreadPoolProofs`, `ConnectionPoolProofs`, `EpollServerProofs`, `ServerSizingProofs`, `FileTransferProofs`, `AmilinkProofs`, `RawDataProofs` | theorems about the module of that name | tlapm |
| `AmilinkFaultProofs` | theorems about `Amilink` as long as few things go wrong | tlapm |

Definitions named in a comment as *Mutant* are not used by the specification.
Each is a plausible bug in the definition below it; a property is kept only if
TLC finds it violated when the definition is replaced by one of them.

**How the modules meet.** The program is checked in parts that rest on each
other's properties instead of one large state space:
`EpollServer` and `ServerSizing` use the thread pool as `TaskPool` describes it
(a queued task is taken by an idle worker; `NoWakeupLost`), and `ServerSizing`
takes from `ThreadPool.ResizeShrink` that a shrink never returns. `EpollServer`
assumes a pool that is never resized below ten clients, which is what
`ServerSizing.SmallLoadNeverHangs` proves. `RawData` uses one database
connection per handler, which is `ConnectionPool.ExclusiveLending`, and lets a
device repeat a block but not send blocks out of order, which is
`Amilink.ImplementsExchange` for what arrives undamaged. A chunk of
`FileTransfer` is a whole `amilinkSendMessage()`. `EpollServer.Sigpipe` is one
cause of `RawData.Crash`.

### ThreadPool
A critical section that neither waits nor locks again is one action; what the
code does after `unlock()` (the notify calls, the join loop) is another. A wait
on a condition variable is a test with the mutex held (`test`, `waittest`,
`pausetest`) and a sleep (`asleep`, `waitasleep`, `pauseasleep`); spurious
wakeups are allowed. `OneWoken` chooses which sleeper `notify_one()` wakes.
`resize()` to fewer workers calls `enqueue()` under the mutex and stays at
`relock` for ever. `fate` is a history of each task. `activeThreads` has the
value of the atomic. `joined` and `joinEnd` are the iterator of the join loop
and its end, so that a `resize()` during the loop is seen; joining twice ends at
`threw`. When the vector is reallocated under the loop (`ResizeGrow` while
somebody joins) its iterators dangle, which is undefined: the model has the two
outcomes in which the process lives on, that `shutdown()` returns after the old
workers and that it throws. `ShutdownDrains` therefore speaks of pools that do not grow
during the join loop.

### ConnectionPool
The mutex is a variable, because `getConnection()` holds it while
`createNewConnection()` sleeps. `pc` follows a handler through
`getConnection()`, its session and `returnConnection()`. The database is
external: connections die and the server goes down and comes back between any
two steps, and an attempt to connect may fail while it is up (`AttemptFails`:
`connect()` refused, `setSchema()` failing), `MaxRefusals` times. `lost` counts
the connections given up. The constructor may start with fewer connections than
`poolSize`, or none (`InitialSizes`), since it ignores a failing
`createConnection()`.

### EpollServer
`mpc` begins at `new`; `start()` leads to the loop of `run()`, or, when one of
the calls of `initialize()` fails, to `unbound` (no listening socket) or `deaf`
(a socket that listens and nobody accepts from). `ready` is the ready list of
the epoll instance. `Harvest` is what `epoll_wait()` takes off it; `taken`
remembers connections whose event went to another thread. A connection is
rearmed by the `EPOLLOUT`/`EPOLLIN` calls around a send (`ArmOut`, `ArmIn`),
which report input that has come already. The listener is level-triggered. `at`
follows a connection from the backlog through the pool, `getConnection()` and
the handler's loop to its end. `Stop`, `StopJoins` and `StopReturns` are
`stop()`; `Destroy` is a destructor after `stop()`, whose second `shutdown()`
throws and ends the process. `stop()` may be called before `start()`; nobody
starts a server that was stopped (`MayStart`). A heartbeat may fail for a client
that is there, because its send buffer is full (`HeartbeatFails`), and ends the
session. The source refers to `globalServer->efd`; there is no such member, and
it is read as `epollContext.efd`. The assumption `Cardinality(Client) <
InitialEvents` keeps the model where `adjustThreadPoolSize()` changes nothing
and every connection has a worker.

### ServerSizing
The main thread adjusts the pool before it enqueues a connection, a worker after
its connection has ended. `getQueueSize()`, `getSize()` and `resize()` are three
critical sections (`apc`), and the two answers are local variables of the
thread. `NewSize` is the arithmetic between them. A `resize()` to fewer workers
than the pool has *by then* is `ResizeHangs`: the thread keeps `queueMutex`, and
no step that needs it is enabled any more. `SessionThrows` is a task that ends by
the exception of `getConnection()`, which neither counts out its connection nor
sizes the pool.

### Amilink
`wire` holds the frames on the way to each end. `SentInPart` is a send for which
the socket has no room: nothing or a part of the frame goes out, nobody looks at
the count, and the next frame runs into it (`Joined`; frames end with a
delimiter and do not begin with one, or every read would return an empty frame
first). A wait ends by timeout only when no byte is there; when the other end
was going to answer this counts as `late`. `retry` is the counter of either
loop. When a checksum is wrong `readMessage()` still returns the length, so the
handler handles whatever `request` holds. A message is a number; `Garbage` is
content nothing was read into. The connection stays open, except that the
handler may leave it. `handleRequest()` either answers (`Respond`) or does not
(`LeaveUnanswered`): a block of raw data that is not the last or is refused
(`server.cpp:174-198`), a file name too short or of no known kind (584-592), a
goodbye, an unknown topic. Then the handler waits for no acknowledgement: it is
back in `epoll_wait()` or has ended, and a repetition of such a request, which
one lost or late acknowledgement is enough for, is read as a new one.
`unanswered` is the history of these requests. `Exchange` sees the calls, what
is received and handled, and the responses; frames, acknowledgements and retries
do not appear in it.

### RawData
Every SQL statement is a step, committed by itself, and may throw; the database
functions catch that and go on. `Crash` ends the process between any two
statements: connections, buffers and handlers are gone, the tables stay. A block
stands for its bytes. Devices register first, push raw data only for
measurements whose log was answered, send the blocks of a set in order, repeat a
block (as the link does with a request that is not answered) and start over at
will. A connection may register again at any time, also as another device; the
buffer stays as it is then (`Register`, `server.cpp:263`). `required` is the
column that asks for raw data and `DataRequired` what
`mysqlGetDataRequired()` (`mysqlConnectionPool.cpp:516-522`) makes of it, which
leaves out measurements that have a row in a second table. The statements of `src/`
have placeholders for names; the copy of this query in
`googleTest/mysqlclasstest.cpp:388-392` calls that table `raw_datasets`, and the
model takes it for the one that `mysqlInsertDataSet()` puts a row without sweeps
into when a measurement is logged (441-451).

### FileTransfer
`library` is what the handlers see of `FILE_LIBRARY`: the algorithm files in the
order of `readdir()`, each whole, with an incomplete entry or unparsable, and the
length of the firmware file; an administrator may change it at any step
(`Change`). The test of `isAlgorithmNeeded` and its reset are two steps
(`TestNeeded`, `TakeNeeded`), since nothing protects the flag. The variable is a
plain `bool` used by several threads, a data race; the model gives it the
behaviour every build for the program's platform has, each access being one
load or store. `total`, `remain` and `offset` are the `uint32_t` of the chunk
loop, with `Wrap`; `position` is the file position, so that `chunk` says which
bytes of the file a chunk has, and `acked` is the history of the chunks the
device has acknowledged. `read()` at the end of the file returns 0 (`EndOfFile`),
and its -1 becomes a length of `Word - 1` (`ReadError`). A chunk that is not
acknowledged ends in the zero response (`Refused`, `FileErrorResponse`).
`told` is a history: the devices told of another version since a file with
the algorithm was last begun for anybody; whoever begins one takes the flag, and the
others are no longer in `told`. A later file overwrites the version read from an
earlier one, also with the number 0, but not when it has no number (`Versioned`).

## 3. Runs

| Run | Instance | Shows |
|---|---|---|
| `pool` | 2 workers, resized to 1 or 3, 2 tasks from 2 submitters, a waiter, a pauser, 2 calls of `shutdown()` | tasks are owned once; `waitForCompletion()` neither misses its wakeup nor returns early; `shutdown()` drains and returns; no lost `notify_one()` unless paused; `ThreadPool` implements `TaskPool` |
| `pool_resume` | one worker, one pauser | **violation**: `resume()` does not wake workers that sleep on `condition` |
| `pool_shrink` | two workers, resize to one | **violation**: `resize()` waits for itself |
| `conn` | 2 handlers, `poolSize` 2 of which 0 to 2 exist at first, 2 deaths, 1 outage, 3 refused attempts | exclusive lending, accounting, `getConnection()` ends, enough connections turn nobody away, `ConnectionPool` implements `LendingPool` |
| `conn_outage` | 2 handlers, 1 connection, 1 outage | **violation**: the pool stays smaller after an outage |
| `server` | 2 clients, 1 failing call, `start()`, `stop()` before or after it, destructor | counting, orderly stop, no input overlooked but by events given to others, clients are accepted, a connection is enough for the main thread to see `stop()` |
| `server_events` | 1 client | **violation**: the main thread swallows the event of a handler's connection |
| `link` | 3 calls, 2 attempts, up to 2 late answers, 2 partial sends, 1 heartbeat, requests answered or not | exact exchange on a faultless link; no answered request is read twice with fewer than three faults; calls return; `Amilink` implements `Exchange` with any faults |
| `link_damaged` | 1 partial send | **violation**: a request that was never received is handled |
| `raw_data` | 2 connections of a device, 2 sets of 2 blocks, a failing statement or a crash | stored sets are whole; the column that asks for raw data stays set until it is stored; logging without mishap leaves the query nothing to ask for |
| `files` | 2 devices of 2 requests, 3 libraries and one change, a failing `read()`, a lost chunk, `Word` 16, chunks of 2 | a file arrives whole or is refused; a device told of another version finds it in its next file, unless a file with the algorithm was begun meanwhile; requests end |
| `sizing` | 5 connections, a pool of 2 | a small load never shrinks the pool; the queue stays short; who waits is served |

**Bounds.** Two workers and a third that joins are enough for a wakeup to reach
the wrong one, and a resize to one shrinks. A handler waits while the other
borrows and replaces. Two clients make a handler take the other's event, and one
client is enough for the main thread to do so. Three calls let an answer of the
first be read by the second or third; three attempts are left to the proofs,
which hold for any number. Two blocks have a first, a last and a repetition of
each; two transfers overlap. One mishap in `raw_data` comes at each of its
steps; two do not fit into the time of a run, nor do two devices: that a
connection registers as another device is in the model and in its proofs, and
not in this instance. A file of 3 or 4 bytes and chunks of 2 give a full, a
short and no last chunk; 16 values let `remain` wrap and be seen to. Five
connections double a pool of two, and more than four let it shrink again.
Symmetry (handlers, measurements) is used in `raw_data`, which has no liveness.
`CHECK_DEADLOCK FALSE` is set where callers, clients or devices may simply stop,
or the process has ended.

**Fairness.** Weak fairness of each thread's own steps (`FairSpec`): the
operating system runs every thread that can run, and a timed wait ends. Nobody
is obliged to submit, pause, connect, send or hang up; a client may keep its
session for ever (no fairness on `Return` of `ConnectionPool` or on
`SessionEnds`), and no wait must return spuriously. Liveness that the code gives
only under a condition says so in the formula: `EveryTaskFinishes` and
`WaitReturns` for runs that never pause or shrink, `ShutdownReturns` for pools
left unpaused at last, `QueuedServed` when no session lasts for ever and no
shrink hangs, `StopSeen` when a client connects. Mutexes are not fair:
`GetReturns` needs no more because sessions are bounded.

## 4. Proofs

All theorems hold for any number of tasks, workers, callers, handlers,
connections and clients, any number of calls and faults of the link, any blocks
and failing statements, any library and any width of the file loop's variables,
under the named assumptions on the constants.

* **ThreadPool.** `TypeInv` is the type invariant with two facts it needs:
  `activeThreads` is the number of running workers (or the decrement would
  leave `Nat`), and the workers that exist are a prefix of the vector.
  `OwnInv` ties queue, workers and the fate of tasks (`TasksOwned`), and with
  it `WaitIsExact`. `CompletionNotLost` is inductive with `TypeInv`. `DrainInv`
  says an exited worker saw `stop` and an empty queue and a joined one has
  exited (`ShutdownIsClean`). `WakeInv` shows `NoLostWakeup`: what an
  `enqueue()` adds to the queue it also adds to the notifiers, and what a
  notification wakes leaves the sleepers. It is inductive along steps that do
  not pause, so the theorem is about behaviours that never do.
  `PoolImplementsTaskPool` maps each step to one of `TaskPool` or a stutter.
* **ConnectionPool.** `PoolInv` adds to the types that the mutex belongs to the
  handler inside the pool (`MutexOwned`) and that a handler refers to a
  connection exactly while it uses or replaces one (`ConnOwned`). From it follow
  `NeverShared`, `NoneLeaks`, `NobodyStarves` (by counting the holders) and
  `PoolImplementsLendingPool`.
* **EpollServer.** `ServerInv` adds that the backlog holds each waiting client
  once and that a pool is shut down only after the main thread has left
  `run()` or never was in it. From it `ConnectionsCounted`, `StopIsOrdered` and
  `EventsLostOnlyToOthers`.
* **ServerSizing.** `CountInv` bounds the queue and the held connections by
  `activeConnections` and says that what the main thread is about to enqueue
  nobody else knows. `MainAnswers` adds what the main thread's two answers are
  still good for: only it makes the queue longer, so its first answer is an upper
  bound until it has enqueued, and the pool never gets smaller, so its second is
  a lower bound; hence `QueueBounded`. `SmallLoad` carries through every thread
  that no answer exceeds `InitialThreads`; hence `SmallLoadIsSafe`.
* **FileTransfer.** `TypeCorrect` says that the loop's variables stay within
  their width through every wrap. `WholeInv` follows the loop: `Exact` says that
  the acknowledged chunks tile the file up to the position, `ReadsSucceed` what
  `remain` is when no `read()` fails (exact, or exact but for one wrap when the
  file has grown), `FileStays` what it is when the file does not change (too
  large by at most the number of failed reads, never wrapped). Either way
  `remain = 0` means the end of the file (`WholeFiles`). `FlagWaits`, for every
  device told and not yet served the flag is set, is inductive; from it
  `FlagIsKept`.
* **Amilink.** `LinkInv` orders what is under way (`GoodFrames`): the requests on
  a wire are not older than the last one received, the responses were handled and
  are not older than what any call has read, and on each wire a later message is
  not older. Sending appends the newest message, reading takes the oldest, and
  a cut frame makes at most one unreadable, so every step keeps the order. From it
  the types and `LinkImplementsExchange`.
* **Amilink with few faults** (`AmilinkFaultProofs`). Without faults a call goes
  through eight stages (`Resting` to `Answering`), or is left unanswered
  (`Unheeded` while the device has still to read the acknowledgement, `InVain`
  while it waits for a response), or the handler is `Gone`. A
  stage says where both ends are and what each wire carries besides heartbeats
  (`Carries`), so the frame that is read is the one that was expected
  (`Expected`), nothing is dropped (`NothingStray`), and only a handler without
  request, the device of a closed one, or one whose request was left unanswered
  waits in vain. `FaultlessExchange`
  follows from the stages, from `Answered` and from `InTurn`.
  `AnsweredReadOnce` holds because the handler drops what comes while it
  waits for the acknowledgement of its response, and it sends that response as
  often as the device may send the request. `FaultInv` makes this a count.
  Repetitions of a request follow each other on the wire (`Blocks`,
  `LastBlock`). Those under way of the request read last (`UnderWay`) and those
  the device may still make (`ToCome`) are bounded by the attempts the handler
  has left and the faults so far: a repetition dropped takes one attempt of the
  handler, and an attempt without one takes a fault, unless both ends wait for
  each other (`Stuck`), which has one attempt to spare. There is no repetition
  before the first fault, which is where the stages come in again (`FirstRead`).
  So a handler that gives up after two faults leaves no repetition behind
  (`ServerQuits`). None of this holds of a request that is left unanswered, whose
  repetition nothing drops; `MayArrive` and the lemmas on it except these.
* **RawData.** `RawInv` says what a handler has between two statements: a buffer
  that is not given away holds the blocks up to the one sent last (`InOrder`), one
  that is being stored is whole, and the keys it has got so far are those of sweeps
  made of that buffer (`Keys`), so `LinkSweeps` writes nothing else into a row
  (`SetsMatch`). `Room` counts the sweeps that are still to be inserted, which
  bounds the table. `ColumnKeptUntilStored` alone is not inductive: a statement fails
  long before the column is cleared. `LossInv` counts with the rows already lost
  those that are going to be: rows without a set to update (`Unlisted`) and rows
  of handlers that passed a sweep without key or points (`Astray`). A statement
  that fails adds at most the row of its handler, and no other step, not even a
  crash, adds any (`Losses`). For `AskedOnlyAfterMishap` (`NotAskedUndisturbed`),
  `NotedInv` says that without a mishap every measurement in the first table is
  in the second, but for the one whose handler is about to insert it there.

**Only model-checked.** Liveness under fairness (`EveryTaskFinishes`,
`WaitReturns`, `ShutdownReturns`, `GetReturns`, `Accepted`, `StopSeen`,
`QueuedServed`, `CallsReturn`, `RequestsEnd`): the prover does not treat
`ENABLED`. Every other property of a passing run is a theorem.

## 5. Disagreements found

With a run that shows them:

* `README.md:69` "dynamic resizing, pausing, and resuming": `resume()` notifies
  only `pauseCondition` (`pool_resume`), and shrinking never returns
  (`pool_shrink`).
* `README.md:83` "replacing any invalid connections to maintain the pool's
  integrity": not after an outage of three attempts (`conn_outage`).
* `server.cpp:689` "Wait for events on this connection": the wait is for any
  connection (`server_events`).
* `README.md:70` "reliable data transmission": a frame with a wrong checksum is
  handled (`link_damaged`).

Seen in the models and without a run of their own:

* Two statements that do not fit: `mysqlGetDataRequired()` leaves out measurements
  with a row in `raw_datasets`, and logging a measurement makes that row. A logged
  measurement whose raw data somebody wants is then not asked for
  (`AskedOnlyAfterMishap`).
* `README.md:71` "periodic heartbeat messages": the handler sends one only after
  an event that brought no message (`server.cpp:702`).
* `README.md:63` and `:93`, one thread for each connection: the eleventh waits in
  the queue until the pool has grown or a session ends (`ServerSizing`).
* `README.md:94` "optimal resource utilization": after a peak that doubled the
  pool the first shrink hangs and holds `queueMutex` (`ServerSizing.ResizeHangs`,
  the state `QueuedServed` excepts).
* `server.cpp:879` prints that the server listens although `start()` may have
  failed (`InitializeFails`).
* `stop()` waits for a main thread that sleeps in `epoll_wait()` until somebody
  connects (`StopSeen`), and a destructor after `stop()` ends the process
  (`Destroy`).

## 6. Not modelled

* `handleDataFetchRequest()`, `getStructBatchCodesByCurrentDate()`,
  `getFileVersion()` and the other read-only queries: they compute a response
  from the database or the file system and change nothing.
* `handleRawDataRequiredRequest()` as an action: it changes nothing. What it
  answers is `DataRequired`, and devices of `RawData` may push whatever was logged,
  asked for or not.
* Requests before registration, and blocks that arrive with a gap: a device
  registers first and sends its blocks in order.
* The chunks of a file and an error response as further messages of one call of
  `Amilink`: there a request has one response or none, `FileTransfer` has the chunks.
* The third outcome of the dangling iterator of the join loop, the end of the
  process (`threadPool.cpp:45`), and `start()` after `stop()`.
* Who the algorithm goes to when several devices wait for it: the code has one
  flag, and `AlgorithmDelivered` does not forbid that another device takes it.
* The resizing of the `events` vector in `run()`: it may happen between
  `epoll_wait()` and the loop over its result only with more events than the
  instances have clients.
* The descriptors closed by a destructor that does not throw.
* SQL text, the configuration file, logging.
* SLIP, CRC and the message layouts: their headers are not in the repository.
* `service_main.cpp` (it starts a server and sleeps), the tests, and the
  duplicate headers in `include/`.
* The simulated packet loss of `amilinkInit()`, which the service leaves off.

## 7. Plan

Done, in this order: `ThreadPool` with `TaskPool`, `ConnectionPool` with
`LendingPool`, `EpollServer`, `Amilink`, `RawData`; then `FileTransfer`,
`ServerSizing`, start and destructor in `EpollServer`, crashes in `RawData`, and
`Exchange`.

To come: what can be proved of the liveness properties, which is that the waits
they are about are bounded: a number that every step of the fair actions makes
smaller (attempts and frames for `CallsReturn`, chunks for `RequestsEnd`,
attempts and connections for `GetReturns`).
