------------------------------ MODULE RawData ------------------------------
(***************************************************************************)
(* handleRequest() of src/server-core with the database functions of       *)
(* src/mysql-connection-pool: devices register, log measurements, are      *)
(* asked for raw data and push it block by block.  Each connection has a   *)
(* handler with an assembly buffer of its own; all share the database,     *)
(* which commits every statement by itself.                                *)
(*                                                                         *)
(* A block stands for its bytes: a raw data set of n blocks has n places   *)
(* in the buffer, and an empty buffer is a null pointer with               *)
(* maxAssemblyLength 0.  Devices send the blocks of a set in order, may    *)
(* send a block twice (Amilink) and may start over.                        *)
(***************************************************************************)
EXTENDS Integers, Sequences, FiniteSets

CONSTANTS
  Handler,       \* connections of devices, each with its handler
  Device,
  Nobody,        \* idDevice before the registration
  Measurement,
  Blocks,        \* the number of blocks of the raw data set of a measurement
  MaxTransfers,  \* bound: raw data sets pushed to the end
  MaxMishaps     \* bound: statements the database fails and ends of the process

ASSUME RawDataAssumption ==
  /\ Nobody \notin Device
  /\ Blocks \in [Measurement -> Nat \ {0}]
  /\ MaxTransfers \in Nat
  /\ MaxMishaps \in Nat

Row == Device \X Measurement
Part == {"base", "afterExposure"}
NoId == 0

VARIABLES
  idDevice,    \* idDevice of each handler
  buffer,      \* rawDataSetAssemblyBuffer
  hpc,         \* the next statement of the handler
  part,        \* the sweep it inserts
  newId,       \* baseId and afterExposureId
  lastId,      \* LAST_INSERT_ID() of its database connection
  sent,        \* the last block its device sent, or the measurement it logs
  logged,      \* the measurements whose log was answered
  measured,    \* table of measurements
  required,    \* the column that asks for raw data
  asked,       \* history: the rows for which it was ever set
  sweeps,      \* table of sweeps, with its points
  sets,        \* table of raw data sets: the sweeps of each row
  transfers, faults, crashes

session == <<idDevice, buffer, part, newId, lastId, sent>>
tables == <<measured, required, asked, sweeps, sets>>
vars == <<session, hpc, logged, tables, transfers, faults, crashes>>

Block == UNION {{[m |-> m, i |-> i] : i \in 1..Blocks[m]} : m \in Measurement}
NoBlock == [m |-> Nobody, i |-> 0]
Junk == NoBlock  \* what realloc() does not initialise

(* The states of a handler between two statements. *)
Storing == {"insert", "select", "points", "link", "clear", "respond"}
Logging == {"log", "logRaw", "logRespond"}

Id == NoId..(2 * MaxTransfers)

TypeOK ==
  /\ idDevice \in [Handler -> Device \cup {Nobody}]
  /\ buffer \in [Handler -> Seq(Block \cup {Junk})]
  /\ hpc \in [Handler -> {"idle"} \cup Storing \cup Logging]
  /\ \A h \in Handler : hpc[h] \in Storing =>
       /\ idDevice[h] # Nobody
       /\ sent[h] \in Block
       /\ Len(buffer[h]) = Blocks[sent[h].m]
  /\ part \in [Handler -> Part]
  /\ newId \in [Handler -> [Part -> Id]]
  /\ lastId \in [Handler -> Id]
  /\ logged \subseteq Row
  /\ measured \subseteq Row
  /\ required \subseteq asked /\ asked \subseteq measured
  /\ Len(sweeps) <= 2 * MaxTransfers
  /\ DOMAIN sets \subseteq Row /\ \A r \in DOMAIN sets : sets[r] \in [Part -> Id]
  /\ transfers \in 0..MaxTransfers
  /\ faults \in Nat /\ crashes \in Nat /\ faults + crashes <= MaxMishaps

Init ==
  /\ idDevice = [h \in Handler |-> Nobody]
  /\ buffer = [h \in Handler |-> <<>>]
  /\ hpc = [h \in Handler |-> "idle"]
  /\ part = [h \in Handler |-> "base"]
  /\ newId = [h \in Handler |-> [p \in Part |-> NoId]]
  /\ lastId = [h \in Handler |-> NoId]
  /\ sent = [h \in Handler |-> NoBlock]
  /\ logged = {}
  /\ measured = {} /\ required = {} /\ asked = {}
  /\ sweeps = <<>>
  /\ sets = [r \in {} |-> <<>>]
  /\ transfers = 0
  /\ faults = 0
  /\ crashes = 0

(* A statement throws SQLException; every database function catches it. *)
Fails == faults + crashes < MaxMishaps /\ faults' = faults + 1

Goes(h, from, to) == hpc[h] = from /\ hpc' = [hpc EXCEPT ![h] = to]

-----------------------------------------------------------------------------
(* Registration and the end of a session *)

(* handleDeviceRegistrationRequest(), also once more, and as another device:
   the assembly buffer stays. *)
Register(h, d) ==
  /\ hpc[h] = "idle"
  /\ idDevice' = [idDevice EXCEPT ![h] = d]
  /\ UNCHANGED <<buffer, hpc, part, newId, lastId, sent, logged, tables, transfers, faults, crashes>>

(* MQS_GOODBYE_REQUEST, and the handler of the next connection. *)
Goodbye(h) ==
  /\ hpc[h] = "idle"
  /\ idDevice' = [idDevice EXCEPT ![h] = Nobody]
  /\ buffer' = [buffer EXCEPT ![h] = <<>>]
  /\ sent' = [sent EXCEPT ![h] = NoBlock]
  /\ UNCHANGED <<hpc, part, newId, lastId, logged, tables, transfers, faults, crashes>>

-----------------------------------------------------------------------------
(* handleDataLogPushRequest() and mysqlInsertDataSet() *)

RowOf(h) == <<idDevice[h], sent[h].m>>

LogPush(h, m) ==
  /\ idDevice[h] # Nobody
  /\ Goes(h, "idle", "log")
  /\ sent' = [sent EXCEPT ![h] = [m |-> m, i |-> 1]]
  /\ UNCHANGED <<idDevice, buffer, part, newId, lastId, logged, tables, transfers, faults, crashes>>

(* Mutant: the row of the second table is left to the upload of the data. *)
OneInsert == "logRespond"
AfterInsert == "logRaw"

InsertMeasurement(h) ==
  /\ \/ /\ Goes(h, "log", AfterInsert)
        /\ measured' = measured \cup {RowOf(h)}
        /\ faults' = faults
     \/ /\ Goes(h, "log", "logRespond")
        /\ Fails
        /\ measured' = measured
  /\ UNCHANGED <<session, logged, required, asked, sweeps, sets, transfers, crashes>>

(* The row insertRawDataSet() will update. *)
InsertEmptySet(h) ==
  /\ Goes(h, "logRaw", "logRespond")
  /\ \/ /\ sets' = [r \in DOMAIN sets \cup {RowOf(h)} |->
                      IF r \in DOMAIN sets THEN sets[r] ELSE [p \in Part |-> NoId]]
        /\ faults' = faults
     \/ Fails /\ sets' = sets
  /\ UNCHANGED <<session, logged, measured, required, asked, sweeps, transfers, crashes>>

(* The response does not tell whether the statements succeeded. *)
LogRespond(h) ==
  /\ Goes(h, "logRespond", "idle")
  /\ logged' = logged \cup {RowOf(h)}
  /\ sent' = [sent EXCEPT ![h] = NoBlock]
  /\ UNCHANGED <<idDevice, buffer, part, newId, lastId, tables, transfers, faults, crashes>>

(* What mysqlGetDataRequired() finds for device d: the column is set, and the
   second table has no row (the test of the repository names it raw_datasets,
   the table InsertEmptySet writes to).  The request changes nothing. *)
DataRequired(d) == {m \in Measurement : <<d, m>> \in required /\ <<d, m>> \notin DOMAIN sets}

(* External: somebody wants the raw data of a measurement. *)
Require(r) ==
  /\ r \in measured
  /\ required' = required \cup {r}
  /\ asked' = asked \cup {r}
  /\ UNCHANGED <<session, hpc, logged, measured, sweeps, sets, transfers, faults, crashes>>

-----------------------------------------------------------------------------
(* handleRawDataPushRequest() and checkAssemblyBuffer() *)

Block1Again(h, m) == [k \in 1..Blocks[m] |-> IF k <= Len(buffer[h]) THEN buffer[h][k] ELSE Junk]

(* Mutant: the total length is not compared. *)
NoLengthTest(h, b) == TRUE
SameLength(h, b) == Blocks[b.m] = Len(buffer[h])

(* The buffer checkAssemblyBuffer() leaves when it lets b pass. *)
Prepared(h, b) == IF b.i = 1 THEN Block1Again(h, b.m) ELSE buffer[h]
Passes(h, b) == b.i = 1 \/ SameLength(h, b)

(* What a device may send: the first block, the next one, or the last one
   again. *)
Sendable(h, b) ==
  /\ <<idDevice[h], b.m>> \in logged
  /\ b.i <= Blocks[b.m]
  /\ \/ b.i = 1
     \/ sent[h] # NoBlock /\ sent[h].m = b.m /\ b.i \in {sent[h].i, sent[h].i + 1}

Push(h, b) ==
  /\ hpc[h] = "idle"
  /\ Sendable(h, b)
  /\ sent' = [sent EXCEPT ![h] = b]
  /\ UNCHANGED <<idDevice, lastId, logged, tables, faults, crashes>>

(* A block that is refused: no response. *)
PushRefused(h, b) ==
  /\ Push(h, b)
  /\ ~Passes(h, b)
  /\ UNCHANGED <<buffer, hpc, part, newId, transfers>>

PushPart(h, b) ==
  /\ Push(h, b)
  /\ Passes(h, b)
  /\ b.i < Blocks[b.m]
  /\ buffer' = [buffer EXCEPT ![h] = [Prepared(h, b) EXCEPT ![b.i] = b]]
  /\ UNCHANGED <<hpc, part, newId, transfers>>

(* offset + length = totalLength: mysqlInsertRawDataSet() begins. *)
PushLast(h, b) ==
  /\ Push(h, b)
  /\ Passes(h, b)
  /\ b.i = Blocks[b.m]
  /\ transfers < MaxTransfers
  /\ transfers' = transfers + 1
  /\ buffer' = [buffer EXCEPT ![h] = [Prepared(h, b) EXCEPT ![b.i] = b]]
  /\ hpc' = [hpc EXCEPT ![h] = "insert"]
  /\ part' = [part EXCEPT ![h] = "base"]
  /\ newId' = [newId EXCEPT ![h] = [p \in Part |-> NoId]]

-----------------------------------------------------------------------------
(* mysqlInsertRawDataSet() and mysqlUpdateDataRequired() *)

(* insertRawDataSweep(), INSERT.  A sweep is told by what it was made of. *)
InsertSweep(h) ==
  /\ \/ /\ Goes(h, "insert", "select")
        /\ sweeps' = Append(sweeps, [part |-> part[h], data |-> buffer[h], points |-> FALSE])
        /\ lastId' = [lastId EXCEPT ![h] = Len(sweeps')]
        /\ faults' = faults
     \/ /\ Goes(h, "insert", "points")
        /\ Fails
        /\ UNCHANGED <<sweeps, lastId>>
  /\ UNCHANGED <<idDevice, buffer, part, newId, sent, logged, measured, required, asked, sets, transfers, crashes>>

(* Mutant: the largest key of the table. *)
LargestId(h) == Len(sweeps)
LastInsertId(h) == lastId[h]

(* SELECT LAST_INSERT_ID() *)
SelectId(h) ==
  /\ Goes(h, "select", "points")
  /\ \/ /\ newId' = [newId EXCEPT ![h][part[h]] = LastInsertId(h)]
        /\ faults' = faults
     \/ Fails /\ newId' = newId
  /\ UNCHANGED <<idDevice, buffer, part, lastId, sent, logged, tables, transfers, crashes>>

(* Mutant: the column is cleared before the raw data set is there. *)
ClearsFirst == [points |-> "clear", clear |-> "link", link |-> "respond"]
After == [points |-> "link", link |-> "clear", clear |-> "respond"]

(* insertRawDatapoints(); the second sweep follows the first. *)
InsertPoints(h) ==
  LET id == newId[h][part[h]] IN
  /\ Goes(h, "points", IF part[h] = "base" THEN "insert" ELSE After.points)
  /\ part' = [part EXCEPT ![h] = "afterExposure"]
  /\ \/ /\ sweeps' = IF id = NoId THEN sweeps ELSE [sweeps EXCEPT ![id].points = TRUE]
        /\ faults' = faults
     \/ Fails /\ sweeps' = sweeps
  /\ UNCHANGED <<idDevice, buffer, newId, lastId, sent, logged, measured, required, asked, sets, transfers, crashes>>

(* idMeasurement is in the first block. *)
Stored(h) == <<idDevice[h], buffer[h][1].m>>

(* insertRawDataSet(): an UPDATE, which finds the row or changes nothing. *)
LinkSweeps(h) ==
  /\ Goes(h, "link", After.link)
  /\ \/ /\ sets' = [r \in DOMAIN sets |-> IF r = Stored(h) THEN newId[h] ELSE sets[r]]
        /\ faults' = faults
     \/ Fails /\ sets' = sets
  /\ UNCHANGED <<session, logged, measured, required, asked, sweeps, transfers, crashes>>

(* mysqlUpdateDataRequired(), whatever became of the raw data. *)
ClearRequired(h) ==
  /\ Goes(h, "clear", After.clear)
  /\ \/ /\ required' = required \ {Stored(h)}
        /\ faults' = faults
     \/ Fails /\ required' = required
  /\ UNCHANGED <<session, logged, measured, asked, sweeps, sets, transfers, crashes>>

(* MQS_RAW_DATA_PUSH_RESPONSE, and free(). *)
Respond(h) ==
  /\ Goes(h, "respond", "idle")
  /\ buffer' = [buffer EXCEPT ![h] = <<>>]
  /\ UNCHANGED <<idDevice, part, newId, lastId, sent, logged, tables, transfers, faults, crashes>>

-----------------------------------------------------------------------------
(* The process ends, by the SIGPIPE of any handler (EpollServer.Sigpipe) or
   otherwise, and is started again.  What has been committed stays. *)
Crash ==
  /\ faults + crashes < MaxMishaps
  /\ crashes' = crashes + 1
  /\ idDevice' = [h \in Handler |-> Nobody]
  /\ buffer' = [h \in Handler |-> <<>>]
  /\ hpc' = [h \in Handler |-> "idle"]
  /\ part' = [h \in Handler |-> "base"]
  /\ newId' = [h \in Handler |-> [p \in Part |-> NoId]]
  /\ lastId' = [h \in Handler |-> NoId]
  /\ sent' = [h \in Handler |-> NoBlock]
  /\ UNCHANGED <<logged, tables, transfers, faults>>

-----------------------------------------------------------------------------
Store(h) ==
  \/ InsertSweep(h) \/ SelectId(h) \/ InsertPoints(h)
  \/ LinkSweeps(h) \/ ClearRequired(h) \/ Respond(h)
Log(h) == InsertMeasurement(h) \/ InsertEmptySet(h) \/ LogRespond(h)
Blockwise(h, b) == PushRefused(h, b) \/ PushPart(h, b) \/ PushLast(h, b)

Next ==
  \/ \E h \in Handler :
       \/ Store(h) \/ Log(h) \/ Goodbye(h)
       \/ \E d \in Device : Register(h, d)
       \/ \E m \in Measurement : LogPush(h, m)
       \/ \E b \in Block : Blockwise(h, b)
  \/ \E r \in Row : Require(r)
  \/ Crash

Spec == Init /\ [][Next]_vars

-----------------------------------------------------------------------------
Whole(m) == [i \in 1..Blocks[m] |-> [m |-> m, i |-> i]]

(* A row of the table of raw data sets refers to sweeps of its own
   measurement, made of all blocks in their places, whatever is repeated
   or abandoned, however the handlers interleave and whichever statement
   fails (checkAssemblyBuffer(), LAST_INSERT_ID() of a connection lent to one
   handler). *)
SetsMatch ==
  \A r \in DOMAIN sets, p \in Part :
    sets[r][p] # NoId =>
      LET sweep == sweeps[sets[r][p]] IN
      /\ sweep.part = p
      /\ sweep.data = Whole(r[2])

(* The raw data set of row r is there, with the points of its sweeps. *)
StoredWhole(r) ==
  /\ r \in DOMAIN sets
  /\ \A p \in Part : sets[r][p] # NoId /\ sweeps[sets[r][p]].points

(* Of the raw data that somebody wants, the column goes on saying so until
   it is stored with its points: handleRawDataPushRequest() clears the column
   last, and a crash between two statements leaves it set.  Nobody looks at
   the result of a statement, but each one that fails costs the column of one
   row at most.  It says nothing of what devices are asked: see the next. *)
ColumnKeptUntilStored ==
  Cardinality({r \in asked \ required : ~StoredWhole(r)}) <= faults

(* What devices are asked for: the query leaves out the rows of the second
   table, where mysqlInsertDataSet() puts a row when the measurement is
   logged.  Without a failing statement or a crash a device is therefore never
   asked for a measurement, but between the two INSERTs of its log, and the
   data somebody wants arrives only if the device sends it unasked. *)
AskedOnlyAfterMishap ==
  faults + crashes = 0 =>
    \A d \in Device : \A m \in DataRequired(d) :
      \E h \in Handler : hpc[h] = "logRaw" /\ RowOf(h) = <<d, m>>
=============================================================================
