--------------------------- MODULE RawDataProofs ---------------------------
(* Theorems about RawData for any number of handlers, devices, measurements and
   blocks, and any number of failing statements and crashes. *)
EXTENDS RawData, FiniteSetTheorems, TLAPS

-----------------------------------------------------------------------------
(* Blocks and assembled buffers. *)

LEMMA BlockFacts ==
  /\ Nobody \notin Device
  /\ \A m \in Measurement : Blocks[m] \in Nat /\ Blocks[m] > 0
  /\ \A m \in Measurement : \A i \in 1..Blocks[m] : [m |-> m, i |-> i] \in Block
  /\ \A b \in Block : /\ b.m \in Measurement /\ b.i \in 1..Blocks[b.m]
                      /\ b = [m |-> b.m, i |-> b.i]
  /\ NoBlock \notin Block /\ NoBlock.i = 0
  /\ NoId = 0 /\ MaxTransfers \in Nat /\ MaxMishaps \in Nat
<1>1. /\ Nobody \notin Device /\ MaxTransfers \in Nat /\ MaxMishaps \in Nat
      /\ \A m \in Measurement : Blocks[m] \in Nat /\ Blocks[m] > 0
  BY RawDataAssumption
<1>2. \A m \in Measurement : \A i \in 1..Blocks[m] : [m |-> m, i |-> i] \in Block
  BY DEF Block
<1>3. ASSUME NEW b \in Block
      PROVE  b.m \in Measurement /\ b.i \in 1..Blocks[b.m] /\ b = [m |-> b.m, i |-> b.i]
  BY DEF Block
<1>4. NoBlock.i = 0 /\ NoId = 0
  BY DEF NoBlock, NoId
<1>5. NoBlock \notin Block
  BY <1>1, <1>3, <1>4
<1> QED  BY <1>1, <1>2, <1>3, <1>4, <1>5

Buffer == Seq(Block \cup {Junk})
Sweep == [part : Part, data : Buffer, points : BOOLEAN]

LEMMA WholeFacts ==
  ASSUME NEW m \in Measurement
  PROVE  Whole(m) \in Buffer /\ Len(Whole(m)) = Blocks[m] /\ Whole(m)[1].m = m
<1>1. Blocks[m] \in Nat /\ 1 \in 1..Blocks[m]
  BY BlockFacts
<1>2. \A i \in 1..Blocks[m] : [m |-> m, i |-> i] \in Block \cup {Junk}
  BY BlockFacts
<1> QED  BY <1>1, <1>2 DEF Whole, Buffer

-----------------------------------------------------------------------------
(* The inductive invariant. *)

Sessions ==
  /\ idDevice \in [Handler -> Device \cup {Nobody}]
  /\ buffer \in [Handler -> Buffer]
  /\ hpc \in [Handler -> {"idle"} \cup Storing \cup Logging]
  /\ part \in [Handler -> Part]
  /\ newId \in [Handler -> [Part -> Id]]
  /\ lastId \in [Handler -> Id]
  /\ sent \in [Handler -> Block \cup {NoBlock}]

Tables ==
  /\ logged \subseteq Row /\ measured \subseteq Row
  /\ required \subseteq asked /\ asked \subseteq measured
  /\ sweeps \in Seq(Sweep)
  /\ DOMAIN sets \subseteq Row /\ \A r \in DOMAIN sets : sets[r] \in [Part -> Id]

Counters ==
  /\ transfers \in 0..MaxTransfers
  /\ faults \in Nat /\ crashes \in Nat /\ faults + crashes <= MaxMishaps

(* The buffer is filled in the order in which the blocks are sent: it holds the
   blocks up to the one sent last, unless it was given away and is empty. *)
InOrder(h) ==
  \/ buffer[h] = <<>>
  \/ /\ Len(buffer[h]) = Blocks[sent[h].m]
     /\ \A i \in 1..sent[h].i : buffer[h][i] = [m |-> sent[h].m, i |-> i]

Session(h) ==
  /\ hpc[h] \in Logging => sent[h] \in Block /\ RowOf(h) \in Row
  /\ hpc[h] \in Storing =>
       sent[h] \in Block /\ RowOf(h) \in logged /\ buffer[h] = Whole(sent[h].m)
  /\ hpc[h] = "idle" /\ sent[h] # NoBlock => InOrder(h)

(* A key of a sweep of part p of measurement m. *)
KeyOf(id, p, m) ==
  /\ id \in 1..Len(sweeps)
  /\ sweeps[id].part = p
  /\ sweeps[id].data = Whole(m)

(* What a handler knows of keys while it stores a set. *)
Keys(h) ==
  /\ hpc[h] = "select" => KeyOf(lastId[h], part[h], sent[h].m)
  /\ hpc[h] \in Storing =>
       \A p \in Part : newId[h][p] # NoId => KeyOf(newId[h][p], p, sent[h].m)

SetsOfKeys ==
  \A r \in DOMAIN sets, p \in Part : sets[r][p] # NoId => KeyOf(sets[r][p], p, r[2])

(* The sweeps that are still to be inserted, two at most for each transfer. *)
ToInsert(h, p) ==
  \/ hpc[h] = "insert" /\ part[h] \in {p, "base"}
  \/ hpc[h] \in {"select", "points"} /\ part[h] = "base" /\ p = "afterExposure"
Pending == {x \in Handler \X Part : ToInsert(x[1], x[2])}
Room == IsFiniteSet(Pending) /\ Len(sweeps) + Cardinality(Pending) <= 2 * transfers

RawInv ==
  /\ Sessions /\ Tables /\ Counters
  /\ \A h \in Handler : Session(h) /\ Keys(h)
  /\ SetsOfKeys
  /\ Room

-----------------------------------------------------------------------------
(* The rows a failure may cost, one for each failure at most.  A handler is
   astray when a sweep it has passed has no key or no points, or what it has
   linked is not whole any more. *)

Good(id) == id # NoId /\ sweeps[id].points

Astray(h) ==
  \/ hpc[h] \in {"insert", "select", "points"} /\ part[h] = "afterExposure" /\ ~Good(newId[h]["base"])
  \/ hpc[h] = "points" /\ newId[h][part[h]] = NoId
  \/ hpc[h] = "link" /\ \E p \in Part : ~Good(newId[h][p])
  \/ hpc[h] = "clear" /\ ~StoredWhole(RowOf(h))

(* Rows whose log was answered without a raw data set to update. *)
Unlisted(r) ==
  /\ r \notin DOMAIN sets
  /\ r \in logged \/ \E h \in Handler : hpc[h] = "logRespond" /\ RowOf(h) = r

Lost == {r \in asked \ required : ~StoredWhole(r)}
Suspect == {r \in Row : \/ r \in Lost
                        \/ Unlisted(r)
                        \/ \E h \in Handler : Astray(h) /\ RowOf(h) = r}

Losses == IsFiniteSet(Suspect) /\ Cardinality(Suspect) <= faults

-----------------------------------------------------------------------------
(* Steps. *)

HandlerStep(h) ==
  \/ Store(h) \/ Log(h) \/ Goodbye(h)
  \/ \E d \in Device : Register(h, d)
  \/ \E m \in Measurement : LogPush(h, m)
  \/ \E b \in Block : Blockwise(h, b)

LEMMA TypesFrom == RawInv => TypeOK
<1> SUFFICES ASSUME RawInv PROVE TypeOK
  OBVIOUS
<1>1. ASSUME NEW h \in Handler, hpc[h] \in Storing
      PROVE  /\ idDevice[h] # Nobody
             /\ sent[h] \in Block
             /\ Len(buffer[h]) = Blocks[sent[h].m]
  <2>1. sent[h] \in Block /\ RowOf(h) \in Row /\ buffer[h] = Whole(sent[h].m)
    BY <1>1 DEF RawInv, Session, Tables
  <2>2. idDevice[h] \in Device /\ sent[h].m \in Measurement
    BY <2>1, BlockFacts DEF RowOf, Row
  <2> QED  BY <2>1, <2>2, BlockFacts, WholeFacts
<1>2. Len(sweeps) <= 2 * MaxTransfers
  <2>1. Cardinality(Pending) \in Nat /\ Len(sweeps) + Cardinality(Pending) <= 2 * transfers
    BY FS_CardinalityType DEF RawInv, Room
  <2>2. Len(sweeps) \in Nat /\ transfers \in Nat /\ transfers <= MaxTransfers
    BY BlockFacts DEF RawInv, Tables, Counters
  <2> QED  BY <2>1, <2>2, BlockFacts
<1> QED  BY <1>1, <1>2 DEF RawInv, Sessions, Tables, Counters, TypeOK, Buffer

LEMMA RawInit == Init => RawInv
<1> SUFFICES ASSUME Init PROVE RawInv
  OBVIOUS
<1>1. Sessions /\ Tables /\ Counters
  BY BlockFacts DEF Init, Sessions, Tables, Counters, Buffer, Part, Id, NoId
<1>2. \A h \in Handler : Session(h) /\ Keys(h)
  BY DEF Init, Session, Keys, Storing, Logging
<1>3. SetsOfKeys
  BY DEF Init, SetsOfKeys
<1>4. Pending = {}
  BY DEF Init, Pending, ToInsert
<1>5. Room
  BY <1>4, FS_EmptySet DEF Init, Room
<1> QED  BY <1>1, <1>2, <1>3, <1>5 DEF RawInv

(* Sweeps are only appended, and points only added to them. *)
SweepsGrow ==
  /\ Len(sweeps) <= Len(sweeps')
  /\ \A i \in 1..Len(sweeps) :
       /\ sweeps'[i].part = sweeps[i].part
       /\ sweeps'[i].data = sweeps[i].data
       /\ sweeps[i].points => sweeps'[i].points

LEMMA Grows ==
  ASSUME RawInv, NEW h \in Handler, InsertSweep(h) \/ InsertPoints(h) \/ UNCHANGED sweeps
  PROVE  SweepsGrow /\ sweeps' \in Seq(Sweep)
<1>1. sweeps \in Seq(Sweep) /\ Len(sweeps) \in Nat
  BY DEF RawInv, Tables
<1>2. CASE UNCHANGED sweeps
  BY <1>1, <1>2 DEF SweepsGrow
<1>3. CASE InsertSweep(h)
  <2>1. \/ UNCHANGED sweeps
        \/ sweeps' = Append(sweeps, [part |-> part[h], data |-> buffer[h], points |-> FALSE])
    BY <1>3 DEF InsertSweep
  <2>2. [part |-> part[h], data |-> buffer[h], points |-> FALSE] \in Sweep
    BY DEF RawInv, Sessions, Sweep
  <2> QED  BY <1>1, <1>2, <2>1, <2>2 DEF SweepsGrow
<1>4. CASE InsertPoints(h)
  <2> DEFINE id == newId[h][part[h]]
  <2>1. \/ UNCHANGED sweeps
        \/ id # NoId /\ sweeps' = [sweeps EXCEPT ![id].points = TRUE]
    BY <1>4 DEF InsertPoints
  <2>2. id # NoId => id \in 1..Len(sweeps)
    BY <1>4 DEF InsertPoints, Goes, RawInv, Keys, KeyOf, Sessions, Storing
  <2> HIDE DEF id
  <2>3. CASE id # NoId /\ sweeps' = [sweeps EXCEPT ![id].points = TRUE]
    <3>1. /\ sweeps[id] \in Sweep
          /\ sweeps' = [sweeps EXCEPT ![id] = [sweeps[id] EXCEPT !.points = TRUE]]
      BY <1>1, <2>2, <2>3
    <3>2. [sweeps[id] EXCEPT !.points = TRUE] \in Sweep
      BY <3>1 DEF Sweep
    <3>3. sweeps' \in Seq(Sweep) /\ Len(sweeps') = Len(sweeps)
      BY <1>1, <2>2, <2>3, <3>1, <3>2
    <3>4. \A i \in 1..Len(sweeps) :
            sweeps'[i] = IF i = id THEN [sweeps[id] EXCEPT !.points = TRUE] ELSE sweeps[i]
      BY <1>1, <2>2, <2>3, <3>1
    <3>5. \A i \in 1..Len(sweeps) : sweeps[i] \in Sweep
      BY <1>1
    <3> QED  BY <1>1, <2>2, <3>1, <3>3, <3>4, <3>5 DEF SweepsGrow, Sweep
  <2> QED  BY <1>2, <2>1, <2>3
<1> QED  BY <1>2, <1>3, <1>4

NextKeyOf(id, p, m) ==
  /\ id \in 1..Len(sweeps')
  /\ sweeps'[id].part = p
  /\ sweeps'[id].data = Whole(m)

LEMMA KeyStays ==
  ASSUME RawInv, SweepsGrow, sweeps' \in Seq(Sweep)
  PROVE  \A id, p, m : KeyOf(id, p, m) => NextKeyOf(id, p, m)
<1>1. Len(sweeps) \in Nat /\ Len(sweeps') \in Nat /\ Len(sweeps) <= Len(sweeps')
  BY DEF RawInv, Tables, SweepsGrow
<1> QED  BY <1>1 DEF KeyOf, NextKeyOf, SweepsGrow

Same(h) ==
  /\ idDevice'[h] = idDevice[h] /\ buffer'[h] = buffer[h] /\ hpc'[h] = hpc[h]
  /\ part'[h] = part[h] /\ newId'[h] = newId[h] /\ lastId'[h] = lastId[h]
  /\ sent'[h] = sent[h]

(* A handler's step leaves the sessions of the others alone. *)
LEMMA Others ==
  ASSUME RawInv, NEW g \in Handler, HandlerStep(g), NEW h \in Handler, h # g
  PROVE  Same(h)
<1>1. CASE Store(g)
  BY <1>1
     DEF RawInv, Sessions, Store, InsertSweep, SelectId, InsertPoints, LinkSweeps, ClearRequired,
         Respond, Goes, session, Same
<1>2. CASE Log(g)
  BY <1>2
     DEF RawInv, Sessions, Log, InsertMeasurement, InsertEmptySet, LogRespond, Goes, session, Same
<1>3. CASE Goodbye(g) \/ \E d \in Device : Register(g, d)
  BY <1>3 DEF RawInv, Sessions, Goodbye, Register, Same
<1>4. CASE \E m \in Measurement : LogPush(g, m)
  BY <1>4 DEF RawInv, Sessions, LogPush, Goes, Same
<1>5. CASE \E b \in Block : Blockwise(g, b)
  BY <1>5 DEF RawInv, Sessions, Blockwise, PushRefused, PushPart, PushLast, Push, Same
<1> QED  BY <1>1, <1>2, <1>3, <1>4, <1>5 DEF HandlerStep

LEMMA SameKeeps ==
  ASSUME RawInv, SweepsGrow, sweeps' \in Seq(Sweep), logged \subseteq logged',
         NEW h \in Handler, Same(h)
  PROVE  Session(h)' /\ Keys(h)'
<1>1. Session(h)'
  BY DEF RawInv, Session, Same, RowOf, InOrder, Whole
<1>2. Keys(h)'
  <2>1. hpc[h] = "select" => NextKeyOf(lastId[h], part[h], sent[h].m)
    BY KeyStays DEF RawInv, Keys
  <2>2. hpc[h] \in Storing =>
          \A p \in Part : newId[h][p] # NoId => NextKeyOf(newId[h][p], p, sent[h].m)
    BY KeyStays DEF RawInv, Keys
  <2> QED  BY <2>1, <2>2 DEF Keys, Same, KeyOf, NextKeyOf, Whole
<1> QED  BY <1>1, <1>2

(* Own steps of a handler: first while it stores a raw data set. *)
LEMMA StoringFacts ==
  ASSUME RawInv, NEW h \in Handler, hpc[h] \in Storing
  PROVE  /\ sent[h] \in Block /\ sent[h].m \in Measurement /\ idDevice[h] \in Device
         /\ RowOf(h) \in Row /\ RowOf(h) \in logged /\ buffer[h] = Whole(sent[h].m)
         /\ Stored(h) = RowOf(h)
<1>1. /\ sent[h] \in Block /\ RowOf(h) \in logged /\ RowOf(h) \in Row
      /\ buffer[h] = Whole(sent[h].m)
  BY DEF RawInv, Session, Tables
<1>2. idDevice[h] \in Device /\ sent[h].m \in Measurement
  BY <1>1, BlockFacts DEF RowOf, Row
<1>3. Stored(h) = RowOf(h)
  BY <1>1, <1>2, WholeFacts DEF Stored, RowOf
<1> QED  BY <1>1, <1>2, <1>3

LEMMA StaysStoring ==
  ASSUME RawInv, NEW h \in Handler, hpc[h] \in Storing, hpc'[h] \in Storing,
         UNCHANGED <<idDevice, buffer, sent, logged>>
  PROVE  Session(h)'
BY DEF RawInv, Session, Storing, Logging, RowOf, Whole

LEMMA InsertSweepKeys ==
  ASSUME RawInv, NEW h \in Handler, InsertSweep(h)
  PROVE  Session(h)' /\ Keys(h)'
<1>1. /\ hpc[h] = "insert" /\ hpc'[h] \in {"select", "points"} /\ newId' = newId /\ part' = part
      /\ UNCHANGED <<idDevice, buffer, sent, logged>>
  BY DEF InsertSweep, Goes, RawInv, Sessions
<1>2. hpc[h] \in Storing /\ hpc'[h] \in Storing
  BY <1>1 DEF Storing
<1>3. SweepsGrow /\ sweeps' \in Seq(Sweep)
  BY Grows
<1>4. \A p \in Part : newId[h][p] # NoId => NextKeyOf(newId[h][p], p, sent[h].m)
  BY <1>2, <1>3, KeyStays DEF RawInv, Keys
<1>5. hpc'[h] = "select" => NextKeyOf(lastId'[h], part[h], sent[h].m)
  <2>1. SUFFICES ASSUME hpc'[h] = "select" PROVE NextKeyOf(lastId'[h], part[h], sent[h].m)
    OBVIOUS
  <2>2. /\ sweeps' = Append(sweeps, [part |-> part[h], data |-> buffer[h], points |-> FALSE])
        /\ lastId'[h] = Len(sweeps')
    BY <1>1, <2>1 DEF InsertSweep, Goes, RawInv, Sessions
  <2>3. sweeps \in Seq(Sweep) /\ Len(sweeps) \in Nat /\ buffer[h] = Whole(sent[h].m)
    BY <1>2, StoringFacts DEF RawInv, Tables
  <2> QED  BY <2>2, <2>3 DEF NextKeyOf
<1>6. Session(h)'
  BY <1>1, <1>2, StaysStoring
<1> QED  BY <1>1, <1>4, <1>5, <1>6 DEF Keys, KeyOf, NextKeyOf, Whole

LEMMA SelectIdKeys ==
  ASSUME RawInv, NEW h \in Handler, SelectId(h)
  PROVE  Session(h)' /\ Keys(h)'
<1>1. /\ hpc[h] = "select" /\ hpc'[h] = "points"
      /\ newId' = newId \/ newId' = [newId EXCEPT ![h][part[h]] = lastId[h]]
      /\ UNCHANGED <<idDevice, buffer, part, sent, logged, sweeps>>
  BY DEF SelectId, Goes, RawInv, Sessions, LastInsertId, tables
<1>2. hpc[h] \in Storing /\ hpc'[h] \in Storing
  BY <1>1 DEF Storing
<1>3. KeyOf(lastId[h], part[h], sent[h].m) /\ part[h] \in Part
  BY <1>1 DEF RawInv, Keys, Sessions
<1>4. ASSUME NEW p \in Part, newId'[h][p] # NoId PROVE KeyOf(newId'[h][p], p, sent[h].m)
  <2>1. \/ newId'[h][p] = newId[h][p]
        \/ p = part[h] /\ newId'[h][p] = lastId[h]
    BY <1>1, <1>3 DEF RawInv, Sessions
  <2> QED  BY <1>2, <1>3, <1>4, <2>1 DEF RawInv, Keys
<1>5. Session(h)'
  BY <1>1, <1>2, StaysStoring
<1> QED  BY <1>1, <1>4, <1>5 DEF Keys, KeyOf, Whole

LEMMA StoreKeys ==
  ASSUME RawInv, NEW h \in Handler, InsertPoints(h) \/ LinkSweeps(h) \/ ClearRequired(h)
  PROVE  Session(h)' /\ Keys(h)'
<1>1. /\ hpc[h] \in {"points", "link", "clear"} /\ hpc'[h] \in {"insert", "link", "clear", "respond"}
      /\ UNCHANGED <<idDevice, buffer, newId, sent, logged>>
  BY DEF InsertPoints, LinkSweeps, ClearRequired, Goes, After, RawInv, Sessions, session
<1>2. hpc[h] \in Storing /\ hpc'[h] \in Storing
  BY <1>1 DEF Storing
<1>3. SweepsGrow /\ sweeps' \in Seq(Sweep)
  BY Grows DEF InsertPoints, LinkSweeps, ClearRequired
<1>4. \A p \in Part : newId[h][p] # NoId => NextKeyOf(newId[h][p], p, sent[h].m)
  BY <1>2, <1>3, KeyStays DEF RawInv, Keys
<1>5. Session(h)'
  BY <1>1, <1>2, StaysStoring
<1> QED  BY <1>1, <1>4, <1>5 DEF Keys, KeyOf, NextKeyOf, Whole

LEMMA RespondKeys ==
  ASSUME RawInv, NEW h \in Handler, Respond(h)
  PROVE  Session(h)' /\ Keys(h)'
<1>1. hpc'[h] = "idle" /\ buffer'[h] = <<>>
  BY DEF Respond, Goes, RawInv, Sessions
<1> QED  BY <1>1 DEF Session, Keys, InOrder, Storing, Logging

(* Then while it answers a log, registers or ends. *)
LEMMA LogKeys ==
  ASSUME RawInv, NEW h \in Handler, Log(h)
  PROVE  Session(h)' /\ Keys(h)'
<1>1. CASE LogRespond(h)
  <2>1. hpc'[h] = "idle" /\ sent'[h] = NoBlock
    BY <1>1 DEF LogRespond, Goes, RawInv, Sessions
  <2> QED  BY <2>1 DEF Session, Keys, Storing, Logging
<1>2. CASE InsertMeasurement(h) \/ InsertEmptySet(h)
  <2>1. /\ hpc[h] \in {"log", "logRaw"} /\ hpc'[h] \in {"logRaw", "logRespond"}
        /\ UNCHANGED <<idDevice, sent>>
    BY <1>2 DEF InsertMeasurement, AfterInsert, InsertEmptySet, Goes, RawInv, Sessions, session
  <2> QED  BY <2>1 DEF RawInv, Session, Keys, Storing, Logging, RowOf
<1> QED  BY <1>1, <1>2 DEF Log

LEMMA LogPushKeys ==
  ASSUME RawInv, NEW h \in Handler, NEW m \in Measurement, LogPush(h, m)
  PROVE  Session(h)' /\ Keys(h)'
<1>1. /\ hpc'[h] = "log" /\ idDevice[h] \in Device /\ idDevice' = idDevice
      /\ sent'[h] = [m |-> m, i |-> 1]
  BY DEF LogPush, Goes, RawInv, Sessions
<1>2. sent'[h] \in Block /\ sent'[h].m = m
  <2>1. 1 \in 1..Blocks[m]
    BY BlockFacts
  <2> QED  BY <1>1, <2>1, BlockFacts
<1> QED  BY <1>1, <1>2 DEF Session, Keys, Storing, Logging, RowOf, Row

LEMMA VisitKeys ==
  ASSUME RawInv, NEW h \in Handler, Goodbye(h) \/ \E d \in Device : Register(h, d)
  PROVE  Session(h)' /\ Keys(h)'
<1>1. hpc'[h] = "idle" /\ hpc[h] = "idle"
  BY DEF Goodbye, Register
<1>2. sent'[h] = NoBlock \/ UNCHANGED <<sent, buffer>>
  BY DEF Goodbye, Register, RawInv, Sessions
<1> QED  BY <1>1, <1>2 DEF RawInv, Session, Keys, InOrder, Storing, Logging

(* At last while blocks are put together. *)
Filled(h, b) == [Prepared(h, b) EXCEPT ![b.i] = b]

LEMMA FilledFacts ==
  ASSUME RawInv, NEW h \in Handler, hpc[h] = "idle", NEW b \in Block, Sendable(h, b), Passes(h, b)
  PROVE  /\ Filled(h, b) \in Buffer /\ Len(Filled(h, b)) = Blocks[b.m]
         /\ \A i \in 1..b.i : Filled(h, b)[i] = [m |-> b.m, i |-> i]
<1>1. /\ b.m \in Measurement /\ b.i \in 1..Blocks[b.m] /\ b = [m |-> b.m, i |-> b.i]
      /\ Blocks[b.m] \in Nat /\ Blocks[b.m] > 0
  BY BlockFacts
<1>2. buffer[h] \in Buffer
  BY DEF RawInv, Sessions
<1>3. CASE b.i = 1
  <2> DEFINE s == Block1Again(h, b.m)
  <2>1. s \in [1..Blocks[b.m] -> Block \cup {Junk}]
    BY <1>1, <1>2 DEF Block1Again, Buffer
  <2>2. Filled(h, b) = [s EXCEPT ![b.i] = b]
    BY <1>3 DEF Filled, Prepared
  <2> HIDE DEF s
  <2>3. Filled(h, b) \in [1..Blocks[b.m] -> Block \cup {Junk}] /\ Filled(h, b)[1] = b
    BY <1>1, <1>3, <2>1, <2>2
  <2>4. Filled(h, b) \in Buffer /\ Len(Filled(h, b)) = Blocks[b.m]
    BY <1>1, <2>3 DEF Buffer
  <2> QED  BY <1>1, <1>3, <2>3, <2>4
<1>4. CASE b.i # 1
  <2>1. Len(buffer[h]) = Blocks[b.m] /\ Filled(h, b) = [buffer[h] EXCEPT ![b.i] = b]
    BY <1>4 DEF Passes, SameLength, Filled, Prepared
  <2>2. sent[h] # NoBlock /\ sent[h].m = b.m /\ b.i \in {sent[h].i, sent[h].i + 1}
    BY <1>4 DEF Sendable
  <2>3. sent[h] \in Block
    BY <2>2 DEF RawInv, Sessions
  <2>4. InOrder(h)
    BY <2>2 DEF RawInv, Session
  <2>5. \A i \in 1..sent[h].i : buffer[h][i] = [m |-> b.m, i |-> i]
    <3>1. buffer[h] # <<>>
      BY <1>1, <2>1
    <3> QED  BY <2>2, <2>4, <3>1 DEF InOrder
  <2>6. Filled(h, b) \in Buffer /\ Len(Filled(h, b)) = Blocks[b.m]
    BY <1>1, <1>2, <2>1 DEF Buffer
  <2>7. \A i \in 1..Blocks[b.m] : Filled(h, b)[i] = IF i = b.i THEN b ELSE buffer[h][i]
    BY <1>1, <1>2, <2>1 DEF Buffer
  <2>8. ASSUME NEW i \in 1..b.i PROVE Filled(h, b)[i] = [m |-> b.m, i |-> i]
    <3>1. i \in 1..Blocks[b.m] /\ (i = b.i \/ i \in 1..sent[h].i)
      <4>1. sent[h].i \in Nat
        BY <2>3, BlockFacts
      <4> QED  BY <1>1, <2>2, <4>1
    <3> QED  BY <1>1, <2>5, <2>7, <3>1
  <2> QED  BY <2>6, <2>8
<1> QED  BY <1>3, <1>4

LEMMA BlockwiseKeys ==
  ASSUME RawInv, NEW h \in Handler, NEW b \in Block, Blockwise(h, b)
  PROVE  Session(h)' /\ Keys(h)' /\ buffer' \in [Handler -> Buffer]
<1>1. /\ hpc[h] = "idle" /\ Sendable(h, b) /\ sent'[h] = b
      /\ idDevice' = idDevice /\ logged' = logged
  BY DEF Blockwise, PushRefused, PushPart, PushLast, Push, RawInv, Sessions
<1>2. CASE PushRefused(h, b)
  <2>1. hpc'[h] = "idle" /\ buffer' = buffer /\ ~Passes(h, b)
    BY <1>1, <1>2 DEF PushRefused
  <2>2. /\ b.i # 1 /\ sent[h] # NoBlock /\ sent[h].m = b.m /\ Len(buffer[h]) # Blocks[b.m]
    BY <1>1, <2>1 DEF Passes, SameLength, Sendable
  <2>3. buffer[h] = <<>>
    BY <1>1, <2>2 DEF RawInv, Session, InOrder
  <2> QED  BY <2>1, <2>3 DEF RawInv, Sessions, Session, Keys, InOrder, Storing, Logging
<1>3. CASE PushPart(h, b) \/ PushLast(h, b)
  <2>1. Passes(h, b) /\ buffer' = [buffer EXCEPT ![h] = Filled(h, b)]
    BY <1>3 DEF PushPart, PushLast, Filled
  <2>2. /\ Filled(h, b) \in Buffer /\ Len(Filled(h, b)) = Blocks[b.m]
        /\ \A i \in 1..b.i : Filled(h, b)[i] = [m |-> b.m, i |-> i]
    BY <1>1, <2>1, FilledFacts
  <2>3. buffer' \in [Handler -> Buffer] /\ buffer'[h] = Filled(h, b)
    BY <2>1, <2>2 DEF RawInv, Sessions
  <2>4. CASE PushPart(h, b)
    <3>1. hpc'[h] = "idle"
      BY <1>1, <2>4 DEF PushPart
    <3>2. InOrder(h)'
      BY <1>1, <2>2, <2>3 DEF InOrder
    <3> QED  BY <2>3, <3>1, <3>2 DEF Session, Keys, Storing, Logging
  <2>5. CASE PushLast(h, b)
    <3>1. hpc'[h] = "insert" /\ b.i = Blocks[b.m] /\ \A p \in Part : newId'[h][p] = NoId
      BY <2>5 DEF PushLast, RawInv, Sessions
    <3>2. Filled(h, b) = Whole(b.m)
      <4>1. b.m \in Measurement /\ Blocks[b.m] \in Nat
        BY BlockFacts
      <4>2. Filled(h, b) = [i \in 1..Blocks[b.m] |-> Filled(h, b)[i]]
        BY <2>2, <4>1 DEF Buffer
      <4> QED  BY <2>2, <3>1, <4>2 DEF Whole
    <3>3. RowOf(h)' \in logged'
      BY <1>1 DEF RowOf, Sendable
    <3> QED  BY <1>1, <2>3, <3>1, <3>2, <3>3 DEF Session, Keys, Storing, Logging, Whole
  <2> QED  BY <1>3, <2>4, <2>5
<1> QED  BY <1>2, <1>3 DEF Blockwise

-----------------------------------------------------------------------------
(* Each transfer inserts two sweeps at most. *)

LEMMA PendingOwn ==
  ASSUME RawInv, NEW h \in Handler, NEW p \in Part, ToInsert(h, p)',
         \/ Store(h) \/ Log(h) \/ Goodbye(h)
         \/ \E d \in Device : Register(h, d)
         \/ \E m \in Measurement : LogPush(h, m)
         \/ \E b \in Block : PushRefused(h, b) \/ PushPart(h, b)
  PROVE  ToInsert(h, p) /\ (InsertSweep(h) => p # part[h])
<1>1. hpc'[h] \in {"insert", "select", "points"}
  BY DEF ToInsert
<1>2. CASE InsertSweep(h)
  <2>1. hpc[h] = "insert" /\ part' = part /\ hpc'[h] \in {"select", "points"}
    BY <1>2 DEF InsertSweep, Goes, RawInv, Sessions
  <2> QED  BY <2>1 DEF ToInsert, Part
<1>3. CASE SelectId(h)
  <2>1. hpc[h] = "select" /\ part' = part /\ hpc'[h] = "points"
    BY <1>3 DEF SelectId, Goes, RawInv, Sessions
  <2> QED  BY <1>3, <2>1 DEF ToInsert, InsertSweep, Goes
<1>4. CASE InsertPoints(h)
  <2>1. /\ hpc[h] = "points" /\ part'[h] = "afterExposure"
        /\ hpc'[h] = IF part[h] = "base" THEN "insert" ELSE "link"
    BY <1>4 DEF InsertPoints, Goes, RawInv, Sessions, After
  <2> QED  BY <1>4, <2>1 DEF ToInsert, Part, InsertSweep, Goes
<1>5. CASE LinkSweeps(h) \/ ClearRequired(h) \/ Respond(h) \/ Log(h)
  BY <1>1, <1>5
     DEF LinkSweeps, ClearRequired, Respond, Log, InsertMeasurement, InsertEmptySet, LogRespond,
         Goes, After, AfterInsert, RawInv, Sessions
<1>6. CASE \/ Goodbye(h) \/ \E d \in Device : Register(h, d)
           \/ \E m \in Measurement : LogPush(h, m)
           \/ \E b \in Block : PushRefused(h, b) \/ PushPart(h, b)
  BY <1>1, <1>6 DEF Goodbye, Register, LogPush, PushRefused, PushPart, Push, Goes, RawInv, Sessions
<1> QED  BY <1>2, <1>3, <1>4, <1>5, <1>6 DEF Store

LEMMA RoomFacts ==
  ASSUME RawInv
  PROVE  /\ IsFiniteSet(Pending) /\ Cardinality(Pending) \in Nat /\ Len(sweeps) \in Nat
         /\ transfers \in Nat /\ Len(sweeps) + Cardinality(Pending) <= 2 * transfers
BY FS_CardinalityType, BlockFacts DEF RawInv, Room, Tables, Counters

LEMMA OneMore ==
  ASSUME NEW S, IsFiniteSet(S), NEW x
  PROVE  /\ IsFiniteSet(S \cup {x})
         /\ Cardinality(S \cup {x}) \in Nat
         /\ Cardinality(S \cup {x}) <= Cardinality(S) + 1
<1>1. IsFiniteSet(S \cup {x}) /\ Cardinality(S) \in Nat
  BY FS_AddElement, FS_CardinalityType
<1>2. Cardinality(S \cup {x}) \in {Cardinality(S), Cardinality(S) + 1}
  BY FS_AddElement
<1> QED  BY <1>1, <1>2

(* A step that leaves a set of sweeps to insert that is no larger. *)
LEMMA RoomShrinks ==
  ASSUME RawInv, Pending' \subseteq Pending, Len(sweeps') = Len(sweeps), transfers' = transfers
  PROVE  Room'
<1>1. IsFiniteSet(Pending') /\ Cardinality(Pending') <= Cardinality(Pending)
  BY RoomFacts, FS_Subset
<1>2. Cardinality(Pending') \in Nat
  BY <1>1, FS_CardinalityType
<1> QED  BY <1>1, <1>2, RoomFacts DEF Room

LEMMA PendingOthers ==
  ASSUME RawInv, NEW h \in Handler, HandlerStep(h), NEW x \in Pending', x[1] # h
  PROVE  x \in Pending
<1>1. x \in Handler \X Part /\ ToInsert(x[1], x[2])'
  BY DEF Pending
<1>2. Same(x[1])
  BY <1>1, Others
<1> QED  BY <1>1, <1>2 DEF Pending, ToInsert, Same

LEMMA RoomKept ==
  ASSUME RawInv, NEW h \in Handler, HandlerStep(h)
  PROVE  Room'
<1>1. CASE \E b \in Block : PushLast(h, b)
  <2> DEFINE base == <<h, "base">>
             after == <<h, "afterExposure">>
  <2>1. Pending' \subseteq Pending \cup {base} \cup {after}
    <3> SUFFICES ASSUME NEW x \in Pending' PROVE x \in Pending \cup {base} \cup {after}
      OBVIOUS
    <3>1. x \in Handler \X Part
      BY DEF Pending
    <3>2. x[1] = h => x \in {base, after}
      BY <3>1 DEF Part
    <3> QED  BY <3>2, PendingOthers
  <2> HIDE DEF base, after
  <2>2. /\ IsFiniteSet(Pending \cup {base} \cup {after})
        /\ Cardinality(Pending \cup {base} \cup {after}) <= Cardinality(Pending) + 2
    <3>1. /\ IsFiniteSet(Pending \cup {base})
          /\ Cardinality(Pending \cup {base}) \in Nat
          /\ Cardinality(Pending \cup {base}) <= Cardinality(Pending) + 1
      BY RoomFacts, OneMore
    <3>2. /\ IsFiniteSet(Pending \cup {base} \cup {after})
          /\ Cardinality(Pending \cup {base} \cup {after}) \in Nat
          /\ Cardinality(Pending \cup {base} \cup {after}) <= Cardinality(Pending \cup {base}) + 1
      BY <3>1, OneMore
    <3> QED  BY <3>1, <3>2, RoomFacts
  <2>3. /\ IsFiniteSet(Pending')
        /\ Cardinality(Pending') <= Cardinality(Pending \cup {base} \cup {after})
    BY <2>1, <2>2, FS_Subset
  <2>4. Cardinality(Pending') \in Nat /\ Cardinality(Pending \cup {base} \cup {after}) \in Nat
    BY <2>2, <2>3, FS_CardinalityType
  <2>5. sweeps' = sweeps /\ transfers' = transfers + 1
    BY <1>1 DEF PushLast, Push, tables
  <2> QED  BY <2>2, <2>3, <2>4, <2>5, RoomFacts DEF Room
<1>2. CASE /\ ~InsertSweep(h)
           /\ ~\E b \in Block : PushLast(h, b)
  <2>1. Pending' \subseteq Pending
    <3> SUFFICES ASSUME NEW x \in Pending', x[1] = h PROVE x \in Pending
      BY PendingOthers
    <3>1. x \in Handler \X Part /\ x = <<h, x[2]>> /\ x[2] \in Part /\ ToInsert(h, x[2])'
      BY DEF Pending
    <3>2. ToInsert(h, x[2])
      BY <1>2, <3>1, PendingOwn DEF HandlerStep, Blockwise
    <3> QED  BY <3>1, <3>2 DEF Pending
  <2>2. transfers' = transfers
    BY <1>2
       DEF HandlerStep, Store, SelectId, InsertPoints, LinkSweeps, ClearRequired, Respond, Log,
           InsertMeasurement, InsertEmptySet, LogRespond, Goodbye, Register, LogPush,
           Blockwise, PushRefused, PushPart
  <2>3. Len(sweeps') = Len(sweeps)
    <3>1. CASE InsertPoints(h)
      BY <3>1 DEF InsertPoints, RawInv, Tables
    <3>2. CASE ~InsertPoints(h)
      BY <1>2, <3>2
         DEF HandlerStep, Store, SelectId, LinkSweeps, ClearRequired, Respond, Log,
             InsertMeasurement, InsertEmptySet, LogRespond, Goodbye, Register, LogPush,
             Blockwise, PushRefused, PushPart, Push, tables
    <3> QED  BY <3>1, <3>2
  <2> QED  BY <2>1, <2>2, <2>3, RoomShrinks
<1>3. CASE InsertSweep(h)
  <2> DEFINE own == <<h, part[h]>>
  <2>1. own \in Pending
    BY <1>3 DEF InsertSweep, Goes, RawInv, Sessions, Pending, ToInsert
  <2>2. Pending' \subseteq Pending \ {own}
    <3> SUFFICES ASSUME NEW x \in Pending' PROVE x \in Pending \ {own}
      OBVIOUS
    <3>1. x \in Handler \X Part /\ x = <<x[1], x[2]>> /\ x[2] \in Part /\ ToInsert(x[1], x[2])'
      BY DEF Pending
    <3>2. CASE x[1] = h
      <4>1. ToInsert(h, x[2]) /\ x[2] # part[h]
        BY <1>3, <3>1, <3>2, PendingOwn DEF Store
      <4> QED  BY <3>1, <3>2, <4>1 DEF Pending
    <3>3. CASE x[1] # h
      BY <3>1, <3>3, PendingOthers
    <3> QED  BY <3>2, <3>3
  <2> HIDE DEF own
  <2>3. IsFiniteSet(Pending \ {own}) /\ Cardinality(Pending \ {own}) = Cardinality(Pending) - 1
    BY <2>1, RoomFacts, FS_RemoveElement
  <2>4. IsFiniteSet(Pending') /\ Cardinality(Pending') <= Cardinality(Pending) - 1
    BY <2>2, <2>3, FS_Subset
  <2>5. Cardinality(Pending') \in Nat
    BY <2>4, FS_CardinalityType
  <2>6. Len(sweeps') \in Nat /\ Len(sweeps') <= Len(sweeps) + 1 /\ transfers' = transfers
    BY <1>3 DEF InsertSweep, RawInv, Tables
  <2> QED  BY <2>4, <2>5, <2>6, RoomFacts DEF Room
<1> QED  BY <1>1, <1>2, <1>3

-----------------------------------------------------------------------------
(* The rest of the invariant. *)

LEMMA SessionsKept ==
  ASSUME RawInv, NEW h \in Handler, HandlerStep(h), Counters'
  PROVE  Sessions'
<1>1. CASE InsertSweep(h)
  <2>1. lastId' \in [Handler -> Id]
    <3>1. Len(sweeps') \in Id
      <4>1. sweeps' \in Seq(Sweep)
        BY <1>1, Grows
      <4>2. Room'
        BY RoomKept
      <4>3. IsFiniteSet(Pending') /\ Cardinality(Pending') \in Nat /\ Len(sweeps') \in Nat
        BY <4>1, <4>2, FS_CardinalityType DEF Room
      <4>4. transfers' \in Nat /\ transfers' <= MaxTransfers
        BY BlockFacts DEF Counters
      <4> QED  BY <4>2, <4>3, <4>4, BlockFacts DEF Room, Id
    <3> QED  BY <1>1, <3>1 DEF InsertSweep, RawInv, Sessions
  <2>2. hpc' \in [Handler -> {"idle"} \cup Storing \cup Logging]
    BY <1>1 DEF InsertSweep, Goes, RawInv, Sessions, Storing
  <2> QED  BY <1>1, <2>1, <2>2 DEF InsertSweep, RawInv, Sessions
<1>2. CASE SelectId(h)
  <2>1. lastId[h] \in Id /\ part[h] \in Part /\ newId[h] \in [Part -> Id]
    BY DEF RawInv, Sessions
  <2>2. newId' \in [Handler -> [Part -> Id]]
    <3>1. newId \in [Handler -> [Part -> Id]]
      BY DEF RawInv, Sessions
    <3>2. \/ newId' = newId
          \/ newId' = [newId EXCEPT ![h] = [newId[h] EXCEPT ![part[h]] = lastId[h]]]
      BY <1>2, <3>1 DEF SelectId, LastInsertId
    <3>3. [newId[h] EXCEPT ![part[h]] = lastId[h]] \in [Part -> Id]
      BY <2>1
    <3> QED  BY <3>1, <3>2, <3>3
  <2>3. hpc' \in [Handler -> {"idle"} \cup Storing \cup Logging]
    BY <1>2 DEF SelectId, Goes, RawInv, Sessions, Storing
  <2> QED  BY <1>2, <2>2, <2>3 DEF SelectId, RawInv, Sessions
<1>3. CASE InsertPoints(h)
  <2>1. part' \in [Handler -> Part]
    BY <1>3 DEF InsertPoints, RawInv, Sessions, Part
  <2>2. hpc' \in [Handler -> {"idle"} \cup Storing \cup Logging]
    BY <1>3 DEF InsertPoints, Goes, RawInv, Sessions, Storing, After
  <2> QED  BY <1>3, <2>1, <2>2 DEF InsertPoints, RawInv, Sessions
<1>4. CASE LinkSweeps(h) \/ ClearRequired(h)
  <2>1. hpc' \in [Handler -> {"idle"} \cup Storing \cup Logging]
    BY <1>4 DEF LinkSweeps, ClearRequired, Goes, RawInv, Sessions, Storing, After
  <2> QED  BY <1>4, <2>1 DEF LinkSweeps, ClearRequired, RawInv, Sessions, session
<1>5. CASE Respond(h)
  BY <1>5 DEF Respond, Goes, RawInv, Sessions, Buffer
<1>6. CASE Log(h)
  <2>1. hpc' \in [Handler -> {"idle"} \cup Storing \cup Logging]
    BY <1>6
       DEF Log, InsertMeasurement, AfterInsert, InsertEmptySet, LogRespond, Goes, RawInv, Sessions, Logging
  <2>2. sent' = sent \/ sent' = [sent EXCEPT ![h] = NoBlock]
    BY <1>6 DEF Log, InsertMeasurement, InsertEmptySet, LogRespond, session
  <2>3. UNCHANGED <<idDevice, buffer, part, newId, lastId>>
    BY <1>6 DEF Log, InsertMeasurement, InsertEmptySet, LogRespond, session
  <2>4. sent' \in [Handler -> Block \cup {NoBlock}]
    BY <2>2 DEF RawInv, Sessions
  <2> QED  BY <2>1, <2>3, <2>4 DEF RawInv, Sessions
<1>7. CASE Goodbye(h) \/ \E d \in Device : Register(h, d)
  <2>1. idDevice' \in [Handler -> Device \cup {Nobody}]
    BY <1>7 DEF Goodbye, Register, RawInv, Sessions
  <2>2. \/ UNCHANGED <<buffer, sent>>
        \/ /\ buffer' = [buffer EXCEPT ![h] = <<>>]
           /\ sent' = [sent EXCEPT ![h] = NoBlock]
    BY <1>7 DEF Goodbye, Register
  <2>3. <<>> \in Buffer
    BY DEF Buffer
  <2>4. buffer' \in [Handler -> Buffer] /\ sent' \in [Handler -> Block \cup {NoBlock}]
    BY <2>2, <2>3 DEF RawInv, Sessions
  <2>5. UNCHANGED <<hpc, part, newId, lastId>>
    BY <1>7 DEF Goodbye, Register
  <2> QED  BY <2>1, <2>4, <2>5 DEF RawInv, Sessions
<1>8. ASSUME NEW m \in Measurement, LogPush(h, m) PROVE Sessions'
  <2>1. [m |-> m, i |-> 1] \in Block
    <3>1. 1 \in 1..Blocks[m]
      BY BlockFacts
    <3> QED  BY <3>1, BlockFacts
  <2> QED  BY <1>8, <2>1 DEF LogPush, Goes, RawInv, Sessions, Logging
<1>9. ASSUME NEW b \in Block, Blockwise(h, b) PROVE Sessions'
  <2>1. buffer' \in [Handler -> Buffer]
    BY <1>9, BlockwiseKeys
  <2>2. hpc' \in [Handler -> {"idle"} \cup Storing \cup Logging]
    BY <1>9 DEF Blockwise, PushRefused, PushPart, PushLast, RawInv, Sessions, Storing
  <2>3. part' \in [Handler -> Part] /\ newId' \in [Handler -> [Part -> Id]]
    <3>1. "base" \in Part /\ [p \in Part |-> NoId] \in [Part -> Id]
      BY BlockFacts DEF Part, Id
    <3>2. part \in [Handler -> Part] /\ newId \in [Handler -> [Part -> Id]]
      BY DEF RawInv, Sessions
    <3>3. \/ part' = part /\ newId' = newId
          \/ /\ part' = [part EXCEPT ![h] = "base"]
             /\ newId' = [newId EXCEPT ![h] = [p \in Part |-> NoId]]
      BY <1>9 DEF Blockwise, PushRefused, PushPart, PushLast
    <3> QED  BY <3>1, <3>2, <3>3
  <2>4. /\ idDevice' = idDevice /\ lastId' = lastId /\ sent' = [sent EXCEPT ![h] = b]
    BY <1>9 DEF Blockwise, PushRefused, PushPart, PushLast, Push
  <2> QED  BY <2>1, <2>2, <2>3, <2>4 DEF RawInv, Sessions
<1> QED
  BY <1>1, <1>2, <1>3, <1>4, <1>5, <1>6, <1>7, <1>8, <1>9 DEF HandlerStep, Store

LEMMA CountersKept ==
  ASSUME RawInv, NEW h \in Handler, HandlerStep(h)
  PROVE  Counters'
<1>1. /\ transfers \in 0..MaxTransfers /\ faults \in Nat /\ crashes \in Nat
      /\ faults + crashes <= MaxMishaps /\ MaxTransfers \in Nat /\ MaxMishaps \in Nat
  BY BlockFacts DEF RawInv, Counters
<1>2. crashes' = crashes /\ (faults' = faults \/ Fails)
  BY DEF HandlerStep, Store, InsertSweep, SelectId, InsertPoints, LinkSweeps, ClearRequired,
         Respond, Log, InsertMeasurement, InsertEmptySet, LogRespond, Goodbye, Register, LogPush,
         Blockwise, PushRefused, PushPart, PushLast, Push
<1>3. transfers' = transfers \/ (transfers < MaxTransfers /\ transfers' = transfers + 1)
  BY DEF HandlerStep, Store, InsertSweep, SelectId, InsertPoints, LinkSweeps, ClearRequired,
         Respond, Log, InsertMeasurement, InsertEmptySet, LogRespond, Goodbye, Register, LogPush,
         Blockwise, PushRefused, PushPart, PushLast, Push
<1> QED  BY <1>1, <1>2, <1>3 DEF Counters, Fails

LEMMA TablesKept ==
  ASSUME RawInv, NEW h \in Handler, HandlerStep(h)
  PROVE  Tables' /\ logged \subseteq logged' /\ SweepsGrow
<1>0. /\ logged \subseteq Row /\ measured \subseteq Row
      /\ required \subseteq asked /\ asked \subseteq measured /\ DOMAIN sets \subseteq Row
      /\ \A r \in DOMAIN sets : sets[r] \in [Part -> Id]
  BY DEF RawInv, Tables
<1>1. SweepsGrow /\ sweeps' \in Seq(Sweep)
  <2>1. InsertSweep(h) \/ InsertPoints(h) \/ UNCHANGED sweeps
    BY DEF HandlerStep, Store, SelectId, LinkSweeps, ClearRequired, Respond, Log,
           InsertMeasurement, InsertEmptySet, LogRespond, Goodbye, Register, LogPush,
           Blockwise, PushRefused, PushPart, PushLast, Push, tables
  <2> QED  BY <2>1, Grows
<1>2. CASE InsertMeasurement(h) \/ InsertEmptySet(h) \/ LogRespond(h)
  <2>1. RowOf(h) \in Row
    BY <1>2 DEF InsertMeasurement, InsertEmptySet, LogRespond, Goes, Logging, RawInv, Session
  <2>2. CASE InsertMeasurement(h)
    BY <1>0, <1>1, <2>1, <2>2 DEF InsertMeasurement, Tables
  <2>3. CASE LogRespond(h)
    BY <1>0, <1>1, <2>1, <2>3 DEF LogRespond, Tables, tables
  <2>4. CASE InsertEmptySet(h)
    <3>1. \/ sets' = sets
          \/ sets' = [r \in DOMAIN sets \cup {RowOf(h)} |->
                        IF r \in DOMAIN sets THEN sets[r] ELSE [p \in Part |-> NoId]]
      BY <2>4 DEF InsertEmptySet
    <3>2. [p \in Part |-> NoId] \in [Part -> Id]
      BY BlockFacts DEF Id
    <3>3. DOMAIN sets' \subseteq Row /\ \A r \in DOMAIN sets' : sets'[r] \in [Part -> Id]
      BY <1>0, <2>1, <3>1, <3>2
    <3> QED  BY <1>0, <1>1, <2>4, <3>3 DEF InsertEmptySet, Tables
  <2> QED  BY <1>2, <2>2, <2>3, <2>4
<1>3. CASE LinkSweeps(h)
  <2>1. \/ sets' = sets
        \/ sets' = [r \in DOMAIN sets |-> IF r = Stored(h) THEN newId[h] ELSE sets[r]]
    BY <1>3 DEF LinkSweeps
  <2>2. newId[h] \in [Part -> Id]
    BY DEF RawInv, Sessions
  <2>3. DOMAIN sets' \subseteq Row /\ \A r \in DOMAIN sets' : sets'[r] \in [Part -> Id]
    BY <1>0, <2>1, <2>2
  <2> QED  BY <1>0, <1>1, <1>3, <2>3 DEF LinkSweeps, Tables
<1>4. CASE ClearRequired(h)
  BY <1>0, <1>1, <1>4 DEF ClearRequired, Tables
<1>5. CASE UNCHANGED <<logged, measured, required, asked, sets>>
  BY <1>0, <1>1, <1>5 DEF Tables
<1> QED
  BY <1>2, <1>3, <1>4, <1>5
     DEF HandlerStep, Store, InsertSweep, SelectId, InsertPoints, Respond, Log, Goodbye, Register,
         LogPush, Blockwise, PushRefused, PushPart, PushLast, Push, tables

LEMMA SetsKept ==
  ASSUME RawInv, NEW h \in Handler, HandlerStep(h)
  PROVE  SetsOfKeys'
<1>1. \A id, p, m : KeyOf(id, p, m) => NextKeyOf(id, p, m)
  BY TablesKept, KeyStays DEF Tables
<1>2. ASSUME NEW r \in DOMAIN sets', NEW p \in Part, sets'[r][p] # NoId
      PROVE  NextKeyOf(sets'[r][p], p, r[2])
  <2>1. CASE r \in DOMAIN sets /\ sets'[r] = sets[r]
    BY <1>1, <1>2, <2>1 DEF RawInv, SetsOfKeys
  <2>2. CASE InsertEmptySet(h)
    <3>1. \/ r \in DOMAIN sets /\ sets'[r] = sets[r]
          \/ sets'[r][p] = NoId
      BY <2>2 DEF InsertEmptySet
    <3> QED  BY <1>2, <2>1, <3>1
  <2>3. CASE LinkSweeps(h)
    <3>1. \/ r \in DOMAIN sets /\ sets'[r] = sets[r]
          \/ r = Stored(h) /\ sets'[r] = newId[h]
      BY <2>3 DEF LinkSweeps
    <3>2. CASE r = Stored(h) /\ sets'[r] = newId[h]
      <4>1. hpc[h] \in Storing
        BY <2>3 DEF LinkSweeps, Goes, Storing
      <4>2. r[2] = sent[h].m
        <5>1. r = <<idDevice[h], sent[h].m>>
          BY <3>2, <4>1, StoringFacts DEF RowOf
        <5> QED  BY <5>1
      <4>3. newId[h][p] # NoId => KeyOf(newId[h][p], p, sent[h].m)
        BY <4>1 DEF RawInv, Keys
      <4>4. newId[h][p] # NoId
        BY <1>2, <3>2
      <4>5. NextKeyOf(newId[h][p], p, r[2])
        BY <1>1, <4>2, <4>3, <4>4
      <4> QED  BY <3>2, <4>5
    <3> QED  BY <2>1, <3>1, <3>2
  <2>4. CASE sets' = sets
    BY <2>1, <2>4
  <2> QED
    BY <2>2, <2>3, <2>4
       DEF HandlerStep, Store, InsertSweep, SelectId, InsertPoints, ClearRequired, Respond, Log,
           InsertMeasurement, LogRespond, Goodbye, Register, LogPush,
           Blockwise, PushRefused, PushPart, PushLast, Push, tables
<1> QED  BY <1>2 DEF SetsOfKeys, KeyOf, NextKeyOf, Whole

LEMMA StepKeeps ==
  ASSUME RawInv, NEW g \in Handler, HandlerStep(g)
  PROVE  RawInv'
<1>1. Counters' /\ Tables' /\ logged \subseteq logged' /\ SweepsGrow
  BY CountersKept, TablesKept
<1>2. Sessions' /\ Room' /\ SetsOfKeys'
  BY <1>1, SessionsKept, RoomKept, SetsKept
<1>3. Session(g)' /\ Keys(g)'
  BY InsertSweepKeys, SelectIdKeys, StoreKeys, RespondKeys, LogKeys, LogPushKeys, VisitKeys,
     BlockwiseKeys
     DEF HandlerStep, Store
<1>4. ASSUME NEW h \in Handler, h # g PROVE Session(h)' /\ Keys(h)'
  BY <1>1, <1>4, Others, SameKeeps DEF Tables
<1> QED  BY <1>1, <1>2, <1>3, <1>4 DEF RawInv

LEMMA RawNext == RawInv /\ [Next]_vars => RawInv'
<1> SUFFICES ASSUME RawInv, [Next]_vars PROVE RawInv'
  OBVIOUS
<1>1. ASSUME UNCHANGED <<session, hpc, logged, sweeps, sets, transfers, faults, crashes>>,
             Tables'
      PROVE  RawInv'
  <2>1. Sessions' /\ Counters' /\ SetsOfKeys'
    BY <1>1 DEF RawInv, Sessions, Counters, SetsOfKeys, session, KeyOf, Whole
  <2>2. ASSUME NEW h \in Handler PROVE Session(h)' /\ Keys(h)'
    BY <1>1 DEF RawInv, Session, Keys, KeyOf, session, RowOf, InOrder, Whole
  <2>3. Room'
    <3>1. Pending' = Pending
      BY <1>1 DEF Pending, ToInsert, session
    <3> QED  BY <1>1, <3>1, RoomShrinks
  <2> QED  BY <1>1, <2>1, <2>2, <2>3 DEF RawInv
<1>2. CASE UNCHANGED vars
  BY <1>1, <1>2 DEF vars, tables, RawInv, Tables
<1>3. ASSUME NEW r \in Row, Require(r) PROVE RawInv'
  BY <1>1, <1>3 DEF Require, RawInv, Tables
<1>4. CASE Crash
  <2>1. Sessions'
    BY <1>4, BlockFacts DEF Crash, Sessions, Buffer, Part, Id
  <2>2. Tables' /\ Counters' /\ SetsOfKeys'
    BY <1>4, BlockFacts DEF Crash, RawInv, Tables, Counters, SetsOfKeys, KeyOf, Whole, tables
  <2>3. \A h \in Handler : Session(h)' /\ Keys(h)'
    BY <1>4 DEF Crash, Session, Keys, Storing, Logging
  <2>4. Room'
    <3>1. Pending' = {}
      BY <1>4 DEF Crash, Pending, ToInsert
    <3> QED  BY <1>4, <3>1, RoomShrinks DEF Crash, tables
  <2> QED  BY <2>1, <2>2, <2>3, <2>4 DEF RawInv
<1>5. ASSUME NEW h \in Handler, HandlerStep(h) PROVE RawInv'
  BY <1>5, StepKeeps
<1> QED  BY <1>2, <1>3, <1>4, <1>5 DEF Next, HandlerStep

(* Types of all variables; among them that a handler which stores a set knows its
   device and holds a buffer of the right length, and that each transfer inserts
   two sweeps at most. *)
THEOREM TypeCorrect == Spec => []TypeOK
<1> QED  BY RawInit, RawNext, TypesFrom, PTL DEF Spec

(* Stored raw data is of its own measurement, with every block in its place, for
   any number of connections that interleave, blocks sent twice, transfers begun
   again, failing statements and crashes. *)
THEOREM StoredSetsMatch == Spec => []SetsMatch
<1>1. RawInv => SetsMatch
  BY DEF RawInv, SetsOfKeys, KeyOf, SetsMatch
<1> QED  BY <1>1, RawInit, RawNext, PTL DEF Spec

-----------------------------------------------------------------------------
(* A failing statement adds one suspect row at most, any other step none. *)

NextGood(id) == id # NoId /\ sweeps'[id].points

LEMMA GoodStays ==
  ASSUME RawInv, NEW h \in Handler, HandlerStep(h)
  PROVE  \A id \in 1..Len(sweeps) : Good(id) => NextGood(id)
BY TablesKept DEF SweepsGrow, Good, NextGood

LEMMA OwnGoodStays ==
  ASSUME RawInv, NEW h \in Handler, HandlerStep(h), NEW g \in Handler, hpc[g] \in Storing,
         NEW p \in Part, Good(newId[g][p])
  PROVE  NextGood(newId[g][p])
<1>1. newId[g][p] \in 1..Len(sweeps)
  BY DEF RawInv, Keys, KeyOf, Good
<1> QED  BY <1>1, GoodStays

LEMMA SuspectBy ==
  ASSUME RawInv, NEW h \in Handler, hpc[h] \in Storing, Astray(h)
  PROVE  RowOf(h) \in Suspect
BY StoringFacts DEF Suspect

(* What was stored whole is spoilt only by a handler that is astray. *)
LEMMA WholeStays ==
  ASSUME RawInv, NEW h \in Handler, HandlerStep(h), NEW r, StoredWhole(r), ~StoredWhole(r)'
  PROVE  r \in Suspect
<1>1. r \in DOMAIN sets /\ \A p \in Part : Good(sets[r][p]) /\ sets[r][p] \in 1..Len(sweeps)
  BY DEF StoredWhole, Good, RawInv, SetsOfKeys, KeyOf
<1>2. ~(r \in DOMAIN sets' /\ sets'[r] = sets[r])
  <2>1. \A p \in Part : NextGood(sets[r][p])
    BY <1>1, GoodStays
  <2> QED  BY <2>1 DEF StoredWhole, NextGood
<1>3. LinkSweeps(h)
  BY <1>1, <1>2
     DEF HandlerStep, Store, InsertSweep, SelectId, InsertPoints, ClearRequired, Respond, Log,
         InsertMeasurement, InsertEmptySet, LogRespond, Goodbye, Register, LogPush,
         Blockwise, PushRefused, PushPart, PushLast, Push, tables
<1>4. /\ hpc[h] = "link" /\ r = Stored(h) /\ sets'[r] = newId[h] /\ r \in DOMAIN sets'
      /\ sweeps' = sweeps
  BY <1>1, <1>2, <1>3 DEF LinkSweeps, Goes
<1>5. \E p \in Part : ~Good(newId[h][p])
  BY <1>4 DEF StoredWhole, Good
<1>6. hpc[h] \in Storing /\ Astray(h)
  BY <1>4, <1>5 DEF Storing, Astray
<1> QED  BY <1>4, <1>6, SuspectBy, StoringFacts

LEMMA LostStep ==
  ASSUME RawInv, NEW h \in Handler, HandlerStep(h), NEW r \in Lost'
  PROVE  r \in Suspect
<1>1. r \in asked' \ required' /\ ~StoredWhole(r)'
  BY DEF Lost
<1>2. asked' = asked /\ (required' = required \/ ClearRequired(h))
  BY DEF HandlerStep, Store, InsertSweep, SelectId, InsertPoints, LinkSweeps, ClearRequired,
         Respond, Log, InsertMeasurement, InsertEmptySet, LogRespond, Goodbye, Register, LogPush,
         Blockwise, PushRefused, PushPart, PushLast, Push, tables
<1>3. CASE StoredWhole(r)
  BY <1>1, <1>3, WholeStays
<1>4. CASE ~StoredWhole(r) /\ r \notin required
  BY <1>1, <1>2, <1>4 DEF Lost, Suspect, RawInv, Tables
<1>5. CASE ~StoredWhole(r) /\ r \in required
  <2>1. hpc[h] = "clear" /\ r = Stored(h)
    BY <1>1, <1>2, <1>5 DEF ClearRequired, Goes
  <2>2. hpc[h] \in Storing
    BY <2>1 DEF Storing
  <2>3. r = RowOf(h)
    BY <2>1, <2>2, StoringFacts
  <2>4. Astray(h)
    BY <1>5, <2>1, <2>3 DEF Astray
  <2> QED  BY <2>2, <2>3, <2>4, SuspectBy
<1> QED  BY <1>3, <1>4, <1>5

OneFault(r, h) == r = RowOf(h) /\ faults' = faults + 1

LEMMA UnlistedStep ==
  ASSUME RawInv, NEW h \in Handler, HandlerStep(h), NEW r \in Row, Unlisted(r)'
  PROVE  r \in Suspect \/ OneFault(r, h)
<1>1. r \notin DOMAIN sets
  <2>1. DOMAIN sets \subseteq DOMAIN sets'
    BY DEF HandlerStep, Store, InsertSweep, SelectId, InsertPoints, LinkSweeps, ClearRequired,
           Respond, Log, InsertMeasurement, InsertEmptySet, LogRespond, Goodbye, Register, LogPush,
           Blockwise, PushRefused, PushPart, PushLast, Push, tables
  <2> QED  BY <2>1 DEF Unlisted
<1>2. CASE r \in logged
  BY <1>1, <1>2 DEF Unlisted, Suspect
<1>3. CASE r \in logged' /\ r \notin logged
  <2>1. LogRespond(h)
    BY <1>3
       DEF HandlerStep, Store, InsertSweep, SelectId, InsertPoints, LinkSweeps, ClearRequired,
           Respond, Log, InsertMeasurement, InsertEmptySet, Goodbye, Register, LogPush,
           Blockwise, PushRefused, PushPart, PushLast, Push, tables
  <2>2. hpc[h] = "logRespond" /\ r = RowOf(h)
    BY <1>3, <2>1 DEF LogRespond, Goes
  <2> QED  BY <1>1, <2>2 DEF Unlisted, Suspect
<1>4. ASSUME NEW g \in Handler, hpc'[g] = "logRespond", RowOf(g)' = r
      PROVE  r \in Suspect \/ OneFault(r, h)
  <2>1. CASE g # h
    <3>1. hpc[g] = "logRespond" /\ RowOf(g) = r
      BY <1>4, <2>1, Others DEF Same, RowOf
    <3> QED  BY <1>1, <3>1 DEF Unlisted, Suspect
  <2>2. CASE g = h
    <3>1. InsertMeasurement(h) \/ InsertEmptySet(h)
      BY <1>4, <2>2
         DEF HandlerStep, Store, InsertSweep, SelectId, InsertPoints, LinkSweeps, ClearRequired,
             Respond, Log, LogRespond, Goodbye, Register, LogPush, Goes, After,
             Blockwise, PushRefused, PushPart, PushLast, Push, RawInv, Sessions
    <3>2. RowOf(h) = r
      BY <1>4, <2>2, <3>1 DEF InsertMeasurement, InsertEmptySet, session, RowOf
    <3>3. faults' = faults + 1
      <4>1. CASE InsertMeasurement(h)
        BY <1>4, <2>2, <4>1 DEF InsertMeasurement, AfterInsert, Goes, Fails, RawInv, Sessions
      <4>2. CASE InsertEmptySet(h)
        <5>1. r \notin DOMAIN sets'
          BY DEF Unlisted
        <5> QED  BY <3>2, <4>2, <5>1 DEF InsertEmptySet, Fails
      <4> QED  BY <3>1, <4>1, <4>2
    <3> QED  BY <3>2, <3>3 DEF OneFault
  <2> QED  BY <2>1, <2>2
<1> QED  BY <1>2, <1>3, <1>4 DEF Unlisted

LEMMA AstrayStoring ==
  ASSUME NEW h, Astray(h)
  PROVE  hpc[h] \in Storing
BY DEF Astray, Storing

LEMMA AstrayOthers ==
  ASSUME RawInv, NEW h \in Handler, HandlerStep(h), NEW g \in Handler, g # h, Astray(g)'
  PROVE  RowOf(g)' \in Suspect
<1>1. Same(g) /\ RowOf(g)' = RowOf(g)
  BY Others DEF Same, RowOf
<1>2. hpc[g] \in Storing
  BY <1>1 DEF Astray, Storing, Same
<1>3. \A p \in Part : Good(newId[g][p]) => NextGood(newId[g][p])
  BY <1>2, OwnGoodStays
<1>4. CASE Astray(g)
  BY <1>1, <1>2, <1>4, SuspectBy
<1>5. CASE hpc[g] = "clear" /\ ~StoredWhole(RowOf(g))'
  <2>1. CASE StoredWhole(RowOf(g))
    <3> DEFINE r == RowOf(g)
    <3>1. ~StoredWhole(r)'
      BY <1>5
    <3> QED  BY <1>1, <2>1, <3>1, WholeStays
  <2>2. CASE ~StoredWhole(RowOf(g))
    BY <1>1, <1>2, <1>5, <2>2, SuspectBy DEF Astray
  <2> QED  BY <2>1, <2>2
<1>6. CASE hpc[g] # "clear"
  <2>1. Astray(g)
    BY <1>1, <1>3, <1>6 DEF Astray, Same, Good, NextGood, Part
  <2> QED  BY <1>1, <1>2, <2>1, SuspectBy
<1>7. hpc[g] = "clear" => ~StoredWhole(RowOf(g))'
  BY <1>1 DEF Astray, Same
<1> QED  BY <1>5, <1>6, <1>7

LEMMA AstraySweep ==
  ASSUME RawInv, NEW h \in Handler, InsertSweep(h), Astray(h)'
  PROVE  Astray(h) \/ faults' = faults + 1
<1>1. SUFFICES ASSUME faults' # faults + 1 PROVE Astray(h)
  OBVIOUS
<1>2. hpc[h] = "insert" /\ hpc'[h] = "select" /\ part' = part /\ newId' = newId
  BY <1>1 DEF InsertSweep, Goes, Fails, RawInv, Sessions
<1>3. HandlerStep(h) /\ hpc[h] \in Storing /\ "base" \in Part
  BY <1>2 DEF HandlerStep, Store, Storing, Part
<1>4. Good(newId[h]["base"]) => NextGood(newId[h]["base"])
  BY <1>3, OwnGoodStays
<1> QED  BY <1>2, <1>4 DEF Astray, Good, NextGood

LEMMA AstraySelect ==
  ASSUME RawInv, NEW h \in Handler, SelectId(h), Astray(h)'
  PROVE  Astray(h) \/ faults' = faults + 1
<1>1. SUFFICES ASSUME faults' # faults + 1 PROVE Astray(h)
  OBVIOUS
<1>2. /\ hpc[h] = "select" /\ hpc'[h] = "points" /\ part' = part /\ sweeps' = sweeps
      /\ newId' = [newId EXCEPT ![h][part[h]] = lastId[h]]
  BY <1>1 DEF SelectId, LastInsertId, Goes, Fails, RawInv, Sessions, tables
<1>3. part[h] \in Part /\ newId \in [Handler -> [Part -> Id]]
  BY DEF RawInv, Sessions
<1>4. newId'[h][part[h]] = lastId[h] /\ (part[h] = "afterExposure" => newId'[h]["base"] = newId[h]["base"])
  BY <1>2, <1>3 DEF Part
<1>5. lastId[h] # NoId
  <2>1. lastId[h] \in 1..Len(sweeps)
    BY <1>2 DEF RawInv, Keys, KeyOf
  <2> QED  BY <2>1, BlockFacts
<1> QED  BY <1>2, <1>4, <1>5 DEF Astray, Good

LEMMA AstrayPoints ==
  ASSUME RawInv, NEW h \in Handler, InsertPoints(h), Astray(h)'
  PROVE  Astray(h) \/ faults' = faults + 1
<1> DEFINE id == newId[h][part[h]]
<1>1. SUFFICES ASSUME faults' # faults + 1, ~Astray(h) PROVE FALSE
  OBVIOUS
<1>2. /\ hpc[h] = "points" /\ newId' = newId /\ part'[h] = "afterExposure"
      /\ hpc'[h] = IF part[h] = "base" THEN "insert" ELSE "link"
      /\ sweeps' = IF id = NoId THEN sweeps ELSE [sweeps EXCEPT ![id].points = TRUE]
  BY <1>1 DEF InsertPoints, Goes, Fails, After, RawInv, Sessions
<1>3. id # NoId /\ part[h] \in Part
  BY <1>1, <1>2 DEF Astray, RawInv, Sessions
<1>4. id \in 1..Len(sweeps) /\ sweeps \in Seq(Sweep)
  BY <1>2, <1>3 DEF RawInv, Keys, KeyOf, Tables, Storing
<1>5. NextGood(id)
  <2>1. sweeps[id] \in Sweep /\ sweeps' = [sweeps EXCEPT ![id].points = TRUE]
    BY <1>2, <1>3, <1>4
  <2> HIDE DEF id
  <2>2. sweeps' = [sweeps EXCEPT ![id] = [sweeps[id] EXCEPT !.points = TRUE]]
    BY <2>1
  <2>3. \A i \in 1..Len(sweeps) :
          sweeps'[i] = IF i = id THEN [sweeps[id] EXCEPT !.points = TRUE] ELSE sweeps[i]
    BY <1>4, <2>1, <2>2
  <2> QED  BY <1>3, <1>4, <2>1, <2>3 DEF NextGood, Sweep
<1>6. part[h] = "afterExposure" => NextGood(newId[h]["base"])
  <2>1. HandlerStep(h) /\ hpc[h] \in Storing /\ "base" \in Part
    BY <1>2 DEF HandlerStep, Store, Storing, Part
  <2>2. part[h] = "afterExposure" => Good(newId[h]["base"])
    BY <1>1, <1>2 DEF Astray
  <2> QED  BY <2>1, <2>2, OwnGoodStays
<1> QED  BY <1>2, <1>3, <1>5, <1>6 DEF Astray, Good, NextGood, Part

LEMMA AstrayLink ==
  ASSUME RawInv, NEW h \in Handler, LinkSweeps(h), Astray(h)'
  PROVE  Astray(h) \/ Unlisted(RowOf(h)) \/ faults' = faults + 1
<1>1. SUFFICES ASSUME faults' # faults + 1, ~Astray(h), ~Unlisted(RowOf(h)) PROVE FALSE
  OBVIOUS
<1>2. /\ hpc[h] = "link" /\ hpc'[h] = "clear" /\ newId' = newId /\ sweeps' = sweeps
      /\ sets' = [r \in DOMAIN sets |-> IF r = Stored(h) THEN newId[h] ELSE sets[r]]
      /\ RowOf(h)' = RowOf(h)
  BY <1>1 DEF LinkSweeps, Goes, Fails, After, RawInv, Sessions, session, RowOf
<1>3. RowOf(h) \in logged /\ Stored(h) = RowOf(h)
  <2>1. hpc[h] \in Storing
    BY <1>2 DEF Storing
  <2> QED  BY <2>1, StoringFacts
<1>4. RowOf(h) \in DOMAIN sets' /\ sets'[RowOf(h)] = newId[h]
  BY <1>1, <1>2, <1>3 DEF Unlisted
<1>5. \A p \in Part : Good(newId[h][p])
  BY <1>1, <1>2 DEF Astray
<1>6. StoredWhole(RowOf(h))'
  BY <1>2, <1>4, <1>5 DEF StoredWhole, Good
<1> QED  BY <1>2, <1>6 DEF Astray

LEMMA AstrayOwn ==
  ASSUME RawInv, NEW h \in Handler, HandlerStep(h), Astray(h)'
  PROVE  RowOf(h)' = RowOf(h) /\ (RowOf(h) \in Suspect \/ OneFault(RowOf(h), h))
<1>1. hpc'[h] \in {"insert", "select", "points", "link", "clear"}
  BY DEF Astray
<1>2. ~\E b \in Block : PushLast(h, b)
  <2> SUFFICES ASSUME NEW b \in Block, PushLast(h, b) PROVE FALSE
    OBVIOUS
  <2>1. hpc'[h] = "insert" /\ part'[h] = "base"
    BY DEF PushLast, RawInv, Sessions
  <2> QED  BY <2>1 DEF Astray
<1>3. InsertSweep(h) \/ SelectId(h) \/ InsertPoints(h) \/ LinkSweeps(h)
  BY <1>1, <1>2
     DEF HandlerStep, Store, ClearRequired, Respond, Log, InsertMeasurement, InsertEmptySet,
         LogRespond, Goodbye, Register, LogPush, Blockwise, PushRefused, PushPart, Push, Goes,
         After, AfterInsert, RawInv, Sessions
<1>4. hpc[h] \in Storing /\ RowOf(h)' = RowOf(h)
  BY <1>3 DEF InsertSweep, SelectId, InsertPoints, LinkSweeps, Goes, Storing, RowOf, session
<1>5. Astray(h) \/ Unlisted(RowOf(h)) \/ faults' = faults + 1
  BY <1>3, AstraySweep, AstraySelect, AstrayPoints, AstrayLink
<1>6. RowOf(h) \in Row
  BY <1>4, StoringFacts
<1> QED  BY <1>4, <1>5, <1>6, SuspectBy DEF Suspect, OneFault

LEMMA SuspectStep ==
  ASSUME RawInv, NEW h \in Handler, HandlerStep(h)
  PROVE  \/ Suspect' \subseteq Suspect
         \/ Suspect' \subseteq Suspect \cup {RowOf(h)} /\ faults' = faults + 1
<1>1. ASSUME NEW r \in Suspect' PROVE r \in Suspect \/ OneFault(r, h)
  <2>1. r \in Row /\ (r \in Lost' \/ Unlisted(r)' \/ \E g \in Handler : Astray(g)' /\ RowOf(g)' = r)
    BY DEF Suspect
  <2>2. CASE r \in Lost'
    BY <2>2, LostStep
  <2>3. CASE Unlisted(r)'
    BY <2>1, <2>3, UnlistedStep
  <2>4. ASSUME NEW g \in Handler, Astray(g)', RowOf(g)' = r PROVE r \in Suspect \/ OneFault(r, h)
    BY <2>4, AstrayOwn, AstrayOthers
  <2> QED  BY <2>1, <2>2, <2>3, <2>4
<1> QED  BY <1>1 DEF OneFault

LossInv == RawInv /\ Losses

LEMMA LossNext == LossInv /\ [Next]_vars => LossInv'
<1> SUFFICES ASSUME RawInv, Losses, [Next]_vars PROVE Losses'
  BY RawNext DEF LossInv
<1>1. faults \in Nat /\ IsFiniteSet(Suspect) /\ Cardinality(Suspect) \in Nat
      /\ Cardinality(Suspect) <= faults
  BY FS_CardinalityType DEF RawInv, Counters, Losses
<1>2. ASSUME Suspect' \subseteq Suspect, faults' = faults \/ faults' = faults + 1
      PROVE  Losses'
  <2>1. IsFiniteSet(Suspect') /\ Cardinality(Suspect') <= Cardinality(Suspect)
    BY <1>1, <1>2, FS_Subset
  <2>2. Cardinality(Suspect') \in Nat
    BY <2>1, FS_CardinalityType
  <2> QED  BY <1>1, <1>2, <2>1, <2>2 DEF Losses
<1>3. ASSUME NEW r, Suspect' \subseteq Suspect \cup {r}, faults' = faults + 1
      PROVE  Losses'
  <2>1. /\ IsFiniteSet(Suspect \cup {r}) /\ Cardinality(Suspect \cup {r}) \in Nat
        /\ Cardinality(Suspect \cup {r}) <= Cardinality(Suspect) + 1
    BY <1>1, OneMore
  <2>2. IsFiniteSet(Suspect') /\ Cardinality(Suspect') <= Cardinality(Suspect \cup {r})
    BY <1>3, <2>1, FS_Subset
  <2>3. Cardinality(Suspect') \in Nat
    BY <2>2, FS_CardinalityType
  <2> QED  BY <1>1, <1>3, <2>1, <2>2, <2>3 DEF Losses
<1>4. CASE UNCHANGED vars
  <2>1. Suspect' = Suspect
    BY <1>4
       DEF vars, session, tables, Suspect, Lost, Unlisted, Astray, Good, StoredWhole, RowOf
  <2> QED  BY <1>2, <1>4, <2>1 DEF vars
<1>5. ASSUME NEW q \in Row, Require(q) PROVE Losses'
  <2>1. Suspect' \subseteq Suspect
    BY <1>5
       DEF Require, session, Suspect, Lost, Unlisted, Astray, Good, StoredWhole, RowOf
  <2> QED  BY <1>2, <1>5, <2>1 DEF Require
<1>6. CASE Crash
  <2>1. \A h \in Handler : hpc'[h] = "idle"
    BY <1>6 DEF Crash
  <2>2. \A h \in Handler : ~Astray(h)'
    BY <2>1 DEF Astray
  <2>3. Lost' = Lost
    BY <1>6 DEF Crash, Lost, StoredWhole, tables
  <2>4. \A r \in Row : Unlisted(r)' => Unlisted(r)
    BY <1>6, <2>1 DEF Crash, Unlisted, tables
  <2>5. Suspect' \subseteq Suspect
    BY <2>2, <2>3, <2>4 DEF Suspect
  <2> QED  BY <1>2, <1>6, <2>5 DEF Crash
<1>7. ASSUME NEW h \in Handler, HandlerStep(h) PROVE Losses'
  <2>1. faults' = faults \/ faults' = faults + 1
    BY <1>7
       DEF HandlerStep, Store, InsertSweep, SelectId, InsertPoints, LinkSweeps, ClearRequired,
           Respond, Log, InsertMeasurement, InsertEmptySet, LogRespond, Goodbye, Register, LogPush,
           Blockwise, PushRefused, PushPart, PushLast, Push, Fails
  <2>2. CASE Suspect' \subseteq Suspect
    BY <1>2, <2>1, <2>2
  <2>3. CASE Suspect' \subseteq Suspect \cup {RowOf(h)} /\ faults' = faults + 1
    BY <1>3, <2>3
  <2> QED  BY <1>7, <2>2, <2>3, SuspectStep
<1> QED  BY <1>4, <1>5, <1>6, <1>7 DEF Next, HandlerStep

(* Whatever fails and crashes, the column is cleared for no more rows without
   stored raw data than statements have failed; a crash alone clears none. *)
THEOREM ColumnIsKept == Spec => []ColumnKeptUntilStored
<1>1. Init => LossInv
  <2> SUFFICES ASSUME Init PROVE Losses
    BY RawInit DEF LossInv
  <2>1. Suspect = {}
    BY DEF Init, Suspect, Lost, Unlisted, Astray
  <2> QED  BY <2>1, FS_EmptySet DEF Init, Losses
<1>2. LossInv => ColumnKeptUntilStored
  <2> SUFFICES ASSUME LossInv PROVE ColumnKeptUntilStored
    OBVIOUS
  <2>1. Lost \subseteq Suspect
    BY DEF Lost, Suspect, LossInv, RawInv, Tables
  <2>2. IsFiniteSet(Lost) /\ Cardinality(Lost) <= Cardinality(Suspect)
    BY <2>1, FS_Subset DEF LossInv, Losses
  <2>3. Cardinality(Lost) \in Nat /\ Cardinality(Suspect) \in Nat /\ faults \in Nat
    BY <2>2, FS_CardinalityType DEF LossInv, Losses, RawInv, Counters
  <2> QED  BY <2>2, <2>3 DEF LossInv, Losses, ColumnKeptUntilStored, Lost
<1> QED  BY <1>1, <1>2, LossNext, PTL DEF Spec

-----------------------------------------------------------------------------
(* What devices are asked for. *)

Noted(r) == r \in DOMAIN sets \/ \E h \in Handler : hpc[h] = "logRaw" /\ RowOf(h) = r

(* Without a mishap every measurement has its row in the second table, but
   between the two INSERTs. *)
NotedInv == RawInv /\ (faults + crashes = 0 => \A r \in measured : Noted(r))

LEMMA NotedStays ==
  ASSUME RawInv, NEW h \in Handler, HandlerStep(h), faults' = faults,
         NEW r \in measured, Noted(r)
  PROVE  Noted(r)'
<1>1. DOMAIN sets \subseteq DOMAIN sets'
  BY DEF HandlerStep, Store, InsertSweep, SelectId, InsertPoints, LinkSweeps, ClearRequired,
         Respond, Log, InsertMeasurement, InsertEmptySet, LogRespond, Goodbye, Register, LogPush,
         Blockwise, PushRefused, PushPart, PushLast, Push, tables
<1>2. CASE r \in DOMAIN sets
  BY <1>1, <1>2 DEF Noted
<1>3. ASSUME NEW g \in Handler, hpc[g] = "logRaw", RowOf(g) = r
      PROVE  Noted(r)'
  <2>1. CASE g # h
    BY <1>3, <2>1, Others DEF Noted, Same, RowOf
  <2>2. CASE g = h
    <3>1. InsertEmptySet(h)
      BY <1>3, <2>2
         DEF HandlerStep, Store, InsertSweep, SelectId, InsertPoints, LinkSweeps, ClearRequired,
             Respond, Log, InsertMeasurement, LogRespond, Goodbye, Register, LogPush,
             Blockwise, PushRefused, PushPart, PushLast, Push, Goes
    <3>2. faults' # faults + 1
      BY DEF RawInv, Counters
    <3>3. r \in DOMAIN sets'
      BY <1>3, <2>2, <3>1, <3>2 DEF InsertEmptySet, Fails
    <3> QED  BY <3>3 DEF Noted
  <2> QED  BY <2>1, <2>2
<1> QED  BY <1>2, <1>3 DEF Noted

LEMMA MeasuredBy ==
  ASSUME RawInv, NEW h \in Handler, HandlerStep(h), faults' = faults,
         NEW r \in measured', r \notin measured
  PROVE  Noted(r)'
<1>1. InsertMeasurement(h)
  BY DEF HandlerStep, Store, InsertSweep, SelectId, InsertPoints, LinkSweeps, ClearRequired,
         Respond, Log, InsertEmptySet, LogRespond, Goodbye, Register, LogPush,
         Blockwise, PushRefused, PushPart, PushLast, Push, tables
<1>2. hpc'[h] = "logRaw" /\ r = RowOf(h)
  BY <1>1 DEF InsertMeasurement, AfterInsert, Goes, RawInv, Sessions
<1>3. RowOf(h)' = RowOf(h)
  BY <1>1 DEF InsertMeasurement, session, RowOf
<1> QED  BY <1>2, <1>3 DEF Noted

LEMMA NoneOfBoth == \A a, b \in Nat : a + b = 0 => a = 0 /\ b = 0
  OBVIOUS

LEMMA NotedNext == NotedInv /\ [Next]_vars => NotedInv'
<1> SUFFICES ASSUME NotedInv, [Next]_vars, faults' + crashes' = 0, NEW r \in measured'
             PROVE  Noted(r)'
  BY RawNext DEF NotedInv
<1>1. faults \in Nat /\ crashes \in Nat
  BY DEF NotedInv, RawInv, Counters
<1>2. faults' \in Nat /\ crashes' \in Nat
  <2>1. RawInv'
    BY RawNext DEF NotedInv
  <2> QED  BY <2>1 DEF RawInv, Counters
<1>3. faults' = 0 /\ crashes' = 0
  BY <1>2, NoneOfBoth
<1>4. CASE UNCHANGED vars
  BY <1>3, <1>4 DEF NotedInv, Noted, vars, session, tables, RowOf
<1>5. ASSUME NEW q \in Row, Require(q) PROVE Noted(r)'
  BY <1>3, <1>5 DEF Require, NotedInv, Noted, session, RowOf
<1>6. ~Crash
  BY <1>1, <1>3 DEF Crash
<1>7. ASSUME NEW h \in Handler, HandlerStep(h) PROVE Noted(r)'
  <2>1. /\ faults' = faults \/ faults' = faults + 1
        /\ crashes' = crashes
    BY <1>7
       DEF HandlerStep, Store, InsertSweep, SelectId, InsertPoints, LinkSweeps, ClearRequired,
           Respond, Log, InsertMeasurement, InsertEmptySet, LogRespond, Goodbye, Register, LogPush,
           Blockwise, PushRefused, PushPart, PushLast, Push, Fails
  <2>2. faults' = faults /\ faults + crashes = 0
    BY <1>1, <1>3, <2>1
  <2>3. CASE r \in measured
    BY <1>7, <2>2, <2>3, NotedStays DEF NotedInv
  <2>4. CASE r \notin measured
    BY <1>7, <2>2, <2>4, MeasuredBy DEF NotedInv
  <2> QED  BY <2>3, <2>4
<1> QED  BY <1>4, <1>5, <1>6, <1>7 DEF Next, HandlerStep

(* While nothing has failed and nothing has crashed, mysqlGetDataRequired() finds
   no measurement but one between the two INSERTs of its log, for any number of
   connections and devices. *)
THEOREM NotAskedUndisturbed == Spec => []AskedOnlyAfterMishap
<1>1. Init => NotedInv
  BY RawInit DEF Init, NotedInv
<1>2. NotedInv => AskedOnlyAfterMishap
  BY DEF NotedInv, RawInv, Tables, Noted, AskedOnlyAfterMishap, DataRequired
<1> QED  BY <1>1, <1>2, NotedNext, PTL DEF Spec
=============================================================================
