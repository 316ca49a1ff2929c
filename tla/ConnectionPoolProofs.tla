------------------------ MODULE ConnectionPoolProofs ------------------------
(* Theorems about ConnectionPool for any number of handlers and connections. *)
EXTENDS ConnectionPool, FiniteSetTheorems, TLAPS

-----------------------------------------------------------------------------
(* Queues of distinct elements. *)

LEMMA TailElements ==
  ASSUME NEW q \in Seq(Conn), q # <<>>, Distinct(q)
  PROVE  /\ Tail(q) \in Seq(Conn) /\ Head(q) \in Conn /\ Distinct(Tail(q))
         /\ Len(Tail(q)) = Len(q) - 1
         /\ Head(q) \in Elements(q)
         /\ Elements(Tail(q)) = Elements(q) \ {Head(q)}
<1> DEFINE r == Tail(q)
<1>1. /\ r \in Seq(Conn) /\ Len(q) \in Nat \ {0} /\ Len(r) = Len(q) - 1 /\ Head(q) = q[1]
      /\ Head(q) \in Conn
      /\ \A i \in 1..Len(r) : r[i] = q[i + 1] /\ i + 1 \in 1..Len(q) /\ i + 1 # 1
  OBVIOUS
<1> HIDE DEF r
<1>2. Distinct(r)
  <2> SUFFICES ASSUME NEW i \in 1..Len(r), NEW j \in 1..Len(r), r[i] = r[j] PROVE i = j
    BY DEF Distinct
  <2>1. i + 1 = j + 1
    BY <1>1 DEF Distinct
  <2> QED  BY <1>1, <2>1
<1>3. 1 \in 1..Len(q)
  BY <1>1
<1>4. ASSUME NEW x \in Elements(r) PROVE x \in Elements(q) \ {Head(q)}
  BY <1>1, <1>3, <1>4 DEF Elements, Distinct
<1>5. ASSUME NEW x \in Elements(q), x # Head(q) PROVE x \in Elements(r)
  <2>1. PICK i \in 1..Len(q) : x = q[i]
    BY DEF Elements
  <2>2. i # 1
    BY <1>1, <1>5, <2>1
  <2>3. i - 1 \in 1..Len(r) /\ r[i - 1] = x
    <3>1. i - 1 \in 1..Len(r) /\ (i - 1) + 1 = i
      BY <1>1, <2>2
    <3> QED  BY <1>1, <2>1, <3>1
  <2> QED  BY <2>3 DEF Elements
<1>6. Head(q) \in Elements(q)
  BY <1>1, <1>3 DEF Elements
<1> QED  BY <1>1, <1>2, <1>4, <1>5, <1>6 DEF r

LEMMA AppendElements ==
  ASSUME NEW q \in Seq(Conn), Distinct(q), NEW x \in Conn, x \notin Elements(q)
  PROVE  /\ Append(q, x) \in Seq(Conn) /\ Len(Append(q, x)) = Len(q) + 1
         /\ Distinct(Append(q, x))
         /\ Elements(Append(q, x)) = Elements(q) \cup {x}
<1> DEFINE r == Append(q, x)
<1>1. /\ r \in Seq(Conn) /\ Len(q) \in Nat /\ Len(r) = Len(q) + 1 /\ r[Len(q) + 1] = x
      /\ \A i \in 1..Len(q) : r[i] = q[i]
  OBVIOUS
<1> HIDE DEF r
<1>2. \A i \in 1..Len(r) : i \in 1..Len(q) \/ i = Len(q) + 1
  BY <1>1
<1>3. \A i \in 1..Len(q) : i \in 1..Len(r) /\ q[i] # x
  BY <1>1 DEF Elements
<1>4. Len(q) + 1 \in 1..Len(r)
  BY <1>1
<1>5. Distinct(r)
  BY <1>1, <1>2, <1>3 DEF Distinct
<1>6. Elements(r) = Elements(q) \cup {x}
  BY <1>1, <1>2, <1>3, <1>4 DEF Elements
<1> QED  BY <1>1, <1>5, <1>6 DEF r

-----------------------------------------------------------------------------
(* The inductive invariant: who holds the mutex, who refers to a connection,
   and the two properties of the queue themselves. *)

Inside(h) == pc[h] \in {"fetch", "create", "recreate"}
MutexOwned == \A h \in Handler : Inside(h) <=> mutex = h
ConnOwned == \A h \in Handler : conn[h] # NoConn <=> pc[h] \in {"create", "use", "recreate"}
PoolInv == TypeOK /\ MutexOwned /\ ConnOwned /\ ExclusiveLending /\ Accounted

LEMMA HoldersFinite ==
  IsFiniteSet(Holders) /\ Cardinality(Holders) \in Nat /\ Cardinality(Holders) <= Cardinality(Handler)
  BY ConnectionPoolAssumption, FS_Subset, FS_CardinalityType DEF Holders

(* A handler that takes up a connection, and one that drops its own. *)
LEMMA TakeUp ==
  ASSUME TypeOK, NEW h \in Handler, NEW x \in Conn, conn[h] = NoConn,
         conn' = [conn EXCEPT ![h] = x]
  PROVE  /\ Cardinality(Holders') = Cardinality(Holders) + 1
         /\ Holders' = Holders \cup {h}
         /\ Held' = Held \cup {x}
         /\ \A g \in Handler : g # h => conn'[g] = conn[g]
         /\ conn' \in [Handler -> Conn \cup {NoConn}]
<1>1. x # NoConn
  BY ConnectionPoolAssumption
<1>2. \A g \in Handler : conn'[g] = IF g = h THEN x ELSE conn[g]
  BY DEF TypeOK
<1>3. Holders' = Holders \cup {h} /\ h \notin Holders
  BY <1>1, <1>2 DEF Holders
<1>4. Held' = Held \cup {x}
  BY <1>2, <1>3 DEF Held, Holders
<1>5. Cardinality(Holders') = Cardinality(Holders) + 1
  BY <1>3, HoldersFinite, FS_AddElement
<1> QED  BY <1>2, <1>3, <1>4, <1>5 DEF TypeOK

LEMMA Drop ==
  ASSUME TypeOK, ExclusiveLending, NEW h \in Handler, conn[h] # NoConn,
         conn' = [conn EXCEPT ![h] = NoConn]
  PROVE  /\ Cardinality(Holders') = Cardinality(Holders) - 1
         /\ Holders' = Holders \ {h}
         /\ Held' = Held \ {conn[h]}
         /\ \A g \in Handler : g # h => conn'[g] = conn[g]
         /\ conn' \in [Handler -> Conn \cup {NoConn}]
         /\ Cardinality(Holders) > 0
<1>2. \A g \in Handler : conn'[g] = IF g = h THEN NoConn ELSE conn[g]
  BY DEF TypeOK
<1>3. Holders' = Holders \ {h} /\ h \in Holders
  BY <1>2 DEF Holders
<1>4. Held' = Held \ {conn[h]}
  BY <1>2, <1>3 DEF Held, Holders, ExclusiveLending
<1>5. Cardinality(Holders') = Cardinality(Holders) - 1
  BY <1>3, HoldersFinite, FS_RemoveElement
<1>6. Cardinality(Holders) > 0
  BY <1>3, HoldersFinite, FS_EmptySet
<1> QED  BY <1>2, <1>3, <1>4, <1>5, <1>6 DEF TypeOK

LEMMA InitialQueue ==
  ASSUME Init
  PROVE  connectionQueue \in Seq(Conn) /\ Len(connectionQueue) \in 0..PoolSize
<1>1. PICK k \in InitialSizes : connectionQueue \in [1..k -> Conn]
  BY DEF Init
<1>2. k \in Nat /\ k \in 0..PoolSize
  BY ConnectionPoolAssumption
<1>3. connectionQueue \in Seq(Conn) /\ Len(connectionQueue) = k
  BY <1>1, <1>2
<1> QED  BY <1>2, <1>3

LEMMA PoolInvInit == Init => PoolInv
<1> SUFFICES ASSUME Init PROVE PoolInv
  OBVIOUS
<1>1. connectionQueue \in Seq(Conn) /\ Len(connectionQueue) \in 0..PoolSize /\ PoolSize \in Nat
  BY InitialQueue, ConnectionPoolAssumption
<1>2. Idle \subseteq Conn
  BY <1>1 DEF Idle, Elements
<1>3. lost \in 0..PoolSize /\ lost = PoolSize - Len(connectionQueue)
  BY <1>1 DEF Init
<1>4. /\ 0 \in 0..(MaxAttempts - 1) /\ 0 \in 0..(MaxCreateAttempts - 1) /\ 0 \in 0..MaxDeaths
      /\ 0 \in 0..MaxOutages /\ 0 \in 0..MaxRefusals /\ 0 \in 0..MaxSessions
  BY ConnectionPoolAssumption
<1>5. TypeOK
  BY <1>1, <1>2, <1>3, <1>4 DEF Init, TypeOK, HandlerState
<1>6. Holders = {} /\ Held = {}
  BY DEF Init, Holders, Held
<1>7. Accounted
  BY <1>1, <1>3, <1>6, FS_EmptySet DEF Accounted
<1>8. ExclusiveLending
  BY <1>6 DEF ExclusiveLending, Init
<1>9. MutexOwned /\ ConnOwned
  BY ConnectionPoolAssumption DEF Init, MutexOwned, ConnOwned, Inside
<1> QED  BY <1>5, <1>7, <1>8, <1>9 DEF PoolInv

-----------------------------------------------------------------------------
(* One lemma per kind of step. *)

LEMMA AttemptTypes ==
  ASSUME TypeOK, AttemptFails
  PROVE  /\ live' = live /\ dbUp' = dbUp /\ deaths' = deaths /\ outages' = outages
         /\ refusals' \in 0..MaxRefusals
<1>1. CASE refusals < MaxRefusals /\ refusals' = refusals + 1
  BY <1>1, ConnectionPoolAssumption DEF TypeOK, AttemptFails
<1>2. CASE refusals' = refusals
  BY <1>2 DEF TypeOK, AttemptFails
<1> QED  BY <1>1, <1>2 DEF AttemptFails

(* Lock, delay, throw and call move no connection. *)
LEMMA WaitingStep ==
  ASSUME PoolInv, NEW h \in Handler,
         Call(h) \/ Lock(h) \/ FetchDelay(h) \/ FetchThrow(h) \/ CreateRetries(h)
  PROVE  PoolInv'
<1>0. TypeOK /\ MutexOwned /\ ConnOwned /\ ExclusiveLending /\ Accounted
  BY DEF PoolInv
<1>1. /\ connectionQueue' = connectionQueue /\ conn' = conn /\ lost' = lost
      /\ live' = live /\ dbUp' = dbUp /\ deaths' = deaths /\ outages' = outages
      /\ refusals' \in 0..MaxRefusals
  <2>1. CASE CreateRetries(h)
    BY <1>0, <2>1, AttemptTypes DEF CreateRetries
  <2>2. CASE Call(h) \/ Lock(h) \/ FetchDelay(h) \/ FetchThrow(h)
    BY <1>0, <2>2 DEF Call, Lock, FetchDelay, FetchThrow, dbVars, TypeOK
  <2> QED  BY <2>1, <2>2
<1>2. ExclusiveLending' /\ Accounted'
  BY <1>0, <1>1 DEF ExclusiveLending, Accounted, Idle, Held, Holders
<1>3. pc' \in [Handler -> HandlerState] /\ mutex' \in Handler \cup {NoHandler}
  BY <1>0 DEF TypeOK, Call, Lock, FetchDelay, FetchThrow, CreateRetries, HandlerState, ReleasedBy
<1>4. /\ attempt' \in [Handler -> 0..(MaxAttempts - 1)]
      /\ tries' \in [Handler -> 0..(MaxCreateAttempts - 1)]
      /\ sessions' \in [Handler -> 0..MaxSessions]
  <2> USE <1>0, ConnectionPoolAssumption DEF TypeOK
  <2>1. CASE Call(h)
    <3>1. sessions[h] + 1 \in 0..MaxSessions /\ 0 \in 0..(MaxAttempts - 1)
      BY <2>1 DEF Call
    <3> QED  BY <2>1, <3>1 DEF Call
  <2>2. CASE Lock(h) \/ FetchThrow(h)
    BY <2>2 DEF Lock, FetchThrow
  <2>3. CASE FetchDelay(h)
    <3>1. attempt[h] + 1 \in 0..(MaxAttempts - 1)
      BY <2>3 DEF FetchDelay, AttemptsLeft
    <3> QED  BY <2>3, <3>1 DEF FetchDelay
  <2>4. CASE CreateRetries(h)
    <3>1. tries[h] + 1 \in 0..(MaxCreateAttempts - 1)
      BY <2>4 DEF CreateRetries
    <3> QED  BY <2>4, <3>1 DEF CreateRetries
  <2> QED  BY <2>1, <2>2, <2>3, <2>4
<1>5. TypeOK'
  BY <1>0, <1>1, <1>3, <1>4 DEF TypeOK
<1>6. MutexOwned' /\ ConnOwned'
  BY <1>0, <1>1, ConnectionPoolAssumption
     DEF TypeOK, MutexOwned, ConnOwned, Inside, Call, Lock, FetchDelay, FetchThrow,
         CreateRetries, ReleasedBy
<1> QED  BY <1>2, <1>5, <1>6 DEF PoolInv

(* The pop: the head of the queue passes to the handler, valid or not. *)
LEMMA FetchStep ==
  ASSUME PoolInv, NEW h \in Handler, FetchValid(h) \/ FetchInvalid(h)
  PROVE  PoolInv'
<1> DEFINE x == Head(connectionQueue)
<1>0. TypeOK /\ MutexOwned /\ ConnOwned /\ ExclusiveLending /\ Accounted
  BY DEF PoolInv
<1>1. /\ connectionQueue # <<>> /\ connectionQueue' = Tail(connectionQueue)
      /\ conn' = [conn EXCEPT ![h] = x] /\ pc[h] = "fetch" /\ conn[h] = NoConn /\ mutex = h
      /\ attempt' = attempt /\ lost' = lost /\ dbVars' = dbVars /\ sessions' = sessions
  BY <1>0 DEF FetchValid, FetchInvalid, Remaining, ConnOwned, MutexOwned, Inside
<1>2. /\ x \in Conn /\ Distinct(connectionQueue') /\ connectionQueue' \in Seq(Conn)
      /\ Len(connectionQueue') = Len(connectionQueue) - 1
      /\ x \in Idle /\ Idle' = Idle \ {x}
  BY <1>0, <1>1, TailElements DEF TypeOK, ExclusiveLending, Idle
<1> HIDE DEF x
<1>3. /\ Cardinality(Holders') = Cardinality(Holders) + 1
      /\ Held' = Held \cup {x} /\ Holders' = Holders \cup {h}
      /\ conn' \in [Handler -> Conn \cup {NoConn}]
      /\ \A g \in Handler : conn'[g] = IF g = h THEN x ELSE conn[g]
  BY <1>0, <1>1, <1>2, TakeUp DEF TypeOK
<1>4. ExclusiveLending'
  <2>1. Idle' \cap Held' = {}
    BY <1>0, <1>2, <1>3 DEF ExclusiveLending
  <2>2. ASSUME NEW f \in Holders', NEW g \in Holders', conn'[f] = conn'[g] PROVE f = g
    <3>1. \A k \in Holders : conn[k] # x
      BY <1>0, <1>2 DEF ExclusiveLending, Held
    <3>2. f \in Handler /\ g \in Handler /\ (f # h => f \in Holders) /\ (g # h => g \in Holders)
      BY <1>3 DEF Holders
    <3> QED  BY <1>0, <1>3, <2>2, <3>1, <3>2 DEF ExclusiveLending
  <2> QED  BY <1>2, <2>1, <2>2 DEF ExclusiveLending
<1>5. Accounted'
  <2>1. Len(connectionQueue) \in Nat /\ lost \in Nat /\ PoolSize \in Nat
    BY <1>0, ConnectionPoolAssumption DEF TypeOK
  <2> QED  BY <1>0, <1>1, <1>2, <1>3, <2>1, HoldersFinite DEF Accounted
<1>6. /\ pc' \in [Handler -> HandlerState] /\ mutex' \in Handler \cup {NoHandler}
      /\ tries' \in [Handler -> 0..(MaxCreateAttempts - 1)]
  <2>1. 0 \in 0..(MaxCreateAttempts - 1)
    BY ConnectionPoolAssumption
  <2> QED  BY <1>0, <2>1 DEF TypeOK, FetchValid, FetchInvalid, HandlerState
<1>7. TypeOK'
  BY <1>0, <1>1, <1>2, <1>3, <1>6 DEF TypeOK, dbVars
<1>8. MutexOwned'
  BY <1>0, <1>1, ConnectionPoolAssumption DEF TypeOK, MutexOwned, Inside, FetchValid, FetchInvalid
<1>9. ConnOwned'
  BY <1>0, <1>1, <1>2, <1>3, ConnectionPoolAssumption
     DEF TypeOK, ConnOwned, FetchValid, FetchInvalid
<1> QED  BY <1>4, <1>5, <1>7, <1>8, <1>9 DEF PoolInv

(* The end of createNewConnection(): one connection out, and one in or lost. *)
LEMMA CreateStep ==
  ASSUME PoolInv, NEW h \in Handler, CreateSucceeds(h) \/ CreateGivesUp(h)
  PROVE  PoolInv'
<1>0. TypeOK /\ MutexOwned /\ ConnOwned /\ ExclusiveLending /\ Accounted
  BY DEF PoolInv
<1>1. /\ conn' = [conn EXCEPT ![h] = NoConn] /\ conn[h] # NoConn /\ mutex = h
      /\ attempt' = attempt /\ tries' = tries /\ sessions' = sessions
      /\ dbUp' = dbUp /\ deaths' = deaths /\ outages' = outages
      /\ refusals' \in 0..MaxRefusals
  <2>1. CASE CreateSucceeds(h)
    BY <1>0, <2>1 DEF CreateSucceeds, Creating, Leave, ConnOwned, MutexOwned, Inside, TypeOK
  <2>2. CASE CreateGivesUp(h)
    BY <1>0, <2>2, AttemptTypes DEF CreateGivesUp, Creating, Leave, ConnOwned, MutexOwned, Inside
  <2> QED  BY <2>1, <2>2
<1>2. /\ Cardinality(Holders') = Cardinality(Holders) - 1 /\ Cardinality(Holders) > 0
      /\ Held' = Held \ {conn[h]} /\ Holders' = Holders \ {h}
      /\ conn' \in [Handler -> Conn \cup {NoConn}]
      /\ \A g \in Handler : conn'[g] = IF g = h THEN NoConn ELSE conn[g]
  BY <1>0, <1>1, Drop DEF TypeOK
<1>3. /\ Len(connectionQueue) \in Nat /\ lost \in Nat /\ PoolSize \in Nat
      /\ Cardinality(Holders) \in Nat
  BY <1>0, ConnectionPoolAssumption, HoldersFinite DEF TypeOK
<1>4. /\ connectionQueue' \in Seq(Conn) /\ Distinct(connectionQueue') /\ Idle' \cap Held' = {}
      /\ Accounted' /\ lost' \in 0..PoolSize /\ live' \subseteq Conn
  <2>1. CASE CreateSucceeds(h)
    <3>1. PICK x \in Conn \ (Idle \cup Held) :
            connectionQueue' = Append(connectionQueue, x) /\ live' = live \cup {x}
      BY <2>1 DEF CreateSucceeds, Stocked
    <3>2. /\ connectionQueue' \in Seq(Conn) /\ Len(connectionQueue') = Len(connectionQueue) + 1
          /\ Distinct(connectionQueue') /\ Idle' = Idle \cup {x}
      BY <1>0, <3>1, AppendElements DEF TypeOK, ExclusiveLending, Idle
    <3>3. lost' = lost
      BY <2>1 DEF CreateSucceeds
    <3>4. Accounted'
      BY <1>0, <1>2, <1>3, <3>2, <3>3 DEF Accounted
    <3>5. Idle' \cap Held' = {}
      BY <1>0, <1>2, <3>1, <3>2 DEF ExclusiveLending
    <3> QED  BY <1>0, <3>1, <3>2, <3>3, <3>4, <3>5 DEF TypeOK
  <2>2. CASE CreateGivesUp(h)
    <3>1. connectionQueue' = connectionQueue /\ lost' = lost + 1 /\ live' = live
      BY <1>0, <2>2, AttemptTypes DEF CreateGivesUp
    <3>2. Accounted' /\ lost' \in 0..PoolSize
      BY <1>0, <1>2, <1>3, <3>1 DEF Accounted
    <3>3. Idle' = Idle
      BY <3>1 DEF Idle
    <3> QED  BY <1>0, <1>2, <3>1, <3>2, <3>3 DEF TypeOK, ExclusiveLending
  <2> QED  BY <2>1, <2>2
<1>5. ExclusiveLending'
  <2>1. ASSUME NEW f \in Holders', NEW g \in Holders', conn'[f] = conn'[g] PROVE f = g
    <3>1. f \in Holders /\ g \in Holders /\ conn'[f] = conn[f] /\ conn'[g] = conn[g]
      BY <1>2 DEF Holders
    <3> QED  BY <1>0, <2>1, <3>1 DEF ExclusiveLending
  <2> QED  BY <1>4, <2>1 DEF ExclusiveLending
<1>6. pc' \in [Handler -> HandlerState] /\ mutex' \in Handler \cup {NoHandler}
  BY <1>0 DEF TypeOK, CreateSucceeds, CreateGivesUp, Leave, HandlerState
<1>7. TypeOK'
  <2>1. /\ attempt' \in [Handler -> 0..(MaxAttempts - 1)]
        /\ tries' \in [Handler -> 0..(MaxCreateAttempts - 1)]
        /\ sessions' \in [Handler -> 0..MaxSessions]
        /\ dbUp' \in BOOLEAN /\ deaths' \in 0..MaxDeaths /\ outages' \in 0..MaxOutages
    BY <1>0, <1>1 DEF TypeOK
  <2> QED  BY <1>1, <1>2, <1>4, <1>6, <2>1 DEF TypeOK
<1>8. MutexOwned'
  <2>1. Leave(h)
    BY DEF CreateSucceeds, CreateGivesUp
  <2>2. pc \in [Handler -> HandlerState] /\ mutex = h
    BY <1>0, <1>1 DEF TypeOK
  <2> QED  BY <1>0, <2>1, <2>2, ConnectionPoolAssumption DEF MutexOwned, Inside, Leave
<1>9. ConnOwned'
  BY <1>0, <1>1, <1>2
     DEF TypeOK, ConnOwned, CreateSucceeds, CreateGivesUp, Leave
<1> QED  BY <1>4, <1>5, <1>7, <1>8, <1>9 DEF PoolInv

(* returnConnection() of a valid connection. *)
LEMMA ReturnValidStep ==
  ASSUME PoolInv, NEW h \in Handler, ReturnValid(h) PROVE PoolInv'
<1> DEFINE x == conn[h]
<1>0. TypeOK /\ MutexOwned /\ ConnOwned /\ ExclusiveLending /\ Accounted
  BY DEF PoolInv
<1>1. /\ connectionQueue' = Append(connectionQueue, x) /\ conn' = [conn EXCEPT ![h] = NoConn]
      /\ x # NoConn /\ pc[h] = "use" /\ pc' = [pc EXCEPT ![h] = "idle"]
      /\ mutex' = mutex /\ attempt' = attempt /\ tries' = tries /\ lost' = lost
      /\ dbVars' = dbVars /\ sessions' = sessions
  BY <1>0 DEF ReturnValid, ConnOwned
<1>2. x \in Conn /\ x \in Held
  BY <1>0, <1>1 DEF TypeOK, Held, Holders
<1>3. x \notin Elements(connectionQueue) /\ Distinct(connectionQueue)
  BY <1>0, <1>2 DEF ExclusiveLending, Idle
<1>4. /\ connectionQueue' \in Seq(Conn) /\ Len(connectionQueue') = Len(connectionQueue) + 1
      /\ Distinct(connectionQueue') /\ Idle' = Idle \cup {x}
  BY <1>0, <1>1, <1>2, <1>3, AppendElements DEF TypeOK, Idle
<1>5. /\ Cardinality(Holders') = Cardinality(Holders) - 1 /\ Cardinality(Holders) > 0
      /\ Held' = Held \ {x} /\ Holders' = Holders \ {h}
      /\ conn' \in [Handler -> Conn \cup {NoConn}]
      /\ \A g \in Handler : conn'[g] = IF g = h THEN NoConn ELSE conn[g]
  BY <1>0, <1>1, Drop DEF TypeOK
<1> HIDE DEF x
<1>6. ExclusiveLending'
  <2>1. ASSUME NEW f \in Holders', NEW g \in Holders', conn'[f] = conn'[g] PROVE f = g
    <3>1. f \in Holders /\ g \in Holders /\ conn'[f] = conn[f] /\ conn'[g] = conn[g]
      BY <1>5 DEF Holders
    <3> QED  BY <1>0, <2>1, <3>1 DEF ExclusiveLending
  <2>2. Idle' \cap Held' = {}
    BY <1>0, <1>4, <1>5 DEF ExclusiveLending
  <2> QED  BY <1>4, <2>1, <2>2 DEF ExclusiveLending
<1>7. Accounted'
  <2>1. Len(connectionQueue) \in Nat /\ lost \in Nat /\ PoolSize \in Nat /\ Cardinality(Holders) \in Nat
    BY <1>0, ConnectionPoolAssumption, HoldersFinite DEF TypeOK
  <2> QED  BY <1>0, <1>1, <1>4, <1>5, <2>1 DEF Accounted
<1>8. TypeOK'
  BY <1>0, <1>1, <1>4, <1>5 DEF TypeOK, HandlerState, dbVars
<1>9. MutexOwned' /\ ConnOwned'
  BY <1>0, <1>1, <1>5 DEF TypeOK, MutexOwned, ConnOwned, Inside
<1> QED  BY <1>6, <1>7, <1>8, <1>9 DEF PoolInv

LEMMA ReturnInvalidStep ==
  ASSUME PoolInv, NEW h \in Handler, ReturnInvalid(h) PROVE PoolInv'
<1>0. TypeOK /\ MutexOwned /\ ConnOwned /\ ExclusiveLending /\ Accounted
  BY DEF PoolInv
<1>1. /\ connectionQueue' = connectionQueue /\ conn' = conn /\ lost' = lost /\ dbVars' = dbVars
      /\ mutex = NoHandler /\ mutex' = h /\ pc[h] = "use"
      /\ pc' = [pc EXCEPT ![h] = "recreate"] /\ tries' = [tries EXCEPT ![h] = 0]
      /\ attempt' = attempt /\ sessions' = sessions
  BY DEF ReturnInvalid, Discarded
<1>2. ExclusiveLending' /\ Accounted'
  BY <1>0, <1>1 DEF ExclusiveLending, Accounted, Idle, Held, Holders
<1>3. 0 \in 0..(MaxCreateAttempts - 1)
  BY ConnectionPoolAssumption
<1>4. TypeOK'
  BY <1>0, <1>1, <1>3 DEF TypeOK, HandlerState, dbVars
<1>5. MutexOwned' /\ ConnOwned'
  BY <1>0, <1>1, ConnectionPoolAssumption DEF TypeOK, MutexOwned, ConnOwned, Inside
<1> QED  BY <1>2, <1>4, <1>5 DEF PoolInv

LEMMA DatabaseStep ==
  ASSUME PoolInv, Database PROVE PoolInv'
<1>0. TypeOK /\ MutexOwned /\ ConnOwned /\ ExclusiveLending /\ Accounted
  BY DEF PoolInv
<1>1. /\ connectionQueue' = connectionQueue /\ conn' = conn /\ lost' = lost /\ pc' = pc
      /\ mutex' = mutex /\ attempt' = attempt /\ tries' = tries /\ sessions' = sessions
  BY DEF Database, ConnectionDies, DatabaseFails, DatabaseRecovers
<1>2. ExclusiveLending' /\ Accounted' /\ MutexOwned' /\ ConnOwned'
  BY <1>0, <1>1
     DEF ExclusiveLending, Accounted, Idle, Held, Holders, MutexOwned, ConnOwned, Inside
<1>3. /\ live' \subseteq Conn /\ dbUp' \in BOOLEAN /\ deaths' \in 0..MaxDeaths
      /\ outages' \in 0..MaxOutages /\ refusals' \in 0..MaxRefusals
  <2> USE <1>0, ConnectionPoolAssumption DEF TypeOK
  <2>1. CASE \E x \in Conn : ConnectionDies(x)
    <3>1. PICK x \in Conn : ConnectionDies(x)
      BY <2>1
    <3>2. live' \subseteq live /\ deaths + 1 \in 0..MaxDeaths /\ deaths' = deaths + 1
      BY <3>1 DEF ConnectionDies
    <3> QED  BY <3>1, <3>2 DEF ConnectionDies
  <2>2. CASE DatabaseFails
    <3>1. outages + 1 \in 0..MaxOutages
      BY <2>2 DEF DatabaseFails
    <3> QED  BY <2>2, <3>1 DEF DatabaseFails
  <2>3. CASE DatabaseRecovers
    BY <2>3 DEF DatabaseRecovers
  <2> QED  BY <2>1, <2>2, <2>3 DEF Database
<1>4. TypeOK'
  BY <1>0, <1>1, <1>3 DEF TypeOK
<1> QED  BY <1>2, <1>4 DEF PoolInv

LEMMA PoolInvStep == PoolInv /\ [Next]_vars => PoolInv'
<1> SUFFICES ASSUME PoolInv, [Next]_vars PROVE PoolInv'
  OBVIOUS
<1>1. CASE UNCHANGED vars
  BY <1>1
     DEF vars, dbVars, PoolInv, TypeOK, MutexOwned, ConnOwned, Inside, ExclusiveLending,
         Accounted, Idle, Held, Holders
<1> QED
  BY <1>1, WaitingStep, FetchStep, CreateStep, ReturnValidStep, ReturnInvalidStep, DatabaseStep
     DEF Next, Get, Create, Return

(* The types, who holds the mutex and who refers to a connection. *)
THEOREM PoolInvariant == Spec => []PoolInv
<1> QED  BY PoolInvInit, PoolInvStep, PTL DEF Spec

(* The variables keep their types: the retry counters of getConnection() and
   createNewConnection() stay within their limits, and no more connections are
   given up than the pool was built with. *)
THEOREM TypeCorrect == Spec => []TypeOK
<1>1. PoolInv => TypeOK
  BY DEF PoolInv
<1> QED  BY <1>1, PoolInvariant, PTL

(* No connection is lent to two handlers, or lent and idle. *)
THEOREM NeverShared == Spec => []ExclusiveLending
<1>1. PoolInv => ExclusiveLending
  BY DEF PoolInv
<1> QED  BY <1>1, PoolInvariant, PTL

(* Every connection of the configured poolSize is idle, held or given up by
   createNewConnection(): none leaks, and the pool never grows. *)
THEOREM NoneLeaks == Spec => []Accounted
<1>1. PoolInv => Accounted
  BY DEF PoolInv
<1> QED  BY <1>1, PoolInvariant, PTL

(* As many connections as handlers, and none given up: nobody is sent away. *)
THEOREM NobodyStarves == Spec => []EnoughForAll
<1>1. PoolInv => EnoughForAll
  <2> SUFFICES ASSUME PoolInv, lost = 0, Cardinality(Handler) <= PoolSize,
                      NEW h \in Handler, pc[h] = "fetch"
               PROVE  connectionQueue # <<>>
    BY DEF EnoughForAll
  <2>1. h \notin Holders
    BY DEF PoolInv, ConnOwned, Holders
  <2>2. IsFiniteSet(Handler) /\ Holders \subseteq Handler \ {h}
    BY <2>1, ConnectionPoolAssumption DEF Holders
  <2>3. Cardinality(Handler \ {h}) = Cardinality(Handler) - 1 /\ IsFiniteSet(Handler \ {h})
    BY <2>2, FS_RemoveElement
  <2>4. Cardinality(Holders) <= Cardinality(Handler \ {h})
    BY <2>2, <2>3, FS_Subset
  <2>5. Cardinality(Handler) \in Nat /\ Cardinality(Holders) \in Nat /\ PoolSize \in Nat
    BY <2>2, HoldersFinite, FS_CardinalityType, ConnectionPoolAssumption
  <2>6. Len(connectionQueue) + Cardinality(Holders) = PoolSize /\ Len(connectionQueue) \in Nat
    BY <2>5 DEF PoolInv, Accounted, TypeOK
  <2>7. Len(connectionQueue) # 0
    BY <2>3, <2>4, <2>5, <2>6
  <2> QED  BY <2>7
<1> QED  BY <1>1, PoolInvariant, PTL

-----------------------------------------------------------------------------
(* The refinement of LendingPool. *)

Lent == [h \in Handler |-> IF pc[h] = "use" THEN {conn[h]} ELSE {}]

LEMMA LendingInit == Init => Lending!Init
<1> SUFFICES ASSUME Init PROVE Lending!Init
  OBVIOUS
<1>1. connectionQueue \in Seq(Conn)
  BY InitialQueue
<1>2. Idle \subseteq Conn
  BY <1>1 DEF Idle, Elements
<1>3. Lent = [h \in Handler |-> {}]
  BY DEF Init, Lent
<1> QED  BY <1>2, <1>3 DEF Lending!Init, Lent

(* A step that moves neither the queue nor a handler into or out of "use". *)
LEMMA LendingStutter ==
  ASSUME connectionQueue' = connectionQueue,
         \A h \in Handler : /\ pc'[h] = "use" <=> pc[h] = "use"
                            /\ pc[h] = "use" => conn'[h] = conn[h]
  PROVE  Idle' = Idle /\ Lent' = Lent
  BY DEF Idle, Lent

LEMMA LendingStep == PoolInv /\ [Next]_vars => [Lending!Next]_Lending!vars
<1> SUFFICES ASSUME PoolInv, [Next]_vars
             PROVE  Lending!Next \/ (Idle' = Idle /\ Lent' = Lent)
  BY DEF Lending!vars, Lent
<1>0. TypeOK /\ MutexOwned /\ ConnOwned /\ ExclusiveLending
  BY DEF PoolInv
<1>1. CASE UNCHANGED vars
  BY <1>1, LendingStutter DEF vars
<1>2. CASE Database
  BY <1>2, LendingStutter DEF Database, ConnectionDies, DatabaseFails, DatabaseRecovers
<1>3. ASSUME NEW h \in Handler,
             Call(h) \/ Lock(h) \/ FetchDelay(h) \/ FetchThrow(h) \/ CreateRetries(h)
      PROVE  Idle' = Idle /\ Lent' = Lent
  BY <1>0, <1>3, LendingStutter
     DEF TypeOK, Call, Lock, FetchDelay, FetchThrow, CreateRetries
<1>4. ASSUME NEW h \in Handler, FetchValid(h) PROVE Lending!Next
  <2>0. PICK x : x = Head(connectionQueue)
    OBVIOUS
  <2>1. /\ connectionQueue # <<>> /\ connectionQueue' = Tail(connectionQueue) /\ pc[h] = "fetch"
        /\ pc' = [pc EXCEPT ![h] = "use"] /\ conn' = [conn EXCEPT ![h] = x]
    BY <1>4, <2>0 DEF FetchValid, Remaining
  <2>2. x \in Conn /\ x \in Idle /\ Idle' = Idle \ {x}
    BY <1>0, <2>0, <2>1, TailElements DEF TypeOK, ExclusiveLending, Idle
  <2>3. Lent' = [Lent EXCEPT ![h] = {x}] /\ Lent[h] = {}
    BY <1>0, <2>1 DEF TypeOK, Lent
  <2>4. Lending!Lend(h, x)
    BY <2>2, <2>3 DEF Lending!Lend, Lent
  <2> QED  BY <2>2, <2>4 DEF Lending!Next
<1>5. ASSUME NEW h \in Handler, FetchInvalid(h) PROVE Lending!Next
  <2>0. PICK x : x = Head(connectionQueue)
    OBVIOUS
  <2>1. /\ connectionQueue # <<>> /\ connectionQueue' = Tail(connectionQueue) /\ pc[h] = "fetch"
        /\ pc' = [pc EXCEPT ![h] = "create"] /\ conn' = [conn EXCEPT ![h] = x]
    BY <1>5, <2>0 DEF FetchInvalid, Remaining
  <2>2. x \in Conn /\ x \in Idle /\ Idle' = Idle \ {x}
    BY <1>0, <2>0, <2>1, TailElements DEF TypeOK, ExclusiveLending, Idle
  <2>3. Lent' = Lent
    BY <1>0, <2>1 DEF TypeOK, Lent
  <2>4. Lending!ThrowAway(x)
    BY <2>2, <2>3 DEF Lending!ThrowAway, Lent
  <2> QED  BY <2>2, <2>4 DEF Lending!Next
<1>6. ASSUME NEW h \in Handler, CreateSucceeds(h) PROVE Lending!Next
  <2>1. PICK x \in Conn \ (Idle \cup Held) : connectionQueue' = Append(connectionQueue, x)
    BY <1>6 DEF CreateSucceeds, Stocked
  <2>2. Idle' = Idle \cup {x}
    BY <1>0, <2>1, AppendElements DEF TypeOK, ExclusiveLending, Idle
  <2>3. Lent' = Lent
    BY <1>0, <1>6 DEF TypeOK, CreateSucceeds, Creating, Leave, Lent
  <2>4. \A c \in Handler : x \notin Lent[c]
    BY <1>0, <2>1 DEF Lent, Held, Holders, ConnOwned
  <2>5. Lending!PutNew(x)
    BY <2>1, <2>2, <2>3, <2>4 DEF Lending!PutNew, Lent
  <2> QED  BY <2>1, <2>5 DEF Lending!Next
<1>7. ASSUME NEW h \in Handler, CreateGivesUp(h) PROVE Idle' = Idle /\ Lent' = Lent
  BY <1>0, <1>7, LendingStutter DEF TypeOK, CreateGivesUp, Creating, Leave
<1>8. ASSUME NEW h \in Handler, ReturnValid(h) PROVE Lending!Next
  <2>1. /\ connectionQueue' = Append(connectionQueue, conn[h]) /\ pc[h] = "use"
        /\ pc' = [pc EXCEPT ![h] = "idle"] /\ conn' = [conn EXCEPT ![h] = NoConn]
        /\ conn[h] # NoConn
    BY <1>0, <1>8 DEF ReturnValid, ConnOwned
  <2>2. conn[h] \in Conn /\ conn[h] \in Held
    BY <1>0, <2>1 DEF TypeOK, Held, Holders
  <2>3. conn[h] \notin Elements(connectionQueue) /\ Distinct(connectionQueue)
    BY <1>0, <2>2 DEF ExclusiveLending, Idle
  <2>4. Idle' = Idle \cup {conn[h]}
    BY <1>0, <2>1, <2>2, <2>3, AppendElements DEF TypeOK, Idle
  <2>5. Lent' = [Lent EXCEPT ![h] = {}] /\ Lent[h] = {conn[h]}
    BY <1>0, <2>1 DEF TypeOK, Lent
  <2>6. Lending!Return(h)
    BY <2>4, <2>5 DEF Lending!Return, Lent
  <2> QED  BY <2>6 DEF Lending!Next
<1>9. ASSUME NEW h \in Handler, ReturnInvalid(h) PROVE Lending!Next
  <2>1. /\ connectionQueue' = connectionQueue /\ pc[h] = "use"
        /\ pc' = [pc EXCEPT ![h] = "recreate"] /\ conn' = conn
    BY <1>9 DEF ReturnInvalid, Discarded
  <2>2. Lent' = [Lent EXCEPT ![h] = {}] /\ Lent[h] = {conn[h]} /\ Idle' = Idle
    BY <1>0, <2>1 DEF TypeOK, Lent, Idle
  <2>3. Lending!BringBackBroken(h)
    BY <2>2 DEF Lending!BringBackBroken, Lent
  <2> QED  BY <2>3 DEF Lending!Next
<1> QED
  BY <1>1, <1>2, <1>3, <1>4, <1>5, <1>6, <1>7, <1>8, <1>9 DEF Next, Get, Create, Return

(* The pool with mutex, health check, retries and replacement implements
   LendingPool: one client at a time has a connection, taken from the pool. *)
THEOREM PoolImplementsLendingPool == Spec => ImplementsLendingPool
<1> QED
  BY LendingInit, LendingStep, PoolInvariant, PTL DEF Spec, ImplementsLendingPool, Lending!Spec
=============================================================================
