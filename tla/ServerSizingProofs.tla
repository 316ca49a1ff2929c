------------------------- MODULE ServerSizingProofs -------------------------
(* Theorems about ServerSizing for any number of connections and any size the
   pool is built for. *)
EXTENDS ServerSizing, FiniteSetTheorems, TLAPS

-----------------------------------------------------------------------------
(* The first part of the inductive invariant: what is counted.  A connection
   the main thread is about to enqueue is the last one it accepted, and no
   worker knows of it. *)

Held == {c \in Connection : at[c] \in {"accepted", "served"}}
Begun == IF apc[Main] = "idle" THEN 1..accepted ELSE 1..(accepted - 1)

CountsHeld ==
  /\ Len(queue) + Cardinality(Held) <= activeConnections
  /\ activeConnections <= accepted
QueueBegun == \A i \in 1..Len(queue) : queue[i] \in Begun
WorkersBegun == \A c \in Connection : (apc[c] # "idle" \/ at[c] = "served") => c \in Begun
MainHolds == apc[Main] # "idle" => accepted \in Connection /\ at[accepted] = "accepted"

CountInv == TypeOK /\ CountsHeld /\ QueueBegun /\ WorkersBegun /\ MainHolds

LEMMA ConnectionFacts ==
  /\ IsFiniteSet(Connection) /\ Main \notin Connection /\ Main \in Adjuster
  /\ Connection \subseteq Nat /\ InitialThreads \in Nat /\ InitialThreads >= 1
  /\ MaxConnections \in Nat
<1>1. IsFiniteSet(Connection)
  BY ServerSizingAssumption, FS_Interval DEF Connection
<1> QED  BY <1>1, ServerSizingAssumption DEF Connection, Main, Adjuster

LEMMA HeldFinite == IsFiniteSet(Held) /\ Cardinality(Held) \in Nat
  BY ConnectionFacts, FS_Subset, FS_CardinalityType DEF Held

LEMMA HeldFinitePrimed == IsFiniteSet(Held') /\ Cardinality(Held)' \in Nat
  BY ConnectionFacts, FS_Subset, FS_CardinalityType DEF Held

(* What a step may do to the set of connections that are held. *)
LEMMA HeldShrinks == ASSUME Held' \subseteq Held PROVE Cardinality(Held)' <= Cardinality(Held)
  BY HeldFinite, FS_Subset

LEMMA HeldGrows ==
  ASSUME NEW c, Held' \subseteq Held \cup {c}
  PROVE  Cardinality(Held)' <= Cardinality(Held) + 1
<1>1. /\ IsFiniteSet(Held \cup {c})
      /\ Cardinality(Held \cup {c}) <= Cardinality(Held) + 1
  BY HeldFinite, FS_AddElement
<1>2. Cardinality(Held') <= Cardinality(Held \cup {c})
  BY <1>1, FS_Subset
<1>3. Cardinality(Held \cup {c}) \in Nat
  BY <1>1, FS_CardinalityType
<1> QED  BY <1>1, <1>2, <1>3, HeldFinite, HeldFinitePrimed

LEMMA HeldLoses ==
  ASSUME NEW c \in Held, Held' \subseteq Held \ {c}
  PROVE  Cardinality(Held)' + 1 <= Cardinality(Held)
<1>1. /\ IsFiniteSet(Held \ {c})
      /\ Cardinality(Held \ {c}) = Cardinality(Held) - 1
  BY HeldFinite, FS_RemoveElement
<1>2. Cardinality(Held') <= Cardinality(Held \ {c})
  BY <1>1, FS_Subset
<1> QED  BY <1>1, <1>2, HeldFinite, HeldFinitePrimed

LEMMA NewSizeType ==
  ASSUME NEW q \in Nat, NEW s \in Nat
  PROVE  NewSize(q, s) \in Nat
<1>1. s \div 2 \in Nat
  OBVIOUS
<1> QED  BY <1>1, ConnectionFacts DEF NewSize, Larger, Smaller

LEMMA CountInvInit == Init => CountInv
<1> SUFFICES ASSUME Init PROVE CountInv
  OBVIOUS
<1>1. Held = {} /\ Cardinality(Held) = 0
  BY FS_EmptySet DEF Init, Held
<1>2. TypeOK
  <2>1. queue \in Seq(Connection) /\ Len(queue) = 0
    BY DEF Init
  <2>2. at \in [Connection -> Progress] /\ apc \in [Adjuster -> AdjustState]
    BY DEF Init, Progress, AdjustState
  <2>3. queueSize \in [Adjuster -> 0..MaxConnections] /\ currentSize \in [Adjuster -> Nat]
    BY ConnectionFacts DEF Init
  <2> QED  BY <2>1, <2>2, <2>3, ConnectionFacts DEF Init, TypeOK
<1>3. CountsHeld
  BY <1>1 DEF Init, CountsHeld
<1> QED
  BY <1>2, <1>3, ConnectionFacts
     DEF Init, CountInv, QueueBegun, WorkersBegun, MainHolds, Adjuster

(* The steps of adjustThreadPoolSize(). *)
LEMMA CountInvAdjust ==
  ASSUME CountInv, NEW t \in Adjuster, AdjustStep(t)
  PROVE  CountInv'
<1>0. TypeOK /\ CountsHeld /\ QueueBegun /\ WorkersBegun /\ MainHolds
  BY DEF CountInv
<1>1. /\ accepted' = accepted /\ activeConnections' = activeConnections
      /\ overloaded' = overloaded /\ queue' = queue
  BY DEF AdjustStep, GetQueueSize, GetSize, Resize, ResizeHangs, Adjusted, connVars
<1>2. /\ apc[t] # "idle"
      /\ apc' \in [Adjuster -> AdjustState]
      /\ \A u \in Adjuster : u # t => apc'[u] = apc[u]
      /\ t = Main => apc'[t] # "idle"
  BY <1>0
     DEF TypeOK, AdjustState, AdjustStep, GetQueueSize, GetSize, Resize, ResizeHangs, Adjusted
<1>3. /\ at' \in [Connection -> Progress]
      /\ at' = at \/ (t # Main /\ at' = [at EXCEPT ![t] = "done"])
  BY <1>0, ConnectionFacts
     DEF TypeOK, Progress, AdjustStep, GetQueueSize, GetSize, Resize, ResizeHangs, Adjusted,
         connVars, Adjuster
<1>4. Len(queue) \in 0..MaxConnections
  BY <1>0, HeldFinite, ConnectionFacts DEF TypeOK, CountsHeld
<1>5. queueSize' \in [Adjuster -> 0..MaxConnections]
  BY <1>0, <1>4, ConnectionFacts
     DEF TypeOK, AdjustStep, GetQueueSize, GetSize, Resize, ResizeHangs, Adjusted, localVars
<1>6. currentSize' \in [Adjuster -> Nat]
  <2>1. currentSize' = currentSize \/ \E n \in {0, size} : currentSize' = [currentSize EXCEPT ![t] = n]
    BY DEF AdjustStep, GetQueueSize, GetSize, Resize, ResizeHangs, Adjusted, localVars
  <2> QED  BY <1>0, <2>1 DEF TypeOK
<1>7. size' \in Nat
  <2>1. queueSize[t] \in Nat /\ currentSize[t] \in Nat
    BY <1>0, ConnectionFacts DEF TypeOK
  <2>2. NewSize(queueSize[t], currentSize[t]) \in Nat
    BY <2>1, NewSizeType
  <2> QED
    BY <1>0, <2>2
       DEF TypeOK, AdjustStep, GetQueueSize, GetSize, Resize, ResizeHangs, connVars
<1>8. TypeOK'
  BY <1>0, <1>1, <1>2, <1>3, <1>5, <1>6, <1>7 DEF TypeOK
<1>9. Begun' = Begun
  BY <1>1, <1>2, ConnectionFacts DEF Begun
<1>10. CountsHeld'
  <2>1. Held' \subseteq Held
    BY <1>0, <1>3, ConnectionFacts DEF Held, TypeOK, Adjuster
  <2> QED
    BY <1>0, <1>1, <2>1, HeldShrinks, HeldFinite, HeldFinitePrimed
       DEF CountsHeld, TypeOK
<1>11. QueueBegun' /\ WorkersBegun'
  BY <1>0, <1>1, <1>2, <1>3, <1>9, ConnectionFacts
     DEF QueueBegun, WorkersBegun, TypeOK, Adjuster
<1>12. MainHolds'
  <2>1. (t # Main /\ apc[Main] # "idle") => t # accepted
    BY <1>0, <1>2, ConnectionFacts DEF WorkersBegun, Begun, Adjuster, TypeOK
  <2> QED
    BY <1>0, <1>1, <1>2, <1>3, <2>1, ConnectionFacts DEF MainHolds, TypeOK, Adjuster
<1> QED  BY <1>8, <1>10, <1>11, <1>12 DEF CountInv

LEMMA CountInvAccept == ASSUME CountInv, Accept PROVE CountInv'
<1>0. TypeOK /\ CountsHeld /\ QueueBegun /\ WorkersBegun /\ MainHolds
  BY DEF CountInv
<1> USE DEF Accept
<1>1. accepted + 1 \in Connection /\ accepted \in Nat
  BY <1>0, ConnectionFacts DEF TypeOK, Connection
<1>2. CountsHeld' /\ activeConnections + 1 <= accepted + 1
  <2>1. Held' \subseteq Held \cup {accepted + 1}
    BY <1>0 DEF Held, TypeOK
  <2>2. Cardinality(Held)' <= Cardinality(Held) + 1
    BY <2>1, HeldGrows
  <2>3. Len(queue) \in Nat /\ queue' = queue
    BY <1>0 DEF TypeOK
  <2> QED
    BY <1>0, <1>1, <2>2, <2>3, HeldFinite, HeldFinitePrimed DEF CountsHeld, TypeOK
<1>3. TypeOK'
  BY <1>0, <1>1, <1>2, ConnectionFacts DEF TypeOK, Progress, AdjustState, Connection, localVars
<1>4. apc'[Main] # "idle" /\ Begun' = Begun
  BY <1>0, <1>1, ConnectionFacts DEF Begun, TypeOK
<1>5. QueueBegun' /\ WorkersBegun'
  BY <1>0, <1>4, ConnectionFacts DEF QueueBegun, WorkersBegun, TypeOK, Adjuster
<1>6. MainHolds'
  BY <1>0, <1>1 DEF MainHolds, TypeOK
<1> QED  BY <1>2, <1>3, <1>5, <1>6 DEF CountInv

LEMMA CountInvEnqueue == ASSUME CountInv, Enqueue PROVE CountInv'
<1>0. TypeOK /\ CountsHeld /\ QueueBegun /\ WorkersBegun /\ MainHolds
  BY DEF CountInv
<1> USE DEF Enqueue
<1>1. accepted \in Connection /\ at[accepted] = "accepted" /\ accepted \in Nat
  BY <1>0, ConnectionFacts DEF MainHolds
<1>2. CountsHeld'
  <2>1. accepted \in Held /\ Held' \subseteq Held \ {accepted}
    BY <1>0, <1>1 DEF Held, TypeOK
  <2>2. Len(queue') = Len(queue) + 1 /\ Len(queue) \in Nat
    BY <1>0, <1>1 DEF TypeOK
  <2>3. Cardinality(Held)' + 1 <= Cardinality(Held)
    BY <2>1, HeldLoses
  <2> QED
    BY <1>0, <2>2, <2>3, HeldFinite, HeldFinitePrimed DEF CountsHeld, TypeOK
<1>3. TypeOK'
  BY <1>0, <1>1, ConnectionFacts DEF TypeOK, Progress, AdjustState, localVars
<1>4. Begun' = 1..accepted /\ Begun = 1..(accepted - 1) /\ accepted \in Begun'
  BY <1>0, <1>1, ConnectionFacts DEF Begun, TypeOK, Connection
<1>5. QueueBegun'
  BY <1>0, <1>1, <1>4 DEF QueueBegun, TypeOK
<1>6. WorkersBegun'
  BY <1>0, <1>1, <1>4, ConnectionFacts DEF WorkersBegun, TypeOK, Adjuster
<1>7. MainHolds'
  BY <1>0, ConnectionFacts DEF MainHolds, TypeOK
<1> QED  BY <1>2, <1>3, <1>5, <1>6, <1>7 DEF CountInv

LEMMA CountInvTake == ASSUME CountInv, Take PROVE CountInv'
<1>0. TypeOK /\ CountsHeld /\ QueueBegun /\ WorkersBegun /\ MainHolds
  BY DEF CountInv
<1> USE DEF Take
<1>1. /\ Head(queue) \in Connection /\ Head(queue) \in Begun
      /\ Len(queue') = Len(queue) - 1 /\ Len(queue) \in Nat /\ Len(queue) > 0
  BY <1>0 DEF TypeOK, QueueBegun
<1>2. CountsHeld'
  <2>1. Held' \subseteq Held \cup {Head(queue)}
    BY <1>0 DEF Held, TypeOK
  <2>2. Cardinality(Held)' <= Cardinality(Held) + 1
    BY <2>1, HeldGrows
  <2> QED
    BY <1>0, <1>1, <2>2, HeldFinite, HeldFinitePrimed DEF CountsHeld, TypeOK
<1>3. TypeOK'
  BY <1>0, <1>1 DEF TypeOK, Progress, localVars
<1>4. Begun' = Begun
  BY DEF Begun
<1>5. QueueBegun'
  BY <1>0, <1>1, <1>4 DEF QueueBegun, TypeOK
<1>6. WorkersBegun'
  BY <1>0, <1>1, <1>4 DEF WorkersBegun, TypeOK
<1>7. MainHolds'
  <2>1. apc[Main] # "idle" => Head(queue) # accepted
    BY <1>0, <1>1, ConnectionFacts DEF Begun, TypeOK
  <2> QED  BY <1>0, <2>1 DEF MainHolds, TypeOK
<1> QED  BY <1>2, <1>3, <1>5, <1>6, <1>7 DEF CountInv

LEMMA CountInvSessionEnds ==
  ASSUME CountInv, NEW c \in Connection, SessionEnds(c) PROVE CountInv'
<1>0. TypeOK /\ CountsHeld /\ QueueBegun /\ WorkersBegun /\ MainHolds
  BY DEF CountInv
<1> USE DEF SessionEnds
<1>1. c \in Begun /\ c # Main /\ c \in Adjuster
  BY <1>0, ConnectionFacts DEF WorkersBegun, Adjuster
<1>2. CountsHeld' /\ activeConnections - 1 >= 0
  <2>1. c \in Held /\ Held' \subseteq Held \ {c}
    BY <1>0 DEF Held, TypeOK
  <2>2. Cardinality(Held)' + 1 <= Cardinality(Held)
    BY <2>1, HeldLoses
  <2>3. Len(queue) \in Nat
    BY <1>0 DEF TypeOK
  <2> QED
    BY <1>0, <2>2, <2>3, HeldFinite, HeldFinitePrimed DEF CountsHeld, CountsOut, TypeOK
<1>3. TypeOK'
  BY <1>0, <1>1, <1>2, ConnectionFacts DEF TypeOK, Progress, AdjustState, CountsOut, localVars
<1>4. Begun' = Begun
  BY <1>0, <1>1, ConnectionFacts DEF Begun, TypeOK
<1>5. QueueBegun' /\ WorkersBegun'
  BY <1>0, <1>1, <1>4, ConnectionFacts DEF QueueBegun, WorkersBegun, TypeOK, Adjuster
<1>6. MainHolds'
  <2>1. apc'[Main] = apc[Main]
    BY <1>0, <1>1, ConnectionFacts DEF TypeOK
  <2>2. apc[Main] # "idle" => c # accepted
    BY <1>0, <1>1, ConnectionFacts DEF Begun, TypeOK
  <2> QED  BY <1>0, <2>1, <2>2 DEF MainHolds, TypeOK
<1> QED  BY <1>2, <1>3, <1>5, <1>6 DEF CountInv

LEMMA CountInvSessionThrows ==
  ASSUME CountInv, NEW c \in Connection, SessionThrows(c) PROVE CountInv'
<1>0. TypeOK /\ CountsHeld /\ QueueBegun /\ WorkersBegun /\ MainHolds
  BY DEF CountInv
<1> USE DEF SessionThrows
<1>1. c \in Begun
  BY <1>0 DEF WorkersBegun
<1>2. CountsHeld'
  <2>1. Held' \subseteq Held
    BY <1>0 DEF Held, TypeOK
  <2>2. Len(queue) \in Nat
    BY <1>0 DEF TypeOK
  <2> QED
    BY <1>0, <2>1, <2>2, HeldShrinks, HeldFinite, HeldFinitePrimed DEF CountsHeld, TypeOK
<1>3. TypeOK'
  BY <1>0 DEF TypeOK, Progress, localVars
<1>4. Begun' = Begun
  BY DEF Begun
<1>5. QueueBegun' /\ WorkersBegun'
  BY <1>0, <1>4 DEF QueueBegun, WorkersBegun, TypeOK
<1>6. MainHolds'
  <2>1. apc[Main] # "idle" => c # accepted
    BY <1>0, <1>1, ConnectionFacts DEF Begun, TypeOK
  <2> QED  BY <1>0, <2>1 DEF MainHolds, TypeOK
<1> QED  BY <1>2, <1>3, <1>5, <1>6 DEF CountInv

LEMMA CountInvNext == CountInv /\ [Next]_vars => CountInv'
<1> SUFFICES ASSUME CountInv, [Next]_vars PROVE CountInv'
  OBVIOUS
<1>1. CASE UNCHANGED vars
  BY <1>1
     DEF CountInv, vars, TypeOK, CountsHeld, Held, QueueBegun, WorkersBegun, MainHolds, Begun
<1>2. CASE Accept
  BY <1>2, CountInvAccept
<1>3. CASE Enqueue
  BY <1>3, CountInvEnqueue
<1>4. CASE Take
  BY <1>4, CountInvTake
<1>5. ASSUME NEW t \in Adjuster, AdjustStep(t) PROVE CountInv'
  BY <1>5, CountInvAdjust
<1>6. ASSUME NEW c \in Connection, SessionEnds(c) PROVE CountInv'
  BY <1>6, CountInvSessionEnds
<1>7. ASSUME NEW c \in Connection, SessionThrows(c) PROVE CountInv'
  BY <1>7, CountInvSessionThrows
<1> QED  BY <1>1, <1>2, <1>3, <1>4, <1>5, <1>6, <1>7 DEF Next

(* The variables keep their types: the counter of connections and the answers
   of the pool stay within the number of connections. *)
THEOREM TypeCorrect == Spec => []TypeOK
<1>1. CountInv => TypeOK
  BY DEF CountInv
<1> QED  BY <1>1, CountInvInit, CountInvNext, PTL DEF Spec

-----------------------------------------------------------------------------
(* The length of the queue.  Only the main thread makes it longer, so what it
   was told is an upper bound until it has enqueued; the pool never gets
   smaller, so what it was told is a lower bound. *)

MainAnswers ==
  /\ size >= 1
  /\ WaitingBounded
  /\ apc[Main] = "size" => Len(queue) <= queueSize[Main] /\ queueSize[Main] <= size + 1
  /\ apc[Main] = "resize" =>
       /\ Len(queue) <= queueSize[Main] /\ queueSize[Main] <= currentSize[Main] + 1
       /\ 1 <= currentSize[Main] /\ currentSize[Main] <= size
  /\ apc[Main] = "enqueue" => Len(queue) <= size

(* The new size has room for the queue the main thread was told of. *)
LEMMA RoomForQueue ==
  ASSUME NEW q \in Nat, NEW s \in Nat, 1 <= s, q <= s + 1, NewSize(q, s) >= s
  PROVE  q <= NewSize(q, s)
<1>1. CASE q > s
  <2>1. NewSize(q, s) = Smaller(s * 2, q + s)
    BY <1>1 DEF NewSize
  <2>2. q <= s * 2 /\ q <= q + s
    OBVIOUS
  <2> QED  BY <2>1, <2>2 DEF Smaller
<1>2. CASE q <= s
  BY <1>2, NewSizeType
<1> QED  BY <1>1, <1>2

LEMMA MainAnswersInit == Init => MainAnswers
  BY ConnectionFacts DEF Init, MainAnswers, WaitingBounded

LEMMA MainAnswersAdjust ==
  ASSUME TypeOK, MainAnswers, NEW t \in Adjuster, AdjustStep(t)
  PROVE  MainAnswers'
<1>1. queue' = queue /\ Len(queue) \in Nat /\ size \in Nat /\ Main \in Adjuster
  BY ConnectionFacts
     DEF TypeOK, AdjustStep, GetQueueSize, GetSize, Resize, ResizeHangs, Adjusted
<1>2. size' >= size /\ size' \in Nat
  <2>1. queueSize[t] \in Nat /\ currentSize[t] \in Nat
    BY ConnectionFacts DEF TypeOK
  <2>2. NewSize(queueSize[t], currentSize[t]) \in Nat
    BY <2>1, NewSizeType
  <2> QED
    BY <1>1, <2>2 DEF AdjustStep, GetQueueSize, GetSize, Resize, ResizeHangs
<1>3. CASE t # Main
  <2>1. /\ apc'[Main] = apc[Main] /\ queueSize'[Main] = queueSize[Main]
        /\ currentSize'[Main] = currentSize[Main]
    BY <1>1, <1>3
       DEF TypeOK, AdjustStep, GetQueueSize, GetSize, Resize, ResizeHangs, Adjusted, localVars
  <2>2. queueSize[Main] \in Nat /\ currentSize[Main] \in Nat
    BY <1>1, ConnectionFacts DEF TypeOK
  <2> QED  BY <1>1, <1>2, <2>1, <2>2 DEF MainAnswers, WaitingBounded
<1>4. CASE t = Main /\ GetQueueSize(t)
  BY <1>1, <1>4 DEF GetQueueSize, MainAnswers, WaitingBounded, TypeOK
<1>5. CASE t = Main /\ GetSize(t)
  BY <1>1, <1>5 DEF GetSize, MainAnswers, WaitingBounded, TypeOK
<1>6. CASE t = Main /\ Resize(t)
  <2> DEFINE q == queueSize[Main]
             s == currentSize[Main]
  <2>1. q \in Nat /\ s \in Nat
    BY <1>1, ConnectionFacts DEF TypeOK
  <2>2. Len(queue) <= q /\ q <= s + 1 /\ 1 <= s /\ s <= size
    BY <1>6 DEF Resize, MainAnswers
  <2>3. size' = NewSize(q, s) /\ NewSize(q, s) >= size
    BY <1>6 DEF Resize
  <2> HIDE DEF q, s
  <2>4. q <= NewSize(q, s)
    BY <1>1, <1>2, <2>1, <2>2, <2>3, RoomForQueue
  <2>5. Len(queue) <= size' /\ size' >= 1
    BY <1>1, <1>2, <2>1, <2>2, <2>3, <2>4
  <2>6. apc'[Main] = "enqueue"
    BY <1>1, <1>6 DEF Resize, Adjusted, TypeOK
  <2> QED  BY <1>1, <1>2, <2>5, <2>6 DEF MainAnswers, WaitingBounded
<1>7. CASE t = Main /\ ResizeHangs(t)
  BY <1>1, <1>7 DEF ResizeHangs, MainAnswers, WaitingBounded, TypeOK, localVars, connVars
<1> QED  BY <1>3, <1>4, <1>5, <1>6, <1>7 DEF AdjustStep

LEMMA MainAnswersNext == CountInv /\ MainAnswers /\ [Next]_vars => MainAnswers'
<1> SUFFICES ASSUME CountInv, MainAnswers, [Next]_vars PROVE MainAnswers'
  OBVIOUS
<1>0. TypeOK /\ Len(queue) \in Nat /\ size \in Nat
  BY DEF CountInv, TypeOK
<1>1. CASE UNCHANGED vars
  BY <1>1 DEF vars, MainAnswers, WaitingBounded
<1>2. CASE Accept
  BY <1>0, <1>2, ConnectionFacts DEF Accept, MainAnswers, WaitingBounded, TypeOK, localVars
<1>3. CASE Enqueue
  <2>1. Len(queue') = Len(queue) + 1 /\ size' = size /\ apc'[Main] = "idle"
    BY <1>0, <1>3, ConnectionFacts DEF Enqueue, CountInv, MainHolds, TypeOK
  <2>2. apc[Main] = "enqueue"
    BY <1>3 DEF Enqueue
  <2> QED  BY <1>0, <2>1, <2>2 DEF MainAnswers, WaitingBounded
<1>4. CASE Take
  <2>1. Len(queue') = Len(queue) - 1 /\ size' = size /\ apc' = apc
    BY <1>0, <1>4 DEF Take, TypeOK
  <2>2. queueSize' = queueSize /\ currentSize' = currentSize
    BY <1>4 DEF Take, localVars
  <2>3. queueSize[Main] \in Nat /\ currentSize[Main] \in Nat
    BY <1>0, ConnectionFacts DEF TypeOK
  <2> QED  BY <1>0, <2>1, <2>2, <2>3 DEF MainAnswers, WaitingBounded
<1>5. ASSUME NEW t \in Adjuster, AdjustStep(t) PROVE MainAnswers'
  BY <1>0, <1>5, MainAnswersAdjust
<1>6. ASSUME NEW c \in Connection, SessionEnds(c) PROVE MainAnswers'
  <2>1. apc'[Main] = apc[Main]
    BY <1>0, <1>6, ConnectionFacts DEF SessionEnds, TypeOK
  <2> QED  BY <1>6, <2>1 DEF SessionEnds, MainAnswers, WaitingBounded, localVars
<1>7. ASSUME NEW c \in Connection, SessionThrows(c) PROVE MainAnswers'
  BY <1>7 DEF SessionThrows, MainAnswers, WaitingBounded, localVars
<1> QED  BY <1>1, <1>2, <1>3, <1>4, <1>5, <1>6, <1>7 DEF Next

(* The queue of connections that wait for a worker is never longer than the
   pool is large by more than one, however many connections come and whichever
   thread adjusts the pool in between. *)
THEOREM QueueBounded == Spec => []WaitingBounded
<1>1. Init => CountInv /\ MainAnswers
  BY CountInvInit, MainAnswersInit
<1>2. CountInv /\ MainAnswers /\ [Next]_vars => (CountInv /\ MainAnswers)'
  BY CountInvNext, MainAnswersNext
<1>3. MainAnswers => WaitingBounded
  BY DEF MainAnswers
<1> QED  BY <1>1, <1>2, <1>3, PTL DEF Spec

-----------------------------------------------------------------------------
(* A load the pool was built for.  While there were never more connections
   than InitialThreads, no thread was told of a longer queue or of another
   size, and no answer leads to a resize. *)

SmallLoad ==
  ~overloaded =>
    /\ activeConnections <= InitialThreads
    /\ size = InitialThreads
    /\ \A t \in Adjuster :
         /\ apc[t] # "hung"
         /\ apc[t] \in {"size", "resize"} => queueSize[t] <= InitialThreads
         /\ apc[t] = "resize" => currentSize[t] = InitialThreads

LEMMA SizeKept ==
  ASSUME NEW q \in Nat, NEW s \in Nat, q <= s, s = InitialThreads
  PROVE  NewSize(q, s) = s
<1>1. s \div 2 <= s /\ s \div 2 \in Nat
  OBVIOUS
<1> QED  BY <1>1 DEF NewSize, Smaller, Larger

LEMMA SmallLoadInit == Init => SmallLoad
  BY ConnectionFacts DEF Init, SmallLoad

LEMMA SmallLoadNext == CountInv /\ SmallLoad /\ [Next]_vars => SmallLoad'
<1> SUFFICES ASSUME CountInv, SmallLoad, [Next]_vars, ~overloaded' PROVE SmallLoad'
  BY DEF SmallLoad
<1>0. TypeOK /\ Len(queue) \in Nat /\ Len(queue) <= activeConnections
  BY HeldFinite DEF CountInv, CountsHeld, TypeOK
<1>1. ~overloaded
  BY <1>0
     DEF Next, vars, Accept, Enqueue, Take, AdjustStep, GetQueueSize, GetSize, Resize,
         ResizeHangs, SessionEnds, SessionThrows, connVars, TypeOK
<1>2. /\ activeConnections <= InitialThreads /\ size = InitialThreads
      /\ \A t \in Adjuster :
           /\ apc[t] # "hung"
           /\ apc[t] \in {"size", "resize"} => queueSize[t] <= InitialThreads
           /\ apc[t] = "resize" => currentSize[t] = InitialThreads
  BY <1>1 DEF SmallLoad
<1>3. CASE UNCHANGED vars
  BY <1>2, <1>3 DEF vars, SmallLoad
<1>4. CASE Accept
  <2>1. activeConnections + 1 <= InitialThreads
    <3>1. ~(activeConnections + 1 > InitialThreads)
      BY <1>4, Zenon DEF Accept
    <3> QED  BY <1>0, <3>1, ConnectionFacts DEF TypeOK
  <2>2. activeConnections' <= InitialThreads /\ size' = size
    BY <1>4, <2>1 DEF Accept
  <2>3. /\ queueSize' = queueSize /\ currentSize' = currentSize
        /\ \A u \in Adjuster : apc'[u] \in {apc[u], "queuesize"}
    BY <1>0, <1>4 DEF Accept, TypeOK, localVars
  <2> QED  BY <1>2, <2>2, <2>3 DEF SmallLoad
<1>5. CASE Enqueue
  BY <1>0, <1>2, <1>5 DEF Enqueue, SmallLoad, TypeOK, localVars
<1>6. CASE Take
  BY <1>2, <1>6 DEF Take, SmallLoad, localVars
<1>7. ASSUME NEW t \in Adjuster, GetQueueSize(t) PROVE SmallLoad'
  <2>1. Len(queue) <= InitialThreads
    BY <1>0, <1>2, ConnectionFacts DEF TypeOK
  <2> QED  BY <1>0, <1>2, <1>7, <2>1 DEF GetQueueSize, SmallLoad, TypeOK, connVars
<1>8. ASSUME NEW t \in Adjuster, GetSize(t) PROVE SmallLoad'
  BY <1>0, <1>2, <1>8 DEF GetSize, SmallLoad, TypeOK, connVars
<1>9. ASSUME NEW t \in Adjuster, apc[t] = "resize"
      PROVE  NewSize(queueSize[t], currentSize[t]) = size
  <2>1. /\ queueSize[t] \in Nat /\ queueSize[t] <= InitialThreads
        /\ currentSize[t] = InitialThreads
    BY <1>0, <1>2, <1>9, ConnectionFacts DEF TypeOK
  <2> QED  BY <1>2, <2>1, SizeKept, ConnectionFacts
<1>10. ASSUME NEW t \in Adjuster, Resize(t) PROVE SmallLoad'
  <2>1. size' = InitialThreads
    BY <1>2, <1>9, <1>10 DEF Resize
  <2>2. \A u \in Adjuster : apc'[u] = (IF u = t THEN IF t = Main THEN "enqueue" ELSE "idle" ELSE apc[u])
    BY <1>0, <1>10 DEF Resize, Adjusted, TypeOK
  <2>3. \A u \in Adjuster : u # t => queueSize'[u] = queueSize[u] /\ currentSize'[u] = currentSize[u]
    BY <1>0, <1>10 DEF Resize, Adjusted, TypeOK
  <2>4. activeConnections' = activeConnections
    BY <1>10 DEF Resize
  <2> QED  BY <1>2, <2>1, <2>2, <2>3, <2>4 DEF SmallLoad
<1>11. ASSUME NEW t \in Adjuster, ResizeHangs(t) PROVE SmallLoad'
  <2>1. NewSize(queueSize[t], currentSize[t]) < size /\ apc[t] = "resize"
    BY <1>11 DEF ResizeHangs
  <2> QED  BY <1>2, <1>9, <2>1, ConnectionFacts
<1>12. ASSUME NEW c \in Connection, SessionEnds(c) PROVE SmallLoad'
  <2>1. activeConnections' <= InitialThreads
    BY <1>0, <1>2, <1>12, ConnectionFacts DEF SessionEnds, CountsOut, TypeOK
  <2> QED  BY <1>0, <1>2, <1>12, <2>1 DEF SessionEnds, SmallLoad, TypeOK, localVars
<1>13. ASSUME NEW c \in Connection, SessionThrows(c) PROVE SmallLoad'
  BY <1>2, <1>13 DEF SessionThrows, SmallLoad, localVars
<1> QED
  BY <1>3, <1>4, <1>5, <1>6, <1>7, <1>8, <1>10, <1>11, <1>12, <1>13 DEF Next, AdjustStep

(* While there were never more connections at a time than the pool was built
   for, it keeps its size, and no thread comes to the shrink that hangs. *)
THEOREM SmallLoadIsSafe == Spec => []SmallLoadNeverHangs
<1>1. Init => CountInv /\ SmallLoad
  BY CountInvInit, SmallLoadInit
<1>2. CountInv /\ SmallLoad /\ [Next]_vars => (CountInv /\ SmallLoad)'
  BY CountInvNext, SmallLoadNext
<1>3. SmallLoad => SmallLoadNeverHangs
  BY DEF SmallLoad, SmallLoadNeverHangs, Hung
<1> QED  BY <1>1, <1>2, <1>3, PTL DEF Spec
=============================================================================
