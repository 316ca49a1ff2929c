------------------------- MODULE EpollServerProofs -------------------------
(* Theorems about EpollServer for any number of clients. *)
EXTENDS EpollServer, FiniteSetTheorems, TLAPS

-----------------------------------------------------------------------------
(* The inductive invariant.  The accept queue holds each client that waits in
   it, once; a pool that is shut down has no main thread left to fill it. *)

BacklogWaits == \A i \in 1..Len(backlog) : at[backlog[i]] = "backlog"
BacklogOnce == \A i, j \in 1..Len(backlog) : backlog[i] = backlog[j] => i = j
PoolOutlivesMain == spc \in {"draining", "stopped"} => mpc \in {"new", "unbound", "deaf", "exited"}
Counted == {c \in Client : at[c] \in Sending \cup Listening \cup {"ended"}}
ServerInv ==
  /\ TypeOK /\ BacklogWaits /\ BacklogOnce /\ PoolOutlivesMain
  /\ ActiveCounts /\ NeverTerminated /\ LostOnlyToOthers

LEMMA ServerInvInit == Init => ServerInv
<1> SUFFICES ASSUME Init PROVE ServerInv
  OBVIOUS
<1>1. Counted = {}
  BY DEF Init, Counted, Sending, Listening
<1>2. ActiveCounts
  BY <1>1, FS_EmptySet DEF Init, ActiveCounts, Counted
<1>3. Cardinality(Client) \in Nat
  BY EpollServerAssumption, FS_CardinalityType
<1>4. mpc \in MainState /\ at \in [Client -> Progress]
  BY DEF Init, MainState, Progress
<1>5. TypeOK
  <2>1. backlog \in Seq(Client) /\ Len(backlog) = 0 /\ inbox \in [Client -> Seq(Message)]
    BY DEF Init
  <2>2. /\ Len(backlog) <= Backlog /\ activeConnections \in 0..Cardinality(Client)
        /\ faults \in 0..MaxFaults
    BY <1>3, <2>1, EpollServerAssumption DEF Init
  <2> QED  BY <1>4, <2>1, <2>2 DEF Init, TypeOK
<1>6. BacklogWaits /\ BacklogOnce
  BY DEF Init, BacklogWaits, BacklogOnce
<1>7. PoolOutlivesMain /\ NeverTerminated /\ LostOnlyToOthers
  BY DEF Init, PoolOutlivesMain, NeverTerminated, LostOnlyToOthers
<1> QED  BY <1>2, <1>5, <1>6, <1>7 DEF ServerInv

-----------------------------------------------------------------------------
(* What the epoll operations preserve. *)

LEMMA CountedFinite ==
  /\ IsFiniteSet(Counted) /\ Cardinality(Counted) \in Nat
  /\ Cardinality(Client) \in Nat /\ Cardinality(Counted) <= Cardinality(Client)
  BY EpollServerAssumption, FS_Subset, FS_CardinalityType DEF Counted

(* A step that changes the progress of one client, within the counted states
   or outside them, keeps the count. *)
LEMMA SameCount ==
  ASSUME TypeOK, ActiveCounts, activeConnections' = activeConnections,
         \A c \in Client : c \in Counted' <=> c \in Counted
  PROVE  ActiveCounts'
<1>1. Counted' = Counted
  BY DEF Counted
<1> QED  BY <1>1 DEF ActiveCounts, Counted

LEMMA HarvestTypes ==
  ASSUME TypeOK, NEW E \in SUBSET (Client \cup {Listener}), NEW mine, Harvest(E, mine)
  PROVE  ready' \subseteq Client \cup {Listener} /\ taken' \subseteq Client
  BY DEF TypeOK, Harvest, LevelTriggered

LEMMA ReportedEvents == TypeOK => Reported \subseteq Client \cup {Listener}
  BY DEF TypeOK, Reported

(* What a thread takes off the ready list it either handles or, for a client
   that waits for input, leaves on record. *)
LEMMA HarvestKeeps ==
  ASSUME TypeOK, NEW E \in SUBSET (Client \cup {Listener}), NEW mine, Harvest(E, mine),
         NEW c \in Client, c \notin mine, at[c] \in Listening, c \in ready \cup taken
  PROVE  c \in ready' \cup taken'
  BY DEF Harvest

-----------------------------------------------------------------------------
(* One lemma per kind of step. *)

(* Steps that leave every connection alone. *)
Quiet ==
  \/ Starting \/ MainTest \/ AcceptEnds \/ Stopping
  \/ \E c \in Client : Sigpipe(c)

LEMMA QuietStep == ASSUME ServerInv, Quiet PROVE ServerInv'
<1>0. /\ TypeOK /\ BacklogWaits /\ BacklogOnce /\ PoolOutlivesMain
      /\ ActiveCounts /\ NeverTerminated /\ LostOnlyToOthers
  BY DEF ServerInv
<1>1. /\ backlog' = backlog /\ inbox' = inbox /\ hungup' = hungup /\ at' = at
      /\ ready' = ready /\ taken' = taken /\ activeConnections' = activeConnections
  BY DEF Quiet, Starting, StartServer, ListenFails, InitializeFails, StartFails, MainTest,
         AcceptEnds, Stopping, Stop, StopJoins, StopReturns, Destroy, Sigpipe, netVars
<1>2. BacklogWaits' /\ BacklogOnce' /\ ActiveCounts' /\ LostOnlyToOthers'
  BY <1>0, <1>1 DEF BacklogWaits, BacklogOnce, ActiveCounts, LostOnlyToOthers, Readable
<1>3. /\ running' \in BOOLEAN /\ process' \in {"up", "killed", "terminated", "aborted"}
      /\ mpc' \in MainState /\ spc' \in {"idle", "joining", "draining", "stopped"}
  BY <1>0
     DEF TypeOK, MainState, Quiet, Starting, StartServer, ListenFails, InitializeFails,
         StartFails, MainTest, AcceptEnds, Stopping, Stop, StopJoins, StopReturns, Destroy,
         Sigpipe
<1>4. faults' \in 0..MaxFaults
  <2>1. CASE Fault
    BY <1>0, <2>1, EpollServerAssumption DEF TypeOK, Fault
  <2>2. CASE faults' = faults
    BY <1>0, <2>2 DEF TypeOK
  <2>3. Fault \/ faults' = faults
    BY DEF Quiet, Starting, StartServer, ListenFails, InitializeFails, StartFails, MainTest,
           AcceptEnds, Stopping, Stop, StopJoins, StopReturns, Destroy, Sigpipe
  <2> QED  BY <2>1, <2>2, <2>3
<1>5. TypeOK'
  BY <1>0, <1>1, <1>3, <1>4 DEF TypeOK
<1>6. PoolOutlivesMain' /\ NeverTerminated'
  BY <1>0
     DEF PoolOutlivesMain, NeverTerminated, Quiet, Starting, StartServer, ListenFails,
         InitializeFails, StartFails, MayStart, MainTest, AcceptEnds, Stopping, Stop, StopJoins,
         MainJoined, StopReturns, Destroy, Sigpipe
<1> QED  BY <1>2, <1>5, <1>6 DEF ServerInv

(* A thread that is not the handler of what it takes. *)
LEMMA WaitStep ==
  ASSUME ServerInv, MainWait \/ \E c \in Client : WaitOther(c)
  PROVE  ServerInv'
<1>0. /\ TypeOK /\ BacklogWaits /\ BacklogOnce /\ PoolOutlivesMain
      /\ ActiveCounts /\ NeverTerminated /\ LostOnlyToOthers
  BY DEF ServerInv
<1>1. /\ backlog' = backlog /\ inbox' = inbox /\ hungup' = hungup /\ at' = at
      /\ activeConnections' = activeConnections /\ running' = running /\ process' = process
      /\ spc' = spc /\ faults' = faults
  BY DEF MainWait, WaitOther, netVars
<1>2. PICK E \in SUBSET (Client \cup {Listener}), mine \in SUBSET Client : Harvest(E, mine) /\ mine \cap E = {}
  <2>1. CASE MainWait
    <3>1. {} \in SUBSET Client /\ {} \cap Reported = {}
      OBVIOUS
    <3> QED  BY <1>0, <2>1, <3>1, ReportedEvents DEF MainWait
  <2>2. ASSUME NEW c \in Client, WaitOther(c)
        PROVE  \E E \in SUBSET (Client \cup {Listener}), mine \in SUBSET Client :
                 Harvest(E, mine) /\ mine \cap E = {}
    <3>1. PICK e \in Reported \ {c} : Harvest({e}, {c})
      BY <2>2 DEF WaitOther
    <3>2. {e} \in SUBSET (Client \cup {Listener}) /\ {c} \in SUBSET Client /\ {c} \cap {e} = {}
      BY <1>0, <3>1, ReportedEvents
    <3> QED  BY <3>1, <3>2
  <2> QED  BY <2>1, <2>2
<1>3. ready' \subseteq Client \cup {Listener} /\ taken' \subseteq Client
  BY <1>0, <1>2, HarvestTypes
<1>4. mpc' \in MainState /\ (mpc \in {"new", "unbound", "deaf", "exited"} => mpc' = mpc)
  BY <1>0 DEF TypeOK, MainState, MainWait, WaitOther
<1>5. TypeOK'
  BY <1>0, <1>1, <1>3, <1>4 DEF TypeOK
<1>6. LostOnlyToOthers'
  <2>1. ASSUME NEW c \in Client, at[c] \in Listening, c \in ready \cup taken
        PROVE  c \in ready' \cup taken'
    BY <1>2, <2>1 DEF Harvest
  <2> QED  BY <1>0, <1>1, <2>1 DEF LostOnlyToOthers, Readable, Listening
<1>7. BacklogWaits' /\ BacklogOnce' /\ ActiveCounts' /\ PoolOutlivesMain' /\ NeverTerminated'
  BY <1>0, <1>1, <1>4
     DEF BacklogWaits, BacklogOnce, ActiveCounts, PoolOutlivesMain, NeverTerminated
<1> QED  BY <1>5, <1>6, <1>7 DEF ServerInv

(* A step of one handler within the counted states. *)
Busy == Sending \cup Listening \cup {"ended"}

LEMMA GoesStep ==
  ASSUME ServerInv, NEW c \in Client, NEW from \in Busy, NEW to \in Busy,
         Goes(c, from, to),
         ready' \subseteq Client \cup {Listener}, taken' \subseteq Client,
         inbox' \in [Client -> Seq(Message)], faults' \in 0..MaxFaults,
         \A d \in Client : d # c => /\ inbox'[d] = inbox[d]
                                    /\ d \in ready \cup taken => d \in ready' \cup taken',
         (to \in {"queued", "connect", "wait"} /\ Readable(c)') => c \in ready' \cup taken'
  PROVE  ServerInv'
<1>0. /\ TypeOK /\ BacklogWaits /\ BacklogOnce /\ PoolOutlivesMain
      /\ ActiveCounts /\ NeverTerminated /\ LostOnlyToOthers
  BY DEF ServerInv
<1>1. /\ at[c] = from /\ running' = running /\ process' = process /\ mpc' = mpc /\ spc' = spc
      /\ backlog' = backlog /\ hungup' = hungup /\ activeConnections' = activeConnections
  BY DEF Goes
<1>2. at' \in [Client -> Progress] /\ \A d \in Client : at'[d] = IF d = c THEN to ELSE at[d]
  BY <1>0 DEF Goes, TypeOK, Progress, Busy
<1>3. from # "backlog" /\ \A i \in 1..Len(backlog) : backlog[i] \in Client
  BY <1>0 DEF TypeOK, Busy, Sending, Listening
<1>4. BacklogWaits' /\ BacklogOnce'
  BY <1>0, <1>1, <1>2, <1>3 DEF BacklogWaits, BacklogOnce
<1>5. ActiveCounts'
  BY <1>0, <1>1, <1>2, SameCount DEF Counted, Busy
<1>6. TypeOK'
  BY <1>0, <1>1, <1>2 DEF TypeOK
<1>7. LostOnlyToOthers'
  BY <1>0, <1>1, <1>2 DEF LostOnlyToOthers, Readable
<1>8. PoolOutlivesMain' /\ NeverTerminated'
  BY <1>0, <1>1 DEF PoolOutlivesMain, NeverTerminated
<1> QED  BY <1>4, <1>5, <1>6, <1>7, <1>8 DEF ServerInv

LEMMA HandlerStep ==
  ASSUME ServerInv, NEW c \in Client,
         \/ Start(c) \/ GetConnection(c) \/ GetConnectionThrows(c) \/ WaitOwn(c) \/ Read(c)
         \/ ReadNothing(c) \/ ReadInactive(c) \/ Sent(c) \/ HeartbeatFails(c) \/ Close(c)
  PROVE  ServerInv'
<1>0. TypeOK /\ LostOnlyToOthers
  BY DEF ServerInv
<1>1. /\ ready \subseteq Client \cup {Listener} /\ taken \subseteq Client
      /\ inbox \in [Client -> Seq(Message)] /\ faults \in 0..MaxFaults
  BY <1>0 DEF TypeOK
<1>2. CASE Start(c)
  <2>1. "queued" \in Busy /\ "connect" \in Busy
    BY DEF Busy, Listening
  <2>2. Goes(c, "queued", "connect") /\ inbox' = inbox /\ ready' = ready /\ taken' = taken /\ faults' = faults
    BY <1>2 DEF Start
  <2>3. Readable(c)' => c \in ready' \cup taken'
    BY <1>0, <2>2 DEF LostOnlyToOthers, Readable, Goes
  <2> QED  BY <1>1, <2>1, <2>2, <2>3, GoesStep
<1>3. CASE GetConnection(c)
  <2>1. "wait" \in Busy /\ "connect" \in Busy
    BY DEF Busy, Listening
  <2>2. Goes(c, "connect", "wait") /\ inbox' = inbox /\ ready' = ready /\ taken' = taken /\ faults' = faults
    BY <1>3 DEF GetConnection
  <2>3. Readable(c)' => c \in ready' \cup taken'
    BY <1>0, <2>2 DEF LostOnlyToOthers, Readable, Goes
  <2> QED  BY <1>1, <2>1, <2>2, <2>3, GoesStep
<1>4. CASE GetConnectionThrows(c)
  <2>1. "connect" \in Busy /\ "abandoned" \in Busy
    BY DEF Busy, Listening
  <2>2. Goes(c, "connect", "abandoned") /\ inbox' = inbox /\ ready' = ready /\ taken' = taken
    BY <1>4 DEF GetConnectionThrows
  <2>3. faults' \in 0..MaxFaults
    BY <1>1, <1>4, EpollServerAssumption DEF GetConnectionThrows, Fault
  <2> QED  BY <1>1, <2>1, <2>2, <2>3, GoesStep
<1>5. CASE WaitOwn(c)
  <2>1. "wait" \in Busy /\ "read" \in Busy
    BY DEF Busy, Listening
  <2>2. Goes(c, "wait", "read") /\ inbox' = inbox /\ faults' = faults
    BY <1>5 DEF WaitOwn
  <2>3. /\ ready' \subseteq Client \cup {Listener} /\ taken' \subseteq Client
        /\ \A d \in Client : d # c /\ d \in ready \cup taken => d \in ready' \cup taken'
    BY <1>1, <1>5 DEF WaitOwn, Harvest, LevelTriggered
  <2> QED  BY <1>1, <2>1, <2>2, <2>3, GoesStep
<1>6. CASE Read(c)
  <2>1. "read" \in Busy /\ "bye" \in Busy /\ "reply" \in Busy
    BY DEF Busy, Listening, Sending
  <2>2. PICK to \in {"bye", "reply"} : Goes(c, "read", to)
    BY <1>6 DEF Read
  <2>3. inbox' \in [Client -> Seq(Message)] /\ \A d \in Client : d # c => inbox'[d] = inbox[d]
    BY <1>1, <1>6 DEF Read
  <2>4. ready' = ready \cup {c} /\ taken' = taken \ {c} /\ faults' = faults
    BY <1>6 DEF Read, ArmOut
  <2> QED  BY <1>1, <2>1, <2>2, <2>3, <2>4, GoesStep
<1>7. CASE ReadNothing(c)
  <2>1. "read" \in Busy /\ "heartbeat" \in Busy
    BY DEF Busy, Listening, Sending
  <2>2. /\ Goes(c, "read", "heartbeat") /\ ready' = ready \cup {c} /\ taken' = taken \ {c}
        /\ faults' = faults /\ inbox' = inbox
    BY <1>7 DEF ReadNothing, ArmOut
  <2> QED  BY <1>1, <2>1, <2>2, GoesStep
<1>8. CASE ReadInactive(c)
  <2>1. "read" \in Busy /\ "close" \in Busy
    BY DEF Busy, Listening
  <2>2. Goes(c, "read", "close") /\ inbox' = inbox /\ ready' = ready /\ taken' = taken /\ faults' = faults
    BY <1>8 DEF ReadInactive
  <2> QED  BY <1>1, <2>1, <2>2, GoesStep
<1>9. ASSUME NEW from \in Sending, NEW to \in {"wait", "close"}, Goes(c, from, to), ArmIn(c),
             inbox' = inbox, faults' = faults
      PROVE  ServerInv'
  <2>1. from \in Busy /\ to \in Busy
    BY DEF Busy, Listening
  <2>2. /\ ready' \subseteq Client \cup {Listener} /\ taken' \subseteq Client
        /\ \A d \in Client : d # c /\ d \in ready \cup taken => d \in ready' \cup taken'
    BY <1>1, <1>9 DEF ArmIn, Rearmed
  <2>3. Readable(c)' => c \in ready'
    BY <1>9 DEF ArmIn, Rearmed, Readable, Goes
  <2> QED  BY <1>1, <1>9, <2>1, <2>2, <2>3, GoesStep
<1>10. CASE Sent(c)
  BY <1>9, <1>10 DEF Sent, Sending
<1>11. CASE HeartbeatFails(c)
  BY <1>9, <1>11 DEF HeartbeatFails, Sending
<1>12. CASE Close(c)
  <2>1. "close" \in Busy /\ "ended" \in Busy
    BY DEF Busy, Listening
  <2>2. /\ Goes(c, "close", "ended") /\ inbox' = inbox /\ ready' = ready \ {c}
        /\ taken' = taken \ {c} /\ faults' = faults
    BY <1>12 DEF Close
  <2> QED  BY <1>1, <2>1, <2>2, GoesStep
<1> QED
  BY <1>2, <1>3, <1>4, <1>5, <1>6, <1>7, <1>8, <1>10, <1>11, <1>12

(* The head of the accept queue leaves it. *)
LEMMA BacklogHead ==
  ASSUME ServerInv, backlog # <<>>, NEW to \in Progress,
         backlog' = Tail(backlog), at' = [at EXCEPT ![Head(backlog)] = to]
  PROVE  /\ Head(backlog) \in Client /\ at[Head(backlog)] = "backlog"
         /\ backlog' \in Seq(Client) /\ Len(backlog') <= Backlog
         /\ BacklogWaits' /\ BacklogOnce' /\ at' \in [Client -> Progress]
         /\ \A d \in Client : at'[d] = IF d = Head(backlog) THEN to ELSE at[d]
<1>0. TypeOK /\ BacklogWaits /\ BacklogOnce
  BY DEF ServerInv
<1>1. /\ backlog \in Seq(Client) /\ Len(backlog) \in Nat \ {0} /\ Head(backlog) = backlog[1]
      /\ Head(backlog) \in Client /\ backlog' \in Seq(Client)
      /\ Len(backlog') = Len(backlog) - 1
      /\ \A i \in 1..Len(backlog') : /\ backlog'[i] = backlog[i + 1]
                                     /\ i + 1 \in 1..Len(backlog) /\ i + 1 # 1
                                     /\ backlog[i + 1] \in Client
  BY <1>0 DEF TypeOK
<1>2. 1 \in 1..Len(backlog)
  BY <1>1
<1>3. at[Head(backlog)] = "backlog"
  BY <1>0, <1>1, <1>2 DEF BacklogWaits
<1>4. at' \in [Client -> Progress] /\ \A d \in Client : at'[d] = IF d = Head(backlog) THEN to ELSE at[d]
  BY <1>0, <1>1 DEF TypeOK
<1>5. \A i \in 1..Len(backlog') : backlog'[i] # Head(backlog)
  BY <1>0, <1>1, <1>2 DEF BacklogOnce
<1>6. BacklogWaits'
  BY <1>0, <1>1, <1>4, <1>5 DEF BacklogWaits
<1>7. BacklogOnce'
  <2> SUFFICES ASSUME NEW i \in 1..Len(backlog'), NEW j \in 1..Len(backlog'),
                      backlog'[i] = backlog'[j]
               PROVE  i = j
    BY DEF BacklogOnce
  <2>1. i + 1 = j + 1
    BY <1>0, <1>1 DEF BacklogOnce
  <2> QED  BY <1>1, <2>1
<1>8. Len(backlog') <= Backlog
  BY <1>0, <1>1, EpollServerAssumption DEF TypeOK
<1> QED  BY <1>1, <1>3, <1>4, <1>6, <1>7, <1>8

LEMMA AcceptStep == ASSUME ServerInv, Accept PROVE ServerInv'
<1> DEFINE c == Head(backlog)
<1>0. /\ TypeOK /\ PoolOutlivesMain /\ ActiveCounts /\ NeverTerminated /\ LostOnlyToOthers
  BY DEF ServerInv
<1>1. /\ mpc = "accept" /\ mpc' = mpc /\ spc' = spc /\ backlog # <<>> /\ backlog' = Tail(backlog)
      /\ at' = [at EXCEPT ![c] = "queued"] /\ ready' = Rearmed(c) /\ taken' = taken \ {c}
      /\ activeConnections' = activeConnections + 1 /\ running' = running /\ inbox' = inbox
      /\ hungup' = hungup /\ faults' = faults
  BY DEF Accept, ArmIn
<1>2. "queued" \in Progress
  BY DEF Progress, Listening
<1>3. /\ c \in Client /\ at[c] = "backlog" /\ backlog' \in Seq(Client) /\ Len(backlog') <= Backlog
      /\ BacklogWaits' /\ BacklogOnce' /\ at' \in [Client -> Progress]
      /\ \A d \in Client : at'[d] = IF d = c THEN "queued" ELSE at[d]
  BY <1>1, <1>2, BacklogHead
<1>4. spc \notin {"draining", "stopped"} /\ process' = process
  BY <1>0, <1>1 DEF PoolOutlivesMain, Accept
<1> HIDE DEF c
<1>5. Counted' = Counted \cup {c} /\ c \notin Counted
  BY <1>3 DEF Counted, Sending, Listening
<1>6. Cardinality(Counted') = Cardinality(Counted) + 1 /\ Cardinality(Counted') <= Cardinality(Client)
  <2>1. IsFiniteSet(Client) /\ Counted' \subseteq Client
    BY EpollServerAssumption DEF Counted
  <2> QED  BY <1>5, <2>1, CountedFinite, FS_AddElement, FS_Subset
<1>7. ActiveCounts' /\ activeConnections' \in 0..Cardinality(Client)
  BY <1>0, <1>1, <1>6, CountedFinite DEF ActiveCounts, Counted
<1>8. ready' \subseteq Client \cup {Listener} /\ taken' \subseteq Client
  BY <1>0, <1>1, <1>3 DEF TypeOK, Rearmed
<1>9. TypeOK'
  BY <1>0, <1>1, <1>3, <1>4, <1>7, <1>8 DEF TypeOK
<1>10. LostOnlyToOthers'
  BY <1>0, <1>1, <1>3 DEF LostOnlyToOthers, Readable, Rearmed
<1>11. PoolOutlivesMain' /\ NeverTerminated'
  BY <1>0, <1>1, <1>4 DEF PoolOutlivesMain, NeverTerminated
<1> QED  BY <1>3, <1>7, <1>9, <1>10, <1>11 DEF ServerInv

LEMMA AcceptUnwatchedStep == ASSUME ServerInv, AcceptUnwatched PROVE ServerInv'
<1> DEFINE c == Head(backlog)
<1>0. /\ TypeOK /\ PoolOutlivesMain /\ ActiveCounts /\ NeverTerminated /\ LostOnlyToOthers
  BY DEF ServerInv
<1>1. /\ mpc' = mpc /\ spc' = spc /\ backlog # <<>> /\ backlog' = Tail(backlog)
      /\ at' = [at EXCEPT ![c] = "done"] /\ ready' = ready /\ taken' = taken
      /\ activeConnections' = activeConnections /\ running' = running /\ inbox' = inbox
      /\ hungup' = hungup /\ process' = process /\ faults' \in 0..MaxFaults
  BY <1>0, EpollServerAssumption DEF AcceptUnwatched, Fault, TypeOK
<1>2. "done" \in Progress
  BY DEF Progress
<1>3. /\ c \in Client /\ at[c] = "backlog" /\ backlog' \in Seq(Client) /\ Len(backlog') <= Backlog
      /\ BacklogWaits' /\ BacklogOnce' /\ at' \in [Client -> Progress]
      /\ \A d \in Client : at'[d] = IF d = c THEN "done" ELSE at[d]
  BY <1>1, <1>2, BacklogHead
<1> HIDE DEF c
<1>4. ActiveCounts'
  BY <1>0, <1>1, <1>3, SameCount DEF Counted, Sending, Listening
<1>5. TypeOK'
  BY <1>0, <1>1, <1>3 DEF TypeOK
<1>6. LostOnlyToOthers'
  BY <1>0, <1>1, <1>3 DEF LostOnlyToOthers, Readable
<1>7. PoolOutlivesMain' /\ NeverTerminated'
  BY <1>0, <1>1 DEF PoolOutlivesMain, NeverTerminated
<1> QED  BY <1>3, <1>4, <1>5, <1>6, <1>7 DEF ServerInv

LEMMA FinishStep == ASSUME ServerInv, NEW c \in Client, Finish(c) PROVE ServerInv'
<1>0. /\ TypeOK /\ BacklogWaits /\ BacklogOnce /\ PoolOutlivesMain
      /\ ActiveCounts /\ NeverTerminated /\ LostOnlyToOthers
  BY DEF ServerInv
<1>1. /\ at[c] = "ended" /\ at' = [at EXCEPT ![c] = "done"]
      /\ activeConnections' = activeConnections - 1 /\ running' = running /\ process' = process
      /\ mpc' = mpc /\ spc' = spc /\ backlog' = backlog /\ inbox' = inbox /\ hungup' = hungup
      /\ ready' = ready /\ taken' = taken /\ faults' = faults
  BY DEF Finish, netVars, CountsOut
<1>2. at' \in [Client -> Progress] /\ \A d \in Client : at'[d] = IF d = c THEN "done" ELSE at[d]
  BY <1>0, <1>1 DEF TypeOK, Progress
<1>3. Counted' = Counted \ {c} /\ c \in Counted
  BY <1>1, <1>2 DEF Counted, Sending, Listening
<1>4. Cardinality(Counted') = Cardinality(Counted) - 1 /\ Cardinality(Counted) > 0
  BY <1>3, CountedFinite, FS_RemoveElement, FS_EmptySet
<1>5. ActiveCounts' /\ activeConnections' \in 0..Cardinality(Client)
  BY <1>0, <1>1, <1>4, CountedFinite DEF ActiveCounts, Counted
<1>6. TypeOK'
  BY <1>0, <1>1, <1>2, <1>5 DEF TypeOK
<1>7. \A i \in 1..Len(backlog) : backlog[i] \in Client /\ backlog[i] # c
  BY <1>0, <1>1 DEF TypeOK, BacklogWaits
<1>8. BacklogWaits' /\ BacklogOnce'
  BY <1>0, <1>1, <1>2, <1>7 DEF BacklogWaits, BacklogOnce
<1>9. LostOnlyToOthers'
  BY <1>0, <1>1, <1>2 DEF LostOnlyToOthers, Readable
<1>10. PoolOutlivesMain' /\ NeverTerminated'
  BY <1>0, <1>1 DEF PoolOutlivesMain, NeverTerminated
<1> QED  BY <1>5, <1>6, <1>8, <1>9, <1>10 DEF ServerInv

(* Input arrives: it is an edge, unless the descriptor waits for EPOLLOUT. *)
LEMMA InputStep ==
  ASSUME ServerInv, NEW c \in Client, HangUp(c) \/ \E m \in Message : Send(c, m)
  PROVE  ServerInv'
<1>0. /\ TypeOK /\ BacklogWaits /\ BacklogOnce /\ PoolOutlivesMain
      /\ ActiveCounts /\ NeverTerminated /\ LostOnlyToOthers
  BY DEF ServerInv
<1>1. /\ at' = at /\ activeConnections' = activeConnections /\ running' = running
      /\ process' = process /\ mpc' = mpc /\ spc' = spc /\ backlog' = backlog
      /\ faults' = faults /\ Edge(c)
  BY DEF HangUp, Send
<1>2. /\ inbox' \in [Client -> Seq(Message)] /\ hungup' \subseteq Client
      /\ \A d \in Client : d # c => (Readable(d)' <=> Readable(d))
  <2>1. CASE HangUp(c)
    BY <1>0, <2>1 DEF TypeOK, HangUp, Readable
  <2>2. ASSUME NEW m \in Message, Send(c, m)
        PROVE  /\ inbox' \in [Client -> Seq(Message)] /\ hungup' = hungup
               /\ \A d \in Client : d # c => inbox'[d] = inbox[d]
    <3>1. inbox[c] \in Seq(Message)
      BY <1>0 DEF TypeOK
    <3>2. Append(inbox[c], m) \in Seq(Message)
      BY <3>1
    <3> QED  BY <1>0, <2>2, <3>2 DEF TypeOK, Send
  <2> QED  BY <1>0, <2>1, <2>2 DEF TypeOK, Readable
<1>3. ready' \subseteq Client \cup {Listener} /\ taken' \subseteq Client
  BY <1>0, <1>1 DEF TypeOK, Edge
<1>4. TypeOK'
  BY <1>0, <1>1, <1>2, <1>3 DEF TypeOK
<1>5. LostOnlyToOthers'
  <2>1. at[c] \in Listening => c \in ready'
    BY <1>1 DEF Edge
  <2>2. \A d \in Client : d # c /\ d \in ready \cup taken => d \in ready' \cup taken'
    BY <1>1 DEF Edge
  <2> QED  BY <1>0, <1>1, <1>2, <2>1, <2>2 DEF LostOnlyToOthers, Listening
<1>6. BacklogWaits' /\ BacklogOnce' /\ ActiveCounts' /\ PoolOutlivesMain' /\ NeverTerminated'
  BY <1>0, <1>1 DEF BacklogWaits, BacklogOnce, ActiveCounts, PoolOutlivesMain, NeverTerminated
<1> QED  BY <1>4, <1>5, <1>6 DEF ServerInv

LEMMA ConnectStep == ASSUME ServerInv, NEW c \in Client, Connect(c) PROVE ServerInv'
<1>0. /\ TypeOK /\ BacklogWaits /\ BacklogOnce /\ PoolOutlivesMain
      /\ ActiveCounts /\ NeverTerminated /\ LostOnlyToOthers
  BY DEF ServerInv
<1>1. /\ at[c] = "absent" /\ at' = [at EXCEPT ![c] = "backlog"] /\ backlog' = Append(backlog, c)
      /\ ready' = ready \cup {Listener} /\ activeConnections' = activeConnections
      /\ running' = running /\ process' = process /\ mpc' = mpc /\ spc' = spc
      /\ inbox' = inbox /\ hungup' = hungup /\ taken' = taken /\ faults' = faults
      /\ Len(backlog) < Backlog
  BY DEF Connect
<1>2. at' \in [Client -> Progress] /\ \A d \in Client : at'[d] = IF d = c THEN "backlog" ELSE at[d]
  BY <1>0, <1>1 DEF TypeOK, Progress
<1>3. /\ backlog' \in Seq(Client) /\ Len(backlog) \in Nat /\ Len(backlog') = Len(backlog) + 1
      /\ backlog'[Len(backlog) + 1] = c
      /\ \A i \in 1..Len(backlog) : backlog'[i] = backlog[i] /\ backlog[i] \in Client
  BY <1>0, <1>1 DEF TypeOK
<1>4. \A i \in 1..Len(backlog') : i \in 1..Len(backlog) \/ i = Len(backlog) + 1
  BY <1>3
<1>5. \A i \in 1..Len(backlog) : backlog[i] # c
  BY <1>0, <1>1 DEF BacklogWaits
<1>6. BacklogWaits'
  BY <1>0, <1>2, <1>3, <1>4, <1>5 DEF BacklogWaits
<1>7. BacklogOnce'
  BY <1>0, <1>3, <1>4, <1>5 DEF BacklogOnce
<1>8. ActiveCounts'
  BY <1>0, <1>1, <1>2, SameCount DEF Counted, Sending, Listening
<1>9. Len(backlog') <= Backlog
  BY <1>1, <1>3, EpollServerAssumption
<1>10. TypeOK'
  BY <1>0, <1>1, <1>2, <1>3, <1>9 DEF TypeOK
<1>11. LostOnlyToOthers' /\ PoolOutlivesMain' /\ NeverTerminated'
  BY <1>0, <1>1, <1>2 DEF LostOnlyToOthers, Readable, PoolOutlivesMain, NeverTerminated
<1> QED  BY <1>6, <1>7, <1>8, <1>10, <1>11 DEF ServerInv

LEMMA ServerInvStep == ServerInv /\ [Next]_vars => ServerInv'
<1> SUFFICES ASSUME ServerInv, [Next]_vars PROVE ServerInv'
  OBVIOUS
<1>1. CASE UNCHANGED vars
  BY <1>1
     DEF vars, netVars, ServerInv, TypeOK, BacklogWaits, BacklogOnce, PoolOutlivesMain,
         ActiveCounts, NeverTerminated, LostOnlyToOthers, Readable
<1>2. CASE Main
  BY <1>2, QuietStep, WaitStep, AcceptStep, AcceptUnwatchedStep DEF Main, Quiet
<1>3. CASE Starting \/ Stopping
  BY <1>3, QuietStep DEF Quiet
<1>4. ASSUME NEW c \in Client, Handler(c) PROVE ServerInv'
  BY <1>4, HandlerStep, FinishStep, QuietStep, WaitStep DEF Handler, Quiet
<1>5. ASSUME NEW c \in Client, ClientStep(c) PROVE ServerInv'
  BY <1>5, ConnectStep, InputStep DEF ClientStep
<1> QED  BY <1>1, <1>2, <1>3, <1>4, <1>5 DEF Next

-----------------------------------------------------------------------------
(* Types; the accept queue and the counter of connections; the order of
   stop(). *)
THEOREM ServerInvariant == Spec => []ServerInv
<1> QED  BY ServerInvInit, ServerInvStep, PTL DEF Spec

(* The variables keep their types: activeConnections, a size_t, never wraps below
   zero, and the backlog keeps its limit. *)
THEOREM TypeCorrect == Spec => []TypeOK
<1>1. ServerInv => TypeOK
  BY DEF ServerInv
<1> QED  BY <1>1, ServerInvariant, PTL

(* activeConnections is the number of open connections and of those about to be
   counted out. *)
THEOREM ConnectionsCounted == Spec => []ActiveCounts
<1>1. ServerInv => ActiveCounts
  BY DEF ServerInv
<1> QED  BY <1>1, ServerInvariant, PTL

(* run() never calls enqueue() on a pool that is shut down. *)
THEOREM StopIsOrdered == Spec => []NeverTerminated
<1>1. ServerInv => NeverTerminated
  BY DEF ServerInv
<1> QED  BY <1>1, ServerInvariant, PTL

(* The protocol of EPOLLOUT and EPOLLIN loses no input event of itself: one
   that is missing was given to another thread. *)
THEOREM EventsLostOnlyToOthers == Spec => []LostOnlyToOthers
<1>1. ServerInv => LostOnlyToOthers
  BY DEF ServerInv
<1> QED  BY <1>1, ServerInvariant, PTL
=============================================================================
