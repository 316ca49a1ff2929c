------------------------- MODULE FileTransferProofs -------------------------
(* Theorems about FileTransfer for any number of handlers, any library, any
   size of a chunk and any width of the variables of the loop. *)
EXTENDS FileTransfer, TLAPS

-----------------------------------------------------------------------------
(* Arithmetic in uint32_t. *)

LEMMA WrapFacts ==
  ASSUME NEW n \in Int
  PROVE  /\ Wrap(n) \in 0..(Word - 1)
         /\ n \in 0..(Word - 1) => Wrap(n) = n
         /\ n < 0 /\ n + Word >= 0 => Wrap(n) = n + Word
<1>1. Word \in Nat /\ Word > 0
  BY FileTransferAssumption
<1>2. n % Word \in 0..(Word - 1)
  BY <1>1
<1>3. n \in 0..(Word - 1) => n % Word = n
  BY <1>1
<1>4. n < 0 /\ n + Word >= 0 => n % Word = n + Word
  BY <1>1
<1> QED  BY <1>2, <1>3, <1>4 DEF Wrap
LEMMA ConstantFacts ==
  /\ Word \in Nat /\ Word > 0 /\ MaxChunk \in Nat /\ MaxChunk > 0 /\ MaxChunk < Word
  /\ MaxReadErrors \in Nat /\ MaxLost \in Nat /\ MaxChanges \in Nat /\ MaxRequests \in Nat
  /\ AlgoSizes \subseteq 1..(Word - 1)
  /\ \A l \in Libraries :
       l.algos \in Seq(Document) /\ l.dfu \in Nat /\ l.dfu + MaxReadErrors < Word
  BY FileTransferAssumption

LEMMA AvailableFacts ==
  ASSUME TypeOK, NEW h \in Handler
  PROVE  /\ Available(h) \in 0..(Word - 1)
         /\ file[h] = "algo" => Available(h) <= remain[h]
         /\ file[h] = "dfu" /\ Available(h) > 0 => position[h] + Available(h) <= library.dfu
<1>1. /\ remain[h] \in 0..(Word - 1) /\ position[h] \in Nat /\ library.dfu \in Nat
      /\ MaxChunk \in Nat /\ MaxChunk < Word /\ Word \in Nat
  BY ConstantFacts DEF TypeOK
<1>2. CASE file[h] = "algo"
  <2>1. Available(h) = Smaller(remain[h], MaxChunk)
    BY <1>2 DEF Available
  <2> QED  BY <1>1, <1>2, <2>1 DEF Smaller
<1>3. CASE file[h] = "dfu" /\ library.dfu > position[h]
  <2>1. Available(h) = Smaller(library.dfu - position[h], MaxChunk)
    BY <1>3 DEF Available
  <2> QED  BY <1>1, <1>3, <2>1 DEF Smaller
<1>4. CASE file[h] # "algo" /\ ~(file[h] = "dfu" /\ library.dfu > position[h])
  <2>1. Available(h) = 0
    BY <1>4 DEF Available
  <2> QED  BY <1>1, <1>4, <2>1
<1> QED  BY <1>2, <1>3, <1>4

-----------------------------------------------------------------------------
(* Types.  The variables of a loop are one group, the others another one. *)

ControlTypes ==
  /\ library \in Libraries
  /\ isAlgorithmNeeded \in BOOLEAN
  /\ pc \in [Handler -> HandlerState]
  /\ file \in [Handler -> {"none", "algo", "dfu"}]
  /\ document \in [Handler -> Document]
  /\ carries \in [Handler -> BOOLEAN]
  /\ told \subseteq Handler
  /\ requests \in [Handler -> 0..MaxRequests]
  /\ changes \in 0..MaxChanges
  /\ lostChunks \in 0..MaxLost

LoopTypes ==
  /\ total \in [Handler -> 0..(Word - 1)]
  /\ remain \in [Handler -> 0..(Word - 1)]
  /\ offset \in [Handler -> 0..(Word - 1)]
  /\ position \in [Handler -> Nat]
  /\ chunk \in [Handler -> Chunk]
  /\ acked \in [Handler -> Seq(Chunk)]
  /\ readErrors \in 0..MaxReadErrors

LEMMA TypeParts == TypeOK <=> ControlTypes /\ LoopTypes
  BY DEF TypeOK, ControlTypes, LoopTypes

LEMMA TypePartsPrimed == ControlTypes' /\ LoopTypes' => TypeOK'
  BY DEF TypeOK, ControlTypes, LoopTypes

LEMMA TypeInit == Init => TypeOK
<1> SUFFICES ASSUME Init PROVE TypeOK
  OBVIOUS
<1>1. ControlTypes
  <2>1. NoDocument \in Document
    BY DEF NoDocument, Document
  <2>2. pc \in [Handler -> HandlerState] /\ file \in [Handler -> {"none", "algo", "dfu"}]
    BY DEF Init, HandlerState
  <2>3. /\ requests \in [Handler -> 0..MaxRequests]
        /\ changes \in 0..MaxChanges /\ lostChunks \in 0..MaxLost
    BY ConstantFacts DEF Init
  <2> QED  BY <2>1, <2>2, <2>3 DEF Init, ControlTypes
<1>2. NoChunk \in Chunk
  BY ConstantFacts DEF NoChunk, Chunk
<1>3. LoopTypes
  BY <1>2, ConstantFacts DEF Init, LoopTypes
<1> QED  BY <1>1, <1>3, TypeParts

LEMMA ControlTypesStep ==
  ASSUME TypeOK, NEW h \in Handler, Request(h) \/ HandlerStep(h)
  PROVE  ControlTypes'
<1>0. ControlTypes
  BY TypeParts
<1>1. pc' \in [Handler -> HandlerState]
  <2>1. \E s \in HandlerState : pc' = [pc EXCEPT ![h] = s]
    BY <1>0
       DEF HandlerState, Request, VersionRequest, AlgoRequest, FirmwareRequest, Asks, Goes,
           HandlerStep, Load, LoadAlgo, LoadFails, TestNeeded, TakeNeeded, Filter,
           FilterThrows, Seek, SeekFails, NextChunk, EndOfFile, GivesUp, ReadError, SendAcked,
           SendLost, Refused, Finish, FileErrorResponse, Return
  <2> QED  BY <1>0, <2>1 DEF ControlTypes
<1>2. file' \in [Handler -> {"none", "algo", "dfu"}] /\ carries' \in [Handler -> BOOLEAN]
  <2>1. \E f \in {"none", "algo", "dfu"} : file' = file \/ file' = [file EXCEPT ![h] = f]
    BY DEF Request, VersionRequest, AlgoRequest, FirmwareRequest, HandlerStep, Load, LoadAlgo,
           LoadFails, TestNeeded, TakeNeeded, Filter, FilterThrows, Seek, SeekFails, NextChunk,
           EndOfFile, ReadError, SendAcked, SendLost, Finish, FileErrorResponse, Return,
           localVars, loopVars
  <2>2. \E b \in BOOLEAN : carries' = carries \/ carries' = [carries EXCEPT ![h] = b]
    BY DEF Request, VersionRequest, AlgoRequest, FirmwareRequest, HandlerStep, Load, LoadAlgo,
           LoadFails, TestNeeded, TakeNeeded, Filter, FilterThrows, Seek, SeekFails, NextChunk,
           EndOfFile, ReadError, SendAcked, SendLost, Finish, FileErrorResponse, Return,
           localVars, loopVars
  <2> QED  BY <1>0, <2>1, <2>2 DEF ControlTypes
<1>3. document' \in [Handler -> Document]
  <2>1. \E d \in Document : document' = document \/ document' = [document EXCEPT ![h] = d]
    <3>1. NoDocument \in Document
      BY DEF NoDocument, Document
    <3>2. \A i \in DOMAIN library.algos : library.algos[i] \in Document
      BY <1>0, ConstantFacts DEF ControlTypes
    <3> QED
      BY <3>1, <3>2
         DEF Request, VersionRequest, AlgoRequest, FirmwareRequest, HandlerStep, Load, LoadAlgo,
             LoadFails, TestNeeded, TakeNeeded, Filter, FilterThrows, Seek, SeekFails, NextChunk,
             EndOfFile, ReadError, SendAcked, SendLost, Finish, FileErrorResponse, Return,
             localVars, loopVars
  <2> QED  BY <1>0, <2>1 DEF ControlTypes
<1>4. /\ library' = library /\ changes' = changes
      /\ told' \subseteq Handler /\ isAlgorithmNeeded' \in BOOLEAN
  BY <1>0
     DEF ControlTypes, Request, VersionRequest, SetOnMismatch, AlgoRequest, FirmwareRequest,
         HandlerStep, Load, LoadAlgo, LoadFails, TestNeeded, TakeNeeded, Filter, FilterThrows,
         Seek, SeekFails, NextChunk, EndOfFile, ReadError, SendAcked, SendLost, Finish,
         FileErrorResponse, Return, faultVars
<1>5. requests' \in [Handler -> 0..MaxRequests]
  <2>1. CASE Request(h)
    <3>1. requests[h] < MaxRequests /\ requests' = [requests EXCEPT ![h] = requests[h] + 1]
      BY <1>0, <2>1 DEF ControlTypes, Request, VersionRequest, AlgoRequest, FirmwareRequest, Asks
    <3> QED  BY <1>0, <3>1, ConstantFacts DEF ControlTypes
  <2>2. CASE HandlerStep(h)
    BY <1>0, <2>2
       DEF ControlTypes, HandlerStep, Load, LoadAlgo, LoadFails, TestNeeded, TakeNeeded, Filter,
           FilterThrows, Seek, SeekFails, NextChunk, EndOfFile, ReadError, SendAcked, SendLost,
           Finish, FileErrorResponse, Return
  <2> QED  BY <2>1, <2>2
<1>6. lostChunks' \in 0..MaxLost
  <2>1. CASE SendLost(h)
    BY <1>0, <2>1, ConstantFacts DEF ControlTypes, SendLost
  <2>2. CASE ~SendLost(h)
    BY <1>0, <2>2
       DEF ControlTypes, Request, VersionRequest, AlgoRequest, FirmwareRequest,
           HandlerStep, Load, LoadAlgo, LoadFails, TestNeeded, TakeNeeded, Filter, FilterThrows,
           Seek, SeekFails, NextChunk, EndOfFile, ReadError, SendAcked, Finish,
           FileErrorResponse, Return, faultVars
  <2> QED  BY <2>1, <2>2
<1> QED  BY <1>0, <1>1, <1>2, <1>3, <1>4, <1>5, <1>6 DEF ControlTypes

(* Most steps leave the loop alone. *)
LEMMA LoopVarsKept ==
  ASSUME NEW h \in Handler,
         \/ Request(h) \/ Load(h) \/ TestNeeded(h) \/ TakeNeeded(h) \/ FilterThrows(h)
         \/ SeekFails(h) \/ EndOfFile(h) \/ SendLost(h)
  PROVE  UNCHANGED loopVars /\ readErrors' = readErrors
  BY DEF Request, VersionRequest, AlgoRequest, FirmwareRequest, Load, LoadAlgo, LoadFails,
         TestNeeded, TakeNeeded, FilterThrows, SeekFails, EndOfFile, SendLost, localVars,
         loopVars, faultVars

LEMMA LoopTypesStep ==
  ASSUME TypeOK, NEW h \in Handler, Request(h) \/ HandlerStep(h)
  PROVE  LoopTypes'
<1>0. LoopTypes
  BY TypeParts
<1>1. CASE \/ Request(h) \/ Load(h) \/ TestNeeded(h) \/ TakeNeeded(h) \/ FilterThrows(h)
           \/ SeekFails(h) \/ EndOfFile(h) \/ SendLost(h)
  BY <1>0, <1>1, LoopVarsKept DEF LoopTypes, loopVars
<1>2. ASSUME NEW n \in 0..(Word - 1), BeginLoop(h, n), readErrors' = readErrors
      PROVE  LoopTypes'
  BY <1>0, <1>2 DEF LoopTypes, BeginLoop
<1>3. CASE Filter(h)
  BY <1>2, <1>3, ConstantFacts DEF Filter, faultVars
<1>4. CASE Seek(h)
  <2>1. library.dfu \in 0..(Word - 1)
    BY ConstantFacts DEF TypeOK
  <2> QED  BY <1>2, <1>4, <2>1 DEF Seek, faultVars
<1>5. ASSUME NEW length \in 0..(Word - 1), Advance(h, length)
      PROVE  /\ remain' \in [Handler -> 0..(Word - 1)]
             /\ offset' \in [Handler -> 0..(Word - 1)]
             /\ chunk' \in [Handler -> Chunk]
  <2>1. /\ position[h] \in Nat /\ offset[h] \in 0..(Word - 1) /\ remain[h] \in 0..(Word - 1)
        /\ length \in Int
    BY <1>0, ConstantFacts DEF LoopTypes
  <2>2. [from |-> position[h], offset |-> offset[h], length |-> length] \in Chunk
    BY <2>1 DEF Chunk
  <2>3. Wrap(remain[h] - length) \in 0..(Word - 1) /\ Wrap(offset[h] + length) \in 0..(Word - 1)
    BY <2>1, WrapFacts
  <2> QED  BY <1>0, <1>5, <2>2, <2>3 DEF LoopTypes, Advance
<1>6. CASE NextChunk(h)
  <2>1. Available(h) \in 0..(Word - 1)
    BY AvailableFacts
  <2>2. position' \in [Handler -> Nat]
    BY <1>0, <1>6, <2>1 DEF LoopTypes, NextChunk
  <2> QED  BY <1>0, <1>5, <1>6, <2>1, <2>2 DEF LoopTypes, NextChunk, faultVars
<1>7. CASE ReadError(h)
  <2>1. Word - 1 \in 0..(Word - 1) /\ readErrors' \in 0..MaxReadErrors
    BY <1>0, <1>7, ConstantFacts DEF LoopTypes, ReadError
  <2> QED  BY <1>0, <1>5, <1>7, <2>1 DEF LoopTypes, ReadError
<1>8. CASE SendAcked(h)
  <2>1. acked' \in [Handler -> Seq(Chunk)]
    BY <1>0, <1>8 DEF LoopTypes, SendAcked
  <2> QED  BY <1>0, <1>8, <2>1 DEF LoopTypes, SendAcked, faultVars
<1>9. CASE Finish(h) \/ FileErrorResponse(h)
  <2>1. NoChunk \in Chunk /\ 0 \in 0..(Word - 1) /\ <<>> \in Seq(Chunk)
    BY ConstantFacts DEF NoChunk, Chunk
  <2>2. /\ total' = [total EXCEPT ![h] = 0] /\ remain' = [remain EXCEPT ![h] = 0]
        /\ offset' = [offset EXCEPT ![h] = 0] /\ position' = [position EXCEPT ![h] = 0]
        /\ chunk' = [chunk EXCEPT ![h] = NoChunk] /\ acked' = [acked EXCEPT ![h] = <<>>]
        /\ readErrors' = readErrors
    BY <1>9 DEF Finish, FileErrorResponse, Return, faultVars
  <2> QED  BY <1>0, <2>1, <2>2 DEF LoopTypes
<1> QED  BY <1>1, <1>3, <1>4, <1>6, <1>7, <1>8, <1>9 DEF HandlerStep

LEMMA TypeNext == TypeOK /\ [Next]_vars => TypeOK'
<1> SUFFICES ASSUME TypeOK, [Next]_vars PROVE TypeOK'
  OBVIOUS
<1>1. CASE UNCHANGED vars
  BY <1>1 DEF vars, localVars, faultVars, TypeOK
<1>2. ASSUME NEW h \in Handler, Request(h) \/ HandlerStep(h) PROVE TypeOK'
  BY <1>2, ControlTypesStep, LoopTypesStep, TypePartsPrimed
<1>3. CASE Change
  <2>1. ControlTypes'
    BY <1>3, ConstantFacts DEF Change, TypeOK, ControlTypes, localVars
  <2>2. LoopTypes'
    BY <1>3 DEF Change, TypeOK, LoopTypes, localVars
  <2> QED  BY <2>1, <2>2, TypePartsPrimed
<1> QED  BY <1>1, <1>2, <1>3 DEF Next

(* The variables keep their types: remain and offset stay within uint32_t. *)
THEOREM TypeCorrect == Spec => []TypeOK
  BY TypeInit, TypeNext, PTL DEF Spec

-----------------------------------------------------------------------------
(* The flag.  A device that was told of another version, and for which no file
   with the algorithm is under way, finds the flag set. *)

FlagWaits == \A h \in Handler : h \in told /\ ~carries[h] => isAlgorithmNeeded
FlagInv == TypeOK /\ FlagWaits /\ AlgorithmDelivered

LEMMA FlagInit == Init => FlagWaits /\ AlgorithmDelivered
  BY DEF Init, FlagWaits, AlgorithmDelivered

LEMMA FlagNext == FlagInv /\ [Next]_vars => FlagInv'
<1> SUFFICES ASSUME FlagInv, [Next]_vars PROVE (FlagWaits /\ AlgorithmDelivered)'
  BY TypeNext DEF FlagInv
<1>0. TypeOK /\ FlagWaits /\ AlgorithmDelivered
  BY DEF FlagInv
<1>1. CASE \/ UNCHANGED vars \/ Change
           \/ \E h \in Handler :
                \/ AlgoRequest(h) \/ FirmwareRequest(h) \/ Load(h) \/ FilterThrows(h) \/ Filter(h)
                \/ Seek(h) \/ SeekFails(h) \/ NextChunk(h) \/ EndOfFile(h) \/ ReadError(h)
                \/ SendAcked(h) \/ SendLost(h)
  <2>1. told' = told /\ carries' = carries /\ isAlgorithmNeeded' = isAlgorithmNeeded
    BY <1>1
       DEF vars, Change, AlgoRequest, FirmwareRequest, Load, LoadAlgo, LoadFails, FilterThrows,
           Filter, Seek, SeekFails, NextChunk, EndOfFile, ReadError, SendAcked, SendLost,
           localVars
  <2>2. \A h \in Handler : pc'[h] = "filter" => pc[h] = "filter"
    BY <1>0, <1>1
       DEF TypeOK, vars, Change, AlgoRequest, FirmwareRequest, Asks, Goes, Load, LoadAlgo,
           LoadFails, FilterThrows, Filter, Seek, SeekFails, NextChunk, EndOfFile, GivesUp,
           ReadError, SendAcked, SendLost, Refused
  <2> QED  BY <1>0, <2>1, <2>2 DEF FlagWaits, AlgorithmDelivered
<1>2. ASSUME NEW h \in Handler, NEW v \in Versions, VersionRequest(h, v)
      PROVE  (FlagWaits /\ AlgorithmDelivered)'
  <2> DEFINE mismatch == AlgoVersion(library.algos) # v
  <2>1. /\ isAlgorithmNeeded' = (isAlgorithmNeeded \/ mismatch)
        /\ told' = IF mismatch THEN told \cup {h} ELSE told
        /\ carries' = carries
    BY <1>2 DEF VersionRequest, SetOnMismatch, localVars
  <2>2. pc' = pc /\ pc[h] = "idle"
    BY <1>0, <1>2 DEF VersionRequest, Asks, Goes, TypeOK
  <2> HIDE DEF mismatch
  <2>3. FlagWaits'
    BY <1>0, <2>1, Zenon DEF FlagWaits
  <2>4. AlgorithmDelivered'
    BY <1>0, <2>1, <2>2 DEF AlgorithmDelivered
  <2> QED  BY <2>3, <2>4
<1>3. ASSUME NEW h \in Handler, TestNeeded(h) PROVE (FlagWaits /\ AlgorithmDelivered)'
  <2>1. told' = told /\ carries' = carries /\ isAlgorithmNeeded' = isAlgorithmNeeded
    BY <1>3 DEF TestNeeded, localVars
  <2>2. /\ \A g \in Handler : g # h => pc'[g] = pc[g]
        /\ pc'[h] = "filter" => ~isAlgorithmNeeded
    BY <1>0, <1>3 DEF TestNeeded, Goes, TypeOK
  <2> QED  BY <1>0, <2>1, <2>2 DEF FlagWaits, AlgorithmDelivered
<1>4. ASSUME NEW h \in Handler, TakeNeeded(h) PROVE (FlagWaits /\ AlgorithmDelivered)'
  <2>1. told' = told \cap {h} /\ carries' = [carries EXCEPT ![h] = TRUE]
    BY <1>4 DEF TakeNeeded
  <2>2. \A g \in told' : g = h /\ carries'[g]
    BY <1>0, <2>1 DEF TypeOK
  <2> QED  BY <2>2 DEF FlagWaits, AlgorithmDelivered
<1>5. ASSUME NEW h \in Handler, Finish(h) \/ FileErrorResponse(h)
      PROVE  (FlagWaits /\ AlgorithmDelivered)'
  <2>1. /\ told' = IF carries[h] THEN told \ {h} ELSE told
        /\ carries' = [carries EXCEPT ![h] = FALSE]
        /\ isAlgorithmNeeded' = isAlgorithmNeeded
        /\ pc' = [pc EXCEPT ![h] = "idle"]
    BY <1>5 DEF Finish, FileErrorResponse, Return, Goes
  <2>2. FlagWaits'
    BY <1>0, <2>1 DEF FlagWaits, TypeOK
  <2>3. AlgorithmDelivered'
    BY <1>0, <2>1 DEF AlgorithmDelivered, TypeOK
  <2> QED  BY <2>2, <2>3
<1> QED  BY <1>1, <1>2, <1>3, <1>4, <1>5 DEF Next, Request, HandlerStep

(* A device that was told of another version finds the algorithm in its next
   file, unless a file with the algorithm was begun meanwhile: the handler of a
   device that is up to date never takes the flag back. *)
THEOREM FlagIsKept == Spec => []AlgorithmDelivered
<1>1. Init => FlagInv
  BY TypeInit, FlagInit DEF FlagInv
<1>2. FlagInv => AlgorithmDelivered
  BY DEF FlagInv
<1> QED  BY <1>1, <1>2, FlagNext, PTL DEF Spec

-----------------------------------------------------------------------------
(* Whole files.  Within the loop a handler keeps track of the bytes it has sent
   (Exact), and remain says how many are missing.  Without read errors remain
   is exact but for its wrap below zero, when the file has grown; without
   changes it is too large by the number of read errors, and never wraps. *)

Before == {"idle", "load", "test", "take", "filter", "seek"}
Fresh(h) ==
  pc[h] \in Before =>
    /\ acked[h] = <<>> /\ offset[h] = 0 /\ position[h] = 0
    /\ pc[h] = "seek" => file[h] = "dfu"
    /\ pc[h] \in {"load", "test", "take", "filter"} => file[h] = "algo"

Exact(h) ==
  /\ offset[h] = position[h]
  /\ pc[h] = "loop" => Tiles(acked[h], position[h])
  /\ pc[h] = "send" =>
       /\ Tiles(acked[h], chunk[h].from)
       /\ chunk[h].offset = chunk[h].from
       /\ position[h] = chunk[h].from + chunk[h].length

ReadsSucceed(h) ==
  pc[h] \in {"loop", "send"} =>
    /\ position[h] < Word
    /\ remain[h] = IF position[h] <= total[h] THEN total[h] - position[h]
                   ELSE total[h] - position[h] + Word
    /\ file[h] = "algo" => position[h] <= total[h]
    /\ Exact(h)

FileStays(h) ==
  pc[h] \in {"loop", "send"} =>
    /\ position[h] <= total[h]
    /\ file[h] # "algo" => (file[h] = "dfu" /\ total[h] = library.dfu)
    /\ total[h] - position[h] <= remain[h]
    /\ remain[h] <= total[h] - position[h] + readErrors
    /\ file[h] = "algo" => remain[h] = total[h] - position[h]
    /\ remain[h] = total[h] - position[h] => Exact(h)

Whole(h) ==
  /\ Fresh(h)
  /\ readErrors = 0 => ReadsSucceed(h)
  /\ changes = 0 => FileStays(h)
WholeInv == TypeOK /\ \A h \in Handler : Whole(h)

LEMMA TilesNothing == Tiles(<<>>, 0)
  BY DEF Tiles

LEMMA TilesAppend ==
  ASSUME NEW s \in Seq(Chunk), NEW c \in Chunk, Tiles(s, c.from), c.offset = c.from
  PROVE  Tiles(Append(s, c), c.from + c.length)
<1> DEFINE t == Append(s, c)
<1>1. /\ t \in Seq(Chunk) /\ t # <<>> /\ Len(t) = Len(s) + 1 /\ Len(s) \in Nat
      /\ t[Len(s) + 1] = c /\ \A i \in 1..Len(s) : t[i] = s[i]
      /\ DOMAIN t = 1..(Len(s) + 1) /\ DOMAIN s = 1..Len(s)
  OBVIOUS
<1> HIDE DEF t
<1>2. ASSUME NEW i \in DOMAIN t
      PROVE  /\ t[i].offset = t[i].from
             /\ t[i].offset = IF i = 1 THEN 0 ELSE t[i - 1].offset + t[i - 1].length
  <2>1. CASE i \in 1..Len(s)
    <3>1. i = 1 \/ i - 1 \in 1..Len(s)
      BY <1>1, <2>1
    <3> QED  BY <1>1, <2>1, <3>1 DEF Tiles
  <2>2. CASE i = Len(s) + 1
    <3>1. CASE s = <<>>
      <4>1. i = 1 /\ c.from = 0
        BY <2>2, <3>1 DEF Tiles
      <4> QED  BY <1>1, <2>2, <4>1
    <3>2. CASE s # <<>>
      <4>1. Len(s) \in 1..Len(s) /\ i # 1 /\ i - 1 = Len(s)
        BY <1>1, <2>2, <3>2
      <4>2. c.from = s[Len(s)].offset + s[Len(s)].length
        BY <3>2 DEF Tiles
      <4> QED  BY <1>1, <2>2, <4>1, <4>2
    <3> QED  BY <3>1, <3>2
  <2> QED  BY <1>1, <2>1, <2>2
<1>3. t[Len(t)] = c
  BY <1>1
<1> QED  BY <1>1, <1>2, <1>3 DEF Tiles, t

LEMMA WholeInit == Init => \A h \in Handler : Whole(h)
  BY DEF Init, Whole, Fresh, ReadsSucceed, FileStays, Before

(* Nobody touches the local variables of another handler. *)
LEMMA OthersKept ==
  ASSUME TypeOK, NEW g \in Handler, NEW h \in Handler, g # h, Request(g) \/ HandlerStep(g)
  PROVE  /\ pc'[h] = pc[h] /\ file'[h] = file[h] /\ total'[h] = total[h]
         /\ remain'[h] = remain[h] /\ offset'[h] = offset[h] /\ position'[h] = position[h]
         /\ chunk'[h] = chunk[h] /\ acked'[h] = acked[h]
         /\ library' = library /\ changes' = changes
         /\ readErrors' \in {readErrors, readErrors + 1}
<1>1. CASE \/ Request(g) \/ Load(g) \/ TestNeeded(g) \/ TakeNeeded(g) \/ FilterThrows(g)
           \/ SeekFails(g) \/ EndOfFile(g) \/ SendLost(g)
  <2>1. UNCHANGED loopVars /\ readErrors' = readErrors
    BY <1>1, LoopVarsKept
  <2>2. pc'[h] = pc[h] /\ file'[h] = file[h] /\ library' = library /\ changes' = changes
    BY <1>1
       DEF TypeOK, Request, VersionRequest, AlgoRequest, FirmwareRequest, Asks, Goes, Load,
           LoadAlgo, LoadFails, TestNeeded, TakeNeeded, FilterThrows, SeekFails, EndOfFile,
           SendLost, localVars, faultVars
  <2> QED  BY <2>1, <2>2 DEF loopVars
<1>2. CASE Filter(g) \/ Seek(g)
  BY <1>2 DEF TypeOK, Filter, Seek, BeginLoop, Goes, faultVars
<1>3. CASE NextChunk(g)
  BY <1>3 DEF TypeOK, NextChunk, Advance, Goes, faultVars
<1>4. CASE ReadError(g)
  BY <1>4 DEF TypeOK, ReadError, Advance, Goes
<1>5. CASE SendAcked(g)
  BY <1>5 DEF TypeOK, SendAcked, Goes, faultVars
<1>6. CASE Finish(g) \/ FileErrorResponse(g)
  BY <1>6 DEF TypeOK, Finish, FileErrorResponse, Return, Goes, faultVars
<1> QED  BY <1>1, <1>2, <1>3, <1>4, <1>5, <1>6 DEF HandlerStep

LEMMA WholeOthers ==
  ASSUME TypeOK, NEW g \in Handler, NEW h \in Handler, g # h, Request(g) \/ HandlerStep(g),
         Whole(h)
  PROVE  Whole(h)'
<1>1. /\ pc'[h] = pc[h] /\ file'[h] = file[h] /\ total'[h] = total[h]
      /\ remain'[h] = remain[h] /\ offset'[h] = offset[h] /\ position'[h] = position[h]
      /\ chunk'[h] = chunk[h] /\ acked'[h] = acked[h]
      /\ library' = library /\ changes' = changes
      /\ readErrors' \in {readErrors, readErrors + 1}
  BY OthersKept
<1>2. /\ readErrors \in Nat /\ total[h] \in Int /\ remain[h] \in Int /\ position[h] \in Int
  BY ConstantFacts DEF TypeOK
<1>3. Fresh(h)' /\ (Exact(h) => Exact(h)')
  BY <1>1 DEF Whole, Fresh, Exact, Tiles
<1>4. readErrors' = 0 => ReadsSucceed(h)'
  BY <1>1, <1>2, <1>3 DEF Whole, ReadsSucceed
<1>5. changes' = 0 => FileStays(h)'
  BY <1>1, <1>2, <1>3 DEF Whole, FileStays
<1> QED  BY <1>3, <1>4, <1>5 DEF Whole

(* Outside the loop there is little to show. *)
LEMMA WholeOutside ==
  ASSUME TypeOK, NEW h \in Handler, Whole(h),
         \/ Request(h) \/ Load(h) \/ TestNeeded(h) \/ TakeNeeded(h) \/ FilterThrows(h)
         \/ SeekFails(h) \/ EndOfFile(h) \/ SendLost(h)
  PROVE  Whole(h)'
<1>1. UNCHANGED loopVars
  BY LoopVarsKept
<1>2. /\ pc'[h] \notin {"loop", "send"}
      /\ pc'[h] \in Before => pc[h] \in Before
      /\ pc'[h] = "seek" => file'[h] = "dfu"
      /\ pc'[h] \in {"load", "test", "take", "filter"} => file'[h] = "algo"
  BY DEF TypeOK, Whole, Fresh, Before, Request, VersionRequest, AlgoRequest, FirmwareRequest,
         Asks, Goes, Load, LoadAlgo, LoadFails, TestNeeded, TakeNeeded, FilterThrows, SeekFails,
         EndOfFile, GivesUp, SendLost, Refused, localVars
<1> QED  BY <1>1, <1>2 DEF Whole, Fresh, ReadsSucceed, FileStays, loopVars

LEMMA WholeBegins ==
  ASSUME TypeOK, NEW h \in Handler, Whole(h), Filter(h) \/ Seek(h)
  PROVE  Whole(h)'
<1>1. /\ acked[h] = <<>> /\ offset[h] = 0 /\ position[h] = 0
      /\ Filter(h) => file[h] = "algo"
      /\ Seek(h) => file[h] = "dfu"
  BY DEF Whole, Fresh, Before, Filter, Seek, Goes
<1>2. /\ pc'[h] = "loop" /\ acked'[h] = <<>> /\ offset'[h] = 0 /\ position'[h] = 0
      /\ file'[h] = file[h] /\ remain'[h] = total'[h] /\ library' = library
      /\ readErrors' = readErrors
      /\ Seek(h) => total'[h] = library.dfu
      /\ Filter(h) => total'[h] \in AlgoSizes
  BY <1>1 DEF TypeOK, Filter, Seek, BeginLoop, Goes, faultVars
<1>3. total'[h] \in Nat /\ Word \in Nat /\ 0 < Word /\ readErrors \in Nat
  BY <1>2, ConstantFacts DEF TypeOK
<1>4. Exact(h)'
  BY <1>2, TilesNothing DEF Exact
<1>5. Fresh(h)'
  BY <1>2 DEF Fresh, Before
<1>6. ReadsSucceed(h)' /\ FileStays(h)'
  BY <1>1, <1>2, <1>3, <1>4 DEF ReadsSucceed, FileStays
<1> QED  BY <1>5, <1>6 DEF Whole

LEMMA WholeChunk ==
  ASSUME TypeOK, NEW h \in Handler, Whole(h), NextChunk(h)
  PROVE  Whole(h)'
<1> DEFINE a == Available(h)
<1>1. /\ a \in 0..(Word - 1) /\ a > 0 /\ Word \in Nat
      /\ file[h] = "algo" => a <= remain[h]
      /\ file[h] = "dfu" => position[h] + a <= library.dfu
      /\ library.dfu \in Nat /\ library.dfu < Word
  <2>1. a > 0 /\ library \in Libraries
    BY DEF NextChunk, TypeOK
  <2>2. library.dfu \in Nat /\ library.dfu < Word /\ Word \in Nat
    BY <2>1, ConstantFacts
  <2>3. /\ a \in 0..(Word - 1)
        /\ file[h] = "algo" => a <= remain[h]
        /\ file[h] = "dfu" /\ a > 0 => position[h] + a <= library.dfu
    BY AvailableFacts
  <2> HIDE DEF a
  <2> QED  BY <2>1, <2>2, <2>3
<1>2. /\ total[h] \in 0..(Word - 1) /\ remain[h] \in 0..(Word - 1) /\ offset[h] \in 0..(Word - 1)
      /\ position[h] \in Nat /\ readErrors \in Nat
  BY ConstantFacts DEF TypeOK
<1>3. /\ pc[h] = "loop" /\ pc'[h] = "send" /\ file'[h] = file[h] /\ total'[h] = total[h]
      /\ remain'[h] = Wrap(remain[h] - a) /\ offset'[h] = Wrap(offset[h] + a)
      /\ position'[h] = position[h] + a /\ acked'[h] = acked[h]
      /\ chunk'[h] = [from |-> position[h], offset |-> offset[h], length |-> a]
      /\ library' = library /\ readErrors' = readErrors /\ changes' = changes
  BY DEF TypeOK, NextChunk, Advance, Goes, faultVars
<1> HIDE DEF a
<1>4. Fresh(h)'
  BY <1>3 DEF Fresh, Before
<1>5. ASSUME Exact(h), position[h] + a < Word PROVE Exact(h)'
  <2>1. offset'[h] = position'[h]
    BY <1>1, <1>2, <1>3, <1>5, WrapFacts DEF Exact
  <2> QED  BY <1>3, <1>5, <2>1 DEF Exact
<1>6. ASSUME readErrors = 0, file[h] \in {"algo", "dfu"} PROVE ReadsSucceed(h)'
  <2>1. /\ position[h] < Word /\ Exact(h)
        /\ remain[h] = IF position[h] <= total[h] THEN total[h] - position[h]
                       ELSE total[h] - position[h] + Word
        /\ file[h] = "algo" => position[h] <= total[h]
    BY <1>3, <1>6 DEF Whole, ReadsSucceed
  <2>2. position[h] + a < Word /\ (file[h] = "algo" => position[h] + a <= total[h])
    BY <1>1, <1>2, <1>6, <2>1
  <2>3. Wrap(remain[h] - a) = IF position[h] + a <= total[h] THEN total[h] - (position[h] + a)
                              ELSE total[h] - (position[h] + a) + Word
    BY <1>1, <1>2, <2>1, <2>2, WrapFacts
  <2> QED  BY <1>3, <1>5, <2>1, <2>2, <2>3 DEF ReadsSucceed
<1>7. ASSUME changes = 0 PROVE FileStays(h)'
  <2>1. /\ position[h] <= total[h]
        /\ file[h] # "algo" => (file[h] = "dfu" /\ total[h] = library.dfu)
        /\ total[h] - position[h] <= remain[h]
        /\ remain[h] <= total[h] - position[h] + readErrors
        /\ file[h] = "algo" => remain[h] = total[h] - position[h]
        /\ remain[h] = total[h] - position[h] => Exact(h)
    BY <1>3, <1>7 DEF Whole, FileStays
  <2>2. position[h] + a <= total[h] /\ a <= remain[h]
    BY <1>1, <1>2, <2>1
  <2>3. Wrap(remain[h] - a) = remain[h] - a
    BY <1>1, <1>2, <2>2, WrapFacts
  <2>4. remain[h] - a = total[h] - (position[h] + a) => Exact(h)'
    BY <1>1, <1>2, <1>5, <2>1, <2>2
  <2> QED  BY <1>1, <1>2, <1>3, <2>1, <2>2, <2>3, <2>4 DEF FileStays
<1>8. file[h] \in {"algo", "dfu"}
  BY <1>1, <1>3 DEF TypeOK, Available, NextChunk, a
<1> QED  BY <1>3, <1>4, <1>6, <1>7, <1>8 DEF Whole

LEMMA WholeReadError ==
  ASSUME TypeOK, NEW h \in Handler, Whole(h), ReadError(h)
  PROVE  Whole(h)'
<1>1. /\ readErrors \in Nat /\ readErrors < MaxReadErrors /\ readErrors' = readErrors + 1
      /\ changes' = changes /\ library' = library
      /\ library.dfu \in Nat /\ library.dfu + MaxReadErrors < Word
      /\ Word \in Nat /\ MaxReadErrors \in Nat
  BY ConstantFacts DEF TypeOK, ReadError
<1>2. /\ total[h] \in 0..(Word - 1) /\ remain[h] \in 0..(Word - 1) /\ position[h] \in Nat
      /\ remain[h] > 0 /\ file[h] = "dfu"
  BY DEF TypeOK, ReadError
<1>3. /\ pc[h] = "loop" /\ pc'[h] = "send" /\ file'[h] = file[h] /\ total'[h] = total[h]
      /\ position'[h] = position[h] /\ remain'[h] = Wrap(remain[h] - (Word - 1))
  BY DEF TypeOK, ReadError, Advance, Goes
<1>4. ASSUME changes = 0 PROVE FileStays(h)'
  <2>1. /\ position[h] <= total[h] /\ total[h] = library.dfu
        /\ total[h] - position[h] <= remain[h]
        /\ remain[h] <= total[h] - position[h] + readErrors
    BY <1>2, <1>3, <1>4 DEF Whole, FileStays
  <2>2. remain[h] + 1 < Word
    BY <1>1, <1>2, <2>1
  <2>3. Wrap(remain[h] - (Word - 1)) = remain[h] + 1
    <3>1. remain[h] - (Word - 1) \in Int /\ remain[h] - (Word - 1) < 0
          /\ remain[h] - (Word - 1) + Word = remain[h] + 1
      BY <1>1, <1>2, <2>2
    <3> QED  BY <1>2, <3>1, WrapFacts
  <2> QED  BY <1>1, <1>2, <1>3, <2>1, <2>3 DEF FileStays
<1> QED  BY <1>1, <1>3, <1>4 DEF Whole, Fresh, Before

LEMMA WholeAcked ==
  ASSUME TypeOK, NEW h \in Handler, Whole(h), SendAcked(h)
  PROVE  Whole(h)'
<1>1. /\ pc[h] = "send" /\ pc'[h] = "loop" /\ file'[h] = file[h] /\ total'[h] = total[h]
      /\ remain'[h] = remain[h] /\ offset'[h] = offset[h] /\ position'[h] = position[h]
      /\ acked'[h] = Append(acked[h], chunk[h])
      /\ library' = library /\ readErrors' = readErrors /\ changes' = changes
  BY DEF TypeOK, SendAcked, Goes, faultVars
<1>2. ASSUME Exact(h) PROVE Exact(h)'
  <2>1. acked[h] \in Seq(Chunk) /\ chunk[h] \in Chunk
    BY DEF TypeOK
  <2>2. Tiles(Append(acked[h], chunk[h]), chunk[h].from + chunk[h].length)
    BY <1>1, <1>2, <2>1, TilesAppend DEF Exact
  <2> QED  BY <1>1, <1>2, <2>2 DEF Exact
<1> QED  BY <1>1, <1>2 DEF Whole, Fresh, Before, ReadsSucceed, FileStays

LEMMA WholeReturns ==
  ASSUME TypeOK, NEW h \in Handler, Finish(h) \/ FileErrorResponse(h)
  PROVE  Whole(h)'
<1>1. pc'[h] = "idle" /\ acked'[h] = <<>> /\ offset'[h] = 0 /\ position'[h] = 0
  BY DEF TypeOK, Finish, FileErrorResponse, Return, Goes
<1> QED  BY <1>1 DEF Whole, Fresh, Before, ReadsSucceed, FileStays

LEMMA WholeNext == WholeInv /\ [Next]_vars => WholeInv'
<1> SUFFICES ASSUME WholeInv, [Next]_vars, NEW h \in Handler PROVE Whole(h)'
  BY TypeNext DEF WholeInv
<1>0. TypeOK /\ Whole(h)
  BY DEF WholeInv
<1>1. CASE UNCHANGED vars
  BY <1>0, <1>1
     DEF vars, localVars, faultVars, Whole, Fresh, ReadsSucceed, FileStays, Exact, Tiles
<1>2. CASE Change
  <2>1. changes' # 0
    BY <1>0, <1>2, ConstantFacts DEF Change, TypeOK
  <2>2. UNCHANGED <<pc, localVars, readErrors>>
    BY <1>2 DEF Change
  <2> QED
    BY <1>0, <2>1, <2>2 DEF localVars, Whole, Fresh, ReadsSucceed, Exact, Tiles
<1>3. ASSUME NEW g \in Handler, Request(g) \/ HandlerStep(g), g # h PROVE Whole(h)'
  BY <1>0, <1>3, WholeOthers
<1>4. CASE Request(h) \/ HandlerStep(h)
  BY <1>0, <1>4, WholeOutside, WholeBegins, WholeChunk, WholeReadError, WholeAcked, WholeReturns
     DEF HandlerStep
<1> QED  BY <1>1, <1>2, <1>3, <1>4 DEF Next

(* A transfer that is not refused has brought the whole file, for files and
   chunks of any size: without read errors whatever becomes of the file, without
   changes of the file however often read() fails. *)
THEOREM WholeFiles == Spec => []WholeOrRefused
<1>1. Init => WholeInv
  BY TypeInit, WholeInit DEF WholeInv
<1>2. WholeInv => WholeOrRefused
  <2> SUFFICES ASSUME WholeInv, readErrors = 0 \/ changes = 0, NEW h \in Handler, Finished(h)
               PROVE  Tiles(acked[h], total[h])
    BY DEF WholeOrRefused
  <2>1. /\ TypeOK /\ pc[h] = "loop" /\ remain[h] = 0
        /\ readErrors = 0 => ReadsSucceed(h)
        /\ changes = 0 => FileStays(h)
    BY DEF WholeInv, Whole, Finished
  <2>2. total[h] \in Nat /\ position[h] \in Nat /\ readErrors \in Nat /\ Word \in Nat
    BY <2>1, ConstantFacts DEF TypeOK
  <2>3. position[h] = total[h] /\ Exact(h)
    BY <2>1, <2>2 DEF ReadsSucceed, FileStays
  <2> QED  BY <2>1, <2>3 DEF Exact
<1> QED  BY <1>1, <1>2, WholeNext, PTL DEF Spec
=============================================================================
