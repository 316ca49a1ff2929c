---------------------------- MODULE FileTransfer ----------------------------
(***************************************************************************)
(* Version and file requests of server.cpp: what a device asks of the file *)
(* library, and how the handlers of several connections answer out of it.  *)
(*                                                                         *)
(* The handlers share isAlgorithmNeeded, a plain bool that a version       *)
(* request sets and the next algorithm file that is sent takes back,       *)
(* whichever handler sends it.  The library belongs to an administrator,   *)
(* who may replace or overwrite a file while it is read.  Each chunk is a  *)
(* whole amilinkSendMessage(): acknowledged, or given up after its retries *)
(* (Amilink).                                                              *)
(***************************************************************************)
EXTENDS Integers, Sequences, FiniteSets

CONSTANTS
  Handler,        \* the threads in connectionHandler()
  Libraries,      \* the states of FILE_LIBRARY
  AlgoSizes,      \* the sizes of the JSON text made for a device
  Versions,       \* the algorithm versions devices have
  MaxChunk,       \* MQS_CLD_DATA_PAYLOAD_MAX
  Word,           \* 2^32, the range of uint32_t
  MaxRequests,    \* bound: requests of a device
  MaxChanges,     \* bound: changes of the library
  MaxReadErrors,  \* bound: calls of read() that return -1
  MaxLost         \* bound: chunks nobody acknowledges

(* Of a library the handlers see its algorithm files, in the order of
   readdir(), and the length of the firmware file. *)
Unnumbered == -1  \* a document without versionNumber
Document ==
  [version : Nat \cup {Unnumbered}, state : {"good", "bad entry", "broken"}]

ASSUME FileTransferAssumption ==
  /\ Word \in Nat \ {0}
  /\ MaxChunk \in 1..(Word - 1)
  /\ Libraries \subseteq [algos : Seq(Document), dfu : Nat]
  /\ \A l \in Libraries : l.dfu + MaxReadErrors < Word
  /\ AlgoSizes \subseteq 1..(Word - 1)
  /\ Versions \subseteq Nat
  /\ MaxRequests \in Nat /\ MaxChanges \in Nat /\ MaxReadErrors \in Nat /\ MaxLost \in Nat

VARIABLES
  library,            \* the files in FILE_LIBRARY
  isAlgorithmNeeded,
  pc,                 \* where each handler is in handleRequest()
  file,               \* "algo" or "dfu", while it sends one
  document,           \* the JSON document it has read
  carries,            \* whether jsonToSend has the algorithm
  total, remain, offset,  \* the local variables of the chunk loop
  position,           \* the position of fd, or of the text in memory
  chunk,              \* the chunk about to be sent
  acked,              \* history: the chunks of this transfer acknowledged
  told,               \* history: the devices told of another version, until
                      \* a file with the algorithm is begun for them or
                      \* for another device
  requests, changes, readErrors, lostChunks  \* how much of each bound is used

localVars == <<file, document, carries, total, remain, offset, position, chunk, acked>>
loopVars == <<total, remain, offset, position, chunk, acked>>
faultVars == <<changes, readErrors, lostChunks>>
vars == <<library, isAlgorithmNeeded, pc, localVars, told, requests, faultVars>>

NoDocument == [version |-> Unnumbered, state |-> "broken"]
NoChunk == [from |-> 0, offset |-> 0, length |-> 0]
Chunk == [from : Nat, offset : 0..(Word - 1), length : 0..(Word - 1)]

(* "load": about to open the .algo file; "test", "take": at the two uses of
   isAlgorithmNeeded; "filter": about to pick the meat types; "seek": about
   to open the .dfu file; "loop": at the test of the chunk loop; "send": in
   amilinkSendMessage(); "refuse": in fileErrorResponse(). *)
HandlerState ==
  {"idle", "load", "test", "take", "filter", "seek", "loop", "send", "refuse"}

TypeOK ==
  /\ library \in Libraries
  /\ isAlgorithmNeeded \in BOOLEAN
  /\ pc \in [Handler -> HandlerState]
  /\ file \in [Handler -> {"none", "algo", "dfu"}]
  /\ document \in [Handler -> Document]
  /\ carries \in [Handler -> BOOLEAN]
  /\ total \in [Handler -> 0..(Word - 1)]
  /\ remain \in [Handler -> 0..(Word - 1)]
  /\ offset \in [Handler -> 0..(Word - 1)]
  /\ position \in [Handler -> Nat]
  /\ chunk \in [Handler -> Chunk]
  /\ acked \in [Handler -> Seq(Chunk)]
  /\ told \subseteq Handler
  /\ requests \in [Handler -> 0..MaxRequests]
  /\ changes \in 0..MaxChanges
  /\ readErrors \in 0..MaxReadErrors
  /\ lostChunks \in 0..MaxLost

Init ==
  /\ library \in Libraries
  /\ isAlgorithmNeeded = FALSE
  /\ pc = [h \in Handler |-> "idle"]
  /\ file = [h \in Handler |-> "none"]
  /\ document = [h \in Handler |-> NoDocument]
  /\ carries = [h \in Handler |-> FALSE]
  /\ total = [h \in Handler |-> 0]
  /\ remain = [h \in Handler |-> 0]
  /\ offset = [h \in Handler |-> 0]
  /\ position = [h \in Handler |-> 0]
  /\ chunk = [h \in Handler |-> NoChunk]
  /\ acked = [h \in Handler |-> <<>>]
  /\ told = {}
  /\ requests = [h \in Handler |-> 0]
  /\ changes = 0
  /\ readErrors = 0
  /\ lostChunks = 0

Goes(h, from, to) == pc[h] = from /\ pc' = [pc EXCEPT ![h] = to]

Asks(h, to) ==
  /\ requests[h] < MaxRequests
  /\ requests' = [requests EXCEPT ![h] = @ + 1]
  /\ Goes(h, "idle", to)

-----------------------------------------------------------------------------
(* handleVersionRequest() *)

(* The last file that parses and has a version number decides, also with the
   number 0, which is the answer when there is none. *)
Versioned(docs) ==
  {i \in DOMAIN docs : docs[i].state # "broken" /\ docs[i].version # Unnumbered}
AlgoVersion(docs) ==
  IF Versioned(docs) = {}
  THEN 0
  ELSE docs[CHOOSE i \in Versioned(docs) : \A j \in Versioned(docs) : j <= i].version

(* Mutant: a device that is up to date takes the flag back. *)
SetToMismatch(flag, mismatch) == mismatch
SetOnMismatch(flag, mismatch) == flag \/ mismatch

(* A device with version v asks for the version of its .algo file.  (The
   request for the version of a .dfu file changes nothing.) *)
VersionRequest(h, v) ==
  LET mismatch == AlgoVersion(library.algos) # v
  IN  /\ Asks(h, "idle")
      /\ isAlgorithmNeeded' = SetOnMismatch(isAlgorithmNeeded, mismatch)
      /\ told' = IF mismatch THEN told \cup {h} ELSE told
      /\ UNCHANGED <<library, localVars, faultVars>>

-----------------------------------------------------------------------------
(* handleAlgoRequest() up to its chunk loop *)

AlgoRequest(h) ==
  /\ Asks(h, "load")
  /\ file' = [file EXCEPT ![h] = "algo"]
  /\ UNCHANGED <<library, isAlgorithmNeeded, document, carries, loopVars, told, faultVars>>

LoadAlgo(h, d) ==
  /\ d.state # "broken"
  /\ Goes(h, "load", "test")
  /\ document' = [document EXCEPT ![h] = d]
  /\ UNCHANGED <<library, isAlgorithmNeeded, file, carries, loopVars, told, requests,
                 faultVars>>

(* No such file, or text that is not JSON: an exception. *)
LoadFails(h) ==
  /\ Goes(h, "load", "refuse")
  /\ UNCHANGED <<library, isAlgorithmNeeded, localVars, told, requests, faultVars>>

Load(h) == (\E i \in DOMAIN library.algos : LoadAlgo(h, library.algos[i])) \/ LoadFails(h)

TestNeeded(h) ==
  /\ Goes(h, "test", IF isAlgorithmNeeded THEN "take" ELSE "filter")
  /\ UNCHANGED <<library, isAlgorithmNeeded, localVars, told, requests, faultVars>>

(* The flag is taken back for every device that waits for the algorithm. *)
TakeNeeded(h) ==
  /\ Goes(h, "take", "filter")
  /\ isAlgorithmNeeded' = FALSE
  /\ carries' = [carries EXCEPT ![h] = TRUE]
  /\ told' = told \cap {h}
  /\ UNCHANGED <<library, file, document, loopVars, requests, faultVars>>

(* The chunk loop begins with a total of n. *)
BeginLoop(h, n) ==
  /\ total' = [total EXCEPT ![h] = n]
  /\ remain' = [remain EXCEPT ![h] = n]
  /\ UNCHANGED <<offset, position, chunk, acked>>

(* The meat types of the company; an entry without its numbers throws. *)
Filter(h) ==
  /\ document[h].state = "good"
  /\ Goes(h, "filter", "loop")
  /\ \E n \in AlgoSizes : BeginLoop(h, n)
  /\ UNCHANGED <<library, isAlgorithmNeeded, file, document, carries, told, requests, faultVars>>

FilterThrows(h) ==
  /\ document[h].state # "good"
  /\ Goes(h, "filter", "refuse")
  /\ UNCHANGED <<library, isAlgorithmNeeded, localVars, told, requests, faultVars>>

-----------------------------------------------------------------------------
(* handleFirmwareRequest() up to its chunk loop *)

FirmwareRequest(h) ==
  /\ Asks(h, "seek")
  /\ file' = [file EXCEPT ![h] = "dfu"]
  /\ UNCHANGED <<library, isAlgorithmNeeded, document, carries, loopVars, told, faultVars>>

Seek(h) ==
  /\ Goes(h, "seek", "loop")
  /\ BeginLoop(h, library.dfu)
  /\ UNCHANGED <<library, isAlgorithmNeeded, file, document, carries, told, requests, faultVars>>

(* open() or lseek() fails. *)
SeekFails(h) ==
  /\ Goes(h, "seek", "refuse")
  /\ UNCHANGED <<library, isAlgorithmNeeded, localVars, told, requests, faultVars>>

-----------------------------------------------------------------------------
(* The chunk loops *)

Smaller(m, n) == IF m < n THEN m ELSE n

(* What the next memcpy() or read() brings. *)
Available(h) ==
  CASE file[h] = "algo" -> Smaller(remain[h], MaxChunk)
    [] file[h] = "dfu" /\ library.dfu > position[h] ->
         Smaller(library.dfu - position[h], MaxChunk)
    [] OTHER -> 0

(* Mutant: the variables of the loop are wider than uint32_t, and signed. *)
Wide(n) == n
Wrap(n) == n % Word

(* remain -= length, offset += length, in uint32_t. *)
Advance(h, length) ==
  /\ chunk' = [chunk EXCEPT ![h] =
                 [from |-> position[h], offset |-> offset[h], length |-> length]]
  /\ remain' = [remain EXCEPT ![h] = Wrap(@ - length)]
  /\ offset' = [offset EXCEPT ![h] = Wrap(@ + length)]

NextChunk(h) ==
  /\ remain[h] > 0
  /\ Available(h) > 0
  /\ Goes(h, "loop", "send")
  /\ Advance(h, Available(h))
  /\ position' = [position EXCEPT ![h] = @ + Available(h)]
  /\ UNCHANGED <<library, isAlgorithmNeeded, file, document, carries, total, acked, told,
                 requests, faultVars>>

(* Mutant: an end of file that comes too early is taken for a chunk. *)
GoesOn == "loop"
GivesUp == "refuse"

(* read() returns 0: the file has become shorter, or longer and remain has
   wrapped below zero. *)
EndOfFile(h) ==
  /\ remain[h] > 0
  /\ Available(h) = 0
  /\ Goes(h, "loop", GivesUp)
  /\ UNCHANGED <<library, isAlgorithmNeeded, localVars, told, requests, faultVars>>

(* read() returns -1, which the uint32_t readSize takes for a length.  What
   such a message does to the link is outside this module: the device may
   acknowledge it or not. *)
ReadError(h) ==
  /\ remain[h] > 0
  /\ file[h] = "dfu"
  /\ readErrors < MaxReadErrors
  /\ readErrors' = readErrors + 1
  /\ Goes(h, "loop", "send")
  /\ Advance(h, Word - 1)
  /\ UNCHANGED <<library, isAlgorithmNeeded, file, document, carries, total, position, acked,
                 told, requests, changes, lostChunks>>

SendAcked(h) ==
  /\ Goes(h, "send", "loop")
  /\ acked' = [acked EXCEPT ![h] = Append(@, chunk[h])]
  /\ UNCHANGED <<library, isAlgorithmNeeded, file, document, carries, total, remain, offset,
                 position, chunk, told, requests, faultVars>>

(* Mutant: the result of amilinkSendMessage() is ignored. *)
Ignored == "loop"
Refused == "refuse"

SendLost(h) ==
  /\ lostChunks < MaxLost
  /\ lostChunks' = lostChunks + 1
  /\ Goes(h, "send", Refused)
  /\ UNCHANGED <<library, isAlgorithmNeeded, localVars, told, requests, changes, readErrors>>

(* The handler returns to connectionHandler(), its variables are gone. *)
Return(h, from) ==
  /\ Goes(h, from, "idle")
  /\ file' = [file EXCEPT ![h] = "none"]
  /\ document' = [document EXCEPT ![h] = NoDocument]
  /\ carries' = [carries EXCEPT ![h] = FALSE]
  /\ total' = [total EXCEPT ![h] = 0]
  /\ remain' = [remain EXCEPT ![h] = 0]
  /\ offset' = [offset EXCEPT ![h] = 0]
  /\ position' = [position EXCEPT ![h] = 0]
  /\ chunk' = [chunk EXCEPT ![h] = NoChunk]
  /\ acked' = [acked EXCEPT ![h] = <<>>]
  /\ told' = IF carries[h] THEN told \ {h} ELSE told
  /\ UNCHANGED <<library, isAlgorithmNeeded, requests, faultVars>>

Finished(h) == pc[h] = "loop" /\ remain[h] = 0
Finish(h) == Finished(h) /\ Return(h, "loop")

(* The zero response; whether it is acknowledged is not looked at. *)
FileErrorResponse(h) == Return(h, "refuse")

-----------------------------------------------------------------------------
(* The administrator, external *)
Change ==
  /\ changes < MaxChanges
  /\ changes' = changes + 1
  /\ library' \in Libraries \ {library}
  /\ UNCHANGED <<isAlgorithmNeeded, pc, localVars, told, requests, readErrors, lostChunks>>

Request(h) == (\E v \in Versions : VersionRequest(h, v)) \/ AlgoRequest(h) \/ FirmwareRequest(h)

HandlerStep(h) ==
  \/ Load(h) \/ TestNeeded(h) \/ TakeNeeded(h) \/ Filter(h) \/ FilterThrows(h)
  \/ Seek(h) \/ SeekFails(h)
  \/ NextChunk(h) \/ EndOfFile(h) \/ ReadError(h) \/ SendAcked(h) \/ SendLost(h)
  \/ Finish(h) \/ FileErrorResponse(h)

Next == (\E h \in Handler : Request(h) \/ HandlerStep(h)) \/ Change

Spec == Init /\ [][Next]_vars

(* A handler with a request is scheduled, and its sends come to an end. *)
Fairness == \A h \in Handler : WF_vars(HandlerStep(h))
FairSpec == Spec /\ Fairness

-----------------------------------------------------------------------------
(* What a device can rely on. *)

(* The chunks s are the bytes 0..n-1 of the file, each once and in order. *)
Tiles(s, n) ==
  /\ \A i \in DOMAIN s :
       /\ s[i].offset = s[i].from
       /\ s[i].offset = IF i = 1 THEN 0 ELSE s[i - 1].offset + s[i - 1].length
  /\ n = IF s = <<>> THEN 0 ELSE s[Len(s)].offset + s[Len(s)].length

(* A transfer that is not refused has brought the whole file, as long as it
   was when the transfer began: an unacknowledged chunk, a file that is cut
   or grows under the loop, and the wrapping of remain that follows, all end
   in the zero response.  So does an error of read(), which adds one to
   remain, unless the file also grows at that time. *)
WholeOrRefused ==
  (readErrors = 0 \/ changes = 0) => \A h \in Handler : Finished(h) => Tiles(acked[h], total[h])

(* A device that was told of another version finds the algorithm in the next
   file that is made for it, unless a file with the algorithm was begun
   meanwhile, for whichever device and with whatever end: no device that is up
   to date takes the flag back. *)
AlgorithmDelivered ==
  \A h \in Handler : (pc[h] = "filter" /\ h \in told) => carries[h]

(* Every request comes to its end: the wrapped remain of a file that grew
   does not keep the loop going for ever. *)
RequestsEnd == \A h \in Handler : pc[h] # "idle" ~> pc[h] = "idle"
=============================================================================
