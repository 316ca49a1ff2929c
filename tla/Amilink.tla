------------------------------ MODULE Amilink ------------------------------
(***************************************************************************)
(* The stop-and-wait link of src/socket-utilities between a device, which  *)
(* calls amilinkGetResponse(), and its connectionHandler().  Both ends run *)
(* the same functions: linkSendRetry() sends a data frame until it is      *)
(* acknowledged, readMessage() acknowledges what it reads, readFrame()     *)
(* skips heartbeats.  Frames carry a checksum and no number.               *)
(*                                                                         *)
(* TCP keeps the bytes in order.  What goes wrong is that IPUtilSendData() *)
(* leaves out the rest of a frame when the socket has no room, and that an *)
(* answer comes later than the reader waits.  Messages are told apart by a *)
(* number here, which the code does not send.                              *)
(***************************************************************************)
EXTENDS Integers, Sequences, SequencesExt

CONSTANTS
  MaxRequests,  \* bound: calls of amilinkGetResponse()
  RetryMax,     \* MQS_CLD_RETRY_MAX
  MaxLate,      \* bound: answers that come too late
  MaxCuts,      \* bound: frames sent in part
  MaxBeats      \* bound: heartbeats of the device

ASSUME AmilinkAssumption ==
  /\ MaxRequests \in Nat
  /\ RetryMax \in Nat \ {0}
  /\ MaxLate \in Nat
  /\ MaxCuts \in Nat
  /\ MaxBeats \in Nat

End == {"device", "server"}
Other(e) == IF e = "device" THEN "server" ELSE "device"

Garbage == 0   \* the contents of a message nothing was read into
Request == 1..MaxRequests
Message == Request \cup {Garbage}

(* A cut frame lacks its end; garbled is one whose checksum is wrong. *)
Cmd == {"data", "ack", "nack", "heartbeat", "cut", "garbled"}
Frame == [cmd : Cmd, msg : Message]
Data(m) == [cmd |-> "data", msg |-> m]
Header(cmd) == [cmd |-> cmd, msg |-> Garbage]
Cut == Header("cut")
Garbled == Header("garbled")

VARIABLES
  wire,      \* the frames on their way to each end
  pc,        \* each end: idle, in readAck(), in readMessage(), handling, closed
  retry,     \* the counter of linkSendRetry() or amilinkReadMessage()
  sending,   \* the message each end is sending or has sent last
  request,   \* `request` of connectionHandler()
  received,  \* the requests that arrived with the right checksum
  handled,   \* what handleRequest() was called with
  unanswered, \* the requests handleRequest() has sent no response to
  result,    \* what each call of amilinkGetResponse() has read
  late, cuts, beats

vars == <<wire, pc, retry, sending, request, received, handled, unanswered, result,
          late, cuts, beats>>
app == <<request, received, handled, unanswered, result>>

TypeOK ==
  /\ wire \in [End -> Seq(Frame)]
  /\ pc \in [End -> {"idle", "ack", "read", "handle", "closed"}]
  /\ pc["device"] \in {"idle", "ack", "read"}
  /\ retry \in [End -> 0..RetryMax]
  /\ sending \in [End -> Message]
  /\ request \in Message
  /\ received \in Seq(Request)
  /\ handled \in Seq(Message)
  /\ unanswered \subseteq Message
  /\ result \in [Request -> Message]
  /\ late \in 0..MaxLate /\ cuts \in 0..MaxCuts /\ beats \in 0..MaxBeats

Init ==
  /\ wire = [e \in End |-> <<>>]
  /\ pc = [e \in End |-> "idle"]
  /\ retry = [e \in End |-> 0]
  /\ sending = [e \in End |-> Garbage]
  /\ request = Garbage
  /\ received = <<>> /\ handled = <<>> /\ unanswered = {}
  /\ result = [m \in Request |-> Garbage]
  /\ late = 0 /\ cuts = 0 /\ beats = 0

-----------------------------------------------------------------------------
(* IPUtilSendData().  What follows a cut frame runs into it. *)

Joined(s, f) ==
  IF s # <<>> /\ Last(s) = Cut
  THEN Append(Front(s), IF f = Cut THEN Cut ELSE Garbled)
  ELSE Append(s, f)

SentWhole(w, e, f) ==
  /\ wire' = [w EXCEPT ![Other(e)] = Joined(@, f)]
  /\ cuts' = cuts

(* The socket has room for a part of it, or for nothing. *)
SentInPart(w, e) ==
  /\ cuts < MaxCuts
  /\ cuts' = cuts + 1
  /\ wire' \in {w, [w EXCEPT ![Other(e)] = Joined(@, Cut)]}

(* Nobody looks at the count but amilinkHeartbeat(). *)
Sent(w, e, f) == SentWhole(w, e, f) \/ SentInPart(w, e)

(* The wires when e has read the first frame. *)
Taken(e) == [wire EXCEPT ![e] = Tail(@)]

(* Mutant: a heartbeat is an answer like any other. *)
NothingSkipped == {}
Skipped == {"heartbeat"}

(* Mutant: the checksum is not compared. *)
ReadsUnchecked(e, where, cmds) ==
  /\ pc[e] = where
  /\ wire[e] # <<>>
  /\ LET cmd == Head(wire[e]).cmd
     IN  (IF cmd = "garbled" THEN "data" ELSE cmd) \in cmds \ (Skipped \cup {"cut"})

(* readFrame() returns a frame of one of these kinds to e. *)
Reads(e, where, cmds) ==
  /\ pc[e] = where
  /\ wire[e] # <<>>
  /\ Head(wire[e]).cmd \in cmds \ (Skipped \cup {"cut"})

SkipHeartbeat(e) ==
  /\ pc[e] \in {"ack", "read"}
  /\ wire[e] # <<>>
  /\ Head(wire[e]).cmd \in Skipped
  /\ wire' = Taken(e)
  /\ UNCHANGED <<pc, retry, sending, app, late, cuts, beats>>

(* End e has nothing to answer: it is gone, reads nothing outside its calls,
   or sees no frame. *)
Quiet(e) ==
  \/ pc[e] = "closed"
  \/ e = "device" /\ pc[e] = "idle"
  \/ pc[e] # "handle" /\ wire[e] \in {<<>>, <<Cut>>}

(* MQS_CLD_MESSAGE_TIMEOUT is over: no answer was to come, or it is late.
   Bytes read so far are dropped. *)
TimesOut(e, where) ==
  /\ pc[e] = where
  /\ wire[e] \in {<<>>, <<Cut>>}
  /\ \/ Quiet(Other(e)) /\ late' = late
     \/ ~Quiet(Other(e)) /\ late < MaxLate /\ late' = late + 1

Dropped(e) == [wire EXCEPT ![e] = <<>>]

-----------------------------------------------------------------------------
(* linkSendRetry() and linkSendData() *)

(* Mutant: one attempt too many. *)
RetriesOnceMore(e) == retry[e] <= RetryMax
MayRetry(e) == retry[e] < RetryMax

SendFirst(e, m) ==
  /\ Sent(wire, e, Data(m))
  /\ sending' = [sending EXCEPT ![e] = m]
  /\ retry' = [retry EXCEPT ![e] = 1]
  /\ pc' = [pc EXCEPT ![e] = "ack"]

(* Not acknowledged: send it again, or return 0. *)
SendAgain(e, w) ==
  /\ \/ /\ MayRetry(e)
        /\ Sent(w, e, Data(sending[e]))
        /\ retry' = [retry EXCEPT ![e] = @ + 1]
        /\ UNCHANGED pc
     \/ /\ ~MayRetry(e)
        /\ wire' = w
        /\ pc' = [pc EXCEPT ![e] = "idle"]
        /\ UNCHANGED <<cuts, retry>>
  /\ UNCHANGED <<sending, app, beats>>

(* amilinkGetResponse() *)
Call ==
  /\ pc["device"] = "idle"
  /\ sending["device"] < MaxRequests
  /\ SendFirst("device", sending["device"] + 1)
  /\ UNCHANGED <<app, late, beats>>

(* Mutant: readAck() leaves the frame to the next readMessage(). *)
PutBack(e) == wire
Discarded(e) == Taken(e)

(* readAck() has read something else, which is gone. *)
NoAck(e) ==
  /\ Reads(e, "ack", Cmd \ {"ack"})
  /\ SendAgain(e, Discarded(e))
  /\ UNCHANGED late

AckTimeout(e) == TimesOut(e, "ack") /\ SendAgain(e, Dropped(e))

(* The device goes on to read the response; the handler is done with it. *)
DeviceAcked ==
  /\ Reads("device", "ack", {"ack"})
  /\ wire' = Taken("device")
  /\ pc' = [pc EXCEPT !["device"] = "read"]
  /\ retry' = [retry EXCEPT !["device"] = 1]
  /\ UNCHANGED <<sending, app, late, cuts, beats>>

ServerAcked ==
  /\ Reads("server", "ack", {"ack"})
  /\ wire' = Taken("server")
  /\ pc' = [pc EXCEPT !["server"] = "idle"]
  /\ UNCHANGED <<retry, sending, app, late, cuts, beats>>

-----------------------------------------------------------------------------
(* amilinkReadMessage() and readMessage() *)

(* epoll_wait() has reported the connection to its handler. *)
Wake ==
  /\ pc["server"] = "idle"
  /\ wire["server"] # <<>>
  /\ pc' = [pc EXCEPT !["server"] = "read"]
  /\ retry' = [retry EXCEPT !["server"] = 1]
  /\ UNCHANGED <<wire, sending, app, late, cuts, beats>>

(* The acknowledgement goes out before the message is handled. *)
ReadRequest ==
  /\ Reads("server", "read", {"data"})
  /\ Sent(Taken("server"), "server", Header("ack"))
  /\ request' = Head(wire["server"]).msg
  /\ received' = Append(received, request')
  /\ pc' = [pc EXCEPT !["server"] = "handle"]
  /\ UNCHANGED <<retry, sending, handled, unanswered, result, late, beats>>

(* messageLength is returned although the checksum is wrong; `request` is
   whatever is on the stack. *)
ReadGarbledRequest ==
  /\ Reads("server", "read", {"garbled"})
  /\ Sent(Taken("server"), "server", Header("nack"))
  /\ request' \in {request, Garbage}
  /\ pc' = [pc EXCEPT !["server"] = "handle"]
  /\ UNCHANGED <<retry, sending, received, handled, unanswered, result, late, beats>>

ReadResponse ==
  /\ Reads("device", "read", {"data"})
  /\ Sent(Taken("device"), "device", Header("ack"))
  /\ result' = [result EXCEPT ![sending["device"]] = Head(wire["device"]).msg]
  /\ pc' = [pc EXCEPT !["device"] = "idle"]
  /\ UNCHANGED <<retry, sending, request, received, handled, unanswered, late, beats>>

ReadGarbledResponse ==
  /\ Reads("device", "read", {"garbled"})
  /\ Sent(Taken("device"), "device", Header("nack"))
  /\ pc' = [pc EXCEPT !["device"] = "idle"]
  /\ UNCHANGED <<retry, sending, app, late, beats>>

(* Mutant: the loop does not count. *)
Uncounted(e) == retry[e]
NextRetry(e) == retry[e] + 1

(* readMessage() returns 0; w are the wires it leaves. *)
ReadAgain(e, w) ==
  /\ MayRetry(e)
  /\ wire' = w
  /\ retry' = [retry EXCEPT ![e] = NextRetry(e)]
  /\ UNCHANGED <<pc, sending, app, cuts, beats>>

DeviceGivesUp(w) ==
  /\ ~MayRetry("device")
  /\ wire' = w
  /\ pc' = [pc EXCEPT !["device"] = "idle"]
  /\ UNCHANGED <<retry, sending, app, cuts, beats>>

(* The handler sends a heartbeat, or ends when that fails or when the device
   has been inactive for a minute. *)
ServerGivesUp(w) ==
  /\ ~MayRetry("server")
  /\ \/ /\ SentWhole(w, "server", Header("heartbeat"))
        /\ pc' = [pc EXCEPT !["server"] = "idle"]
     \/ /\ SentInPart(w, "server")
        /\ pc' = [pc EXCEPT !["server"] = "closed"]
     \/ /\ wire' = w
        /\ cuts' = cuts
        /\ pc' = [pc EXCEPT !["server"] = "closed"]
  /\ UNCHANGED <<retry, sending, app, beats>>

NoMessage(e, w) ==
  \/ ReadAgain(e, w)
  \/ e = "device" /\ DeviceGivesUp(w)
  \/ e = "server" /\ ServerGivesUp(w)

(* A frame that is no data frame, or whose command is damaged. *)
ReadOther(e) ==
  /\ Reads(e, "read", Cmd \ {"data"})
  /\ NoMessage(e, Taken(e))
  /\ UNCHANGED late

ReadTimeout(e) == TimesOut(e, "read") /\ NoMessage(e, Dropped(e))

-----------------------------------------------------------------------------
(* handleRequest() *)

Handled == handled' = Append(handled, request)

Respond ==
  /\ pc["server"] = "handle"
  /\ Handled
  /\ SendFirst("server", request)
  /\ UNCHANGED <<request, received, unanswered, result, late, beats>>

(* No response, and none is waited for: a block of raw data that is not the last
   or is refused, a file name that is too short or of no known kind, a topic
   that is not known; or MQS_GOODBYE_REQUEST, after which the handler ends. *)
LeaveUnanswered ==
  /\ pc["server"] = "handle"
  /\ Handled
  /\ unanswered' = unanswered \cup {request}
  /\ \E next \in {"idle", "closed"} : pc' = [pc EXCEPT !["server"] = next]
  /\ UNCHANGED <<wire, retry, sending, request, received, result, late, cuts, beats>>

(* amilinkHeartbeat() of a device without request. *)
Heartbeat ==
  /\ pc["device"] = "idle"
  /\ beats < MaxBeats
  /\ beats' = beats + 1
  /\ Sent(wire, "device", Header("heartbeat"))
  /\ UNCHANGED <<pc, retry, sending, app, late>>

-----------------------------------------------------------------------------
Link(e) == SkipHeartbeat(e) \/ NoAck(e) \/ AckTimeout(e) \/ ReadOther(e) \/ ReadTimeout(e)

Device == Link("device") \/ DeviceAcked \/ ReadResponse \/ ReadGarbledResponse

Server ==
  \/ Link("server") \/ ServerAcked
  \/ Wake \/ ReadRequest \/ ReadGarbledRequest \/ Respond \/ LeaveUnanswered

Next == Device \/ Server \/ Call \/ Heartbeat

Spec == Init /\ [][Next]_vars

(* Both ends run on: every wait has a timeout. *)
FairSpec == Spec /\ WF_vars(Device) /\ WF_vars(Server)

-----------------------------------------------------------------------------
(* A link on which no frame is cut and no answer is late handles every
   request once and in order, whatever the heartbeats in between (readFrame(),
   linkSendRetry(), readMessage()).  A call reads its own response or none, and
   none, while the handler is there, only if the handler has left this request
   unanswered. *)
FaultlessExchange ==
  late = 0 /\ cuts = 0 =>
    /\ handled = [i \in 1..Len(handled) |-> i]
    /\ \A m \in Request : result[m] \in {Garbage, m}
    /\ pc["device"] = "idle" /\ pc["server"] # "closed" =>
         \A m \in 1..sending["device"] : result[m] = m \/ m \in unanswered

(* Frames have no number to tell a repetition by.  A request whose
   acknowledgement was lost is sent again, and the server drops the repetition
   only while it waits for the acknowledgement of its response (readAck()): two
   faults are never enough to make it read again a request that it answers.  One
   that it leaves unanswered it may read again after a single fault. *)
AnsweredReadOnce ==
  late + cuts <= 2 =>
    \A i, j \in DOMAIN received :
      received[i] = received[j] => i = j \/ received[i] \in unanswered

(* Whatever is cut or late, requests are received in order and again only before
   the next one, and a response that a call reads was made by the handler and is
   not older than one read before: each step is one of Exchange or changes
   nothing it sees. *)
Exchanged == INSTANCE Exchange WITH
               Request <- Request,
               Unasked <- Garbage,
               asked <- sending["device"],
               waiting <- pc["device"] # "idle"
ImplementsExchange == Exchanged!Spec

(* amilinkGetResponse() returns, answered or not. *)
CallsReturn == pc["device"] # "idle" ~> pc["device"] = "idle"

(* README.md promises "reliable data transmission": what handleRequest() is
   called with is what was received. *)
HandledIntact == IsPrefix(handled, received)
=============================================================================
