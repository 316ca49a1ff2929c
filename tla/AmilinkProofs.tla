--------------------------- MODULE AmilinkProofs ---------------------------
(* Theorems about Amilink for any number of calls, attempts, late answers and
   frames sent in part. *)
EXTENDS Amilink, TLAPS

-----------------------------------------------------------------------------
(* What is on a wire.  TCP keeps frames in order, so the data frames under way
   are ordered by their messages; a cut frame may make one unreadable, and that
   leaves the others in order. *)

GoodFrames(s, S, lo, hi) ==
  /\ s \in Seq(Frame)
  /\ \A i \in 1..Len(s) : s[i].cmd = "data" =>
       /\ s[i].msg \in S
       /\ s[i].msg # Garbage => lo <= s[i].msg /\ s[i].msg <= hi
  /\ \A i, j \in 1..Len(s) :
       (i < j /\ s[i].cmd = "data" /\ s[j].cmd = "data" /\ s[j].msg # Garbage)
         => s[i].msg <= s[j].msg

LEMMA ConstantFacts ==
  /\ MaxRequests \in Nat /\ RetryMax \in Nat /\ RetryMax > 0
  /\ MaxLate \in Nat /\ MaxCuts \in Nat /\ MaxBeats \in Nat
  /\ Message = 0..MaxRequests /\ Request \subseteq Message /\ Garbage = 0
  /\ Request = {m \in Message : m # 0}
  BY AmilinkAssumption DEF Message, Request, Garbage

LEMMA FrameFacts ==
  /\ \A m \in Message : Data(m) \in Frame /\ Data(m).cmd = "data" /\ Data(m).msg = m
  /\ \A cmd \in Cmd : Header(cmd) \in Frame /\ Header(cmd).cmd = cmd /\ Header(cmd).msg = Garbage
  /\ Cut \in Frame /\ Cut.cmd = "cut" /\ Garbled \in Frame /\ Garbled.cmd = "garbled"
  /\ \A f \in Frame : f.msg \in Nat
  BY ConstantFacts DEF Frame, Data, Header, Cut, Garbled, Cmd, Garbage, Message

LEMMA GoodNothing == \A S, lo, hi : GoodFrames(<<>>, S, lo, hi)
  BY DEF GoodFrames

LEMMA GoodWiden ==
  ASSUME NEW S, NEW lo \in Nat, NEW hi \in Nat, NEW s, GoodFrames(s, S, lo, hi),
         NEW T, S \subseteq T, NEW low \in Nat, low <= lo, NEW high \in Nat, hi <= high
  PROVE  GoodFrames(s, T, low, high)
<1>1. \A i \in 1..Len(s) : s[i].msg \in Nat
  BY FrameFacts DEF GoodFrames
<1> QED  BY <1>1 DEF GoodFrames

(* Reading the first frame. *)
LEMMA GoodTail ==
  ASSUME NEW S, NEW lo \in Nat, NEW hi \in Nat, NEW s, GoodFrames(s, S, lo, hi), s # <<>>
  PROVE  /\ GoodFrames(Tail(s), S, lo, hi)
         /\ Head(s) \in Frame
         /\ (Head(s).cmd = "data" /\ Head(s).msg # Garbage)
              => GoodFrames(Tail(s), S, Head(s).msg, hi)
         /\ Head(s).cmd = "data" =>
              /\ Head(s).msg \in S
              /\ Head(s).msg # Garbage => lo <= Head(s).msg /\ Head(s).msg <= hi
<1>1. /\ s \in Seq(Frame) /\ Len(s) \in Nat /\ Len(s) >= 1
      /\ Tail(s) \in Seq(Frame) /\ Len(Tail(s)) = Len(s) - 1
      /\ Head(s) = s[1] /\ s[1] \in Frame
      /\ \A i \in 1..Len(Tail(s)) : Tail(s)[i] = s[i + 1] /\ i + 1 \in 1..Len(s) /\ i + 1 > 1
  BY DEF GoodFrames
<1>2. \A i \in 1..Len(s) : s[i].cmd = "data" =>
        /\ s[i].msg \in S
        /\ s[i].msg # Garbage => lo <= s[i].msg /\ s[i].msg <= hi
  BY DEF GoodFrames
<1>3. \A i, j \in 1..Len(s) :
        (i < j /\ s[i].cmd = "data" /\ s[j].cmd = "data" /\ s[j].msg # Garbage)
          => s[i].msg <= s[j].msg
  BY DEF GoodFrames
<1>4. \A i, j \in 1..Len(Tail(s)) :
        (i < j /\ Tail(s)[i].cmd = "data" /\ Tail(s)[j].cmd = "data" /\ Tail(s)[j].msg # Garbage)
          => Tail(s)[i].msg <= Tail(s)[j].msg
  <2> SUFFICES ASSUME NEW i \in 1..Len(Tail(s)), NEW j \in 1..Len(Tail(s)), i < j,
                      Tail(s)[i].cmd = "data", Tail(s)[j].cmd = "data", Tail(s)[j].msg # Garbage
               PROVE  Tail(s)[i].msg <= Tail(s)[j].msg
    OBVIOUS
  <2>1. i + 1 < j + 1
    OBVIOUS
  <2> QED  BY <1>1, <1>3, <2>1
<1>5. GoodFrames(Tail(s), S, lo, hi)
  BY <1>1, <1>2, <1>4 DEF GoodFrames
<1>6. ASSUME Head(s).cmd = "data", Head(s).msg # Garbage
      PROVE  GoodFrames(Tail(s), S, Head(s).msg, hi)
  <2>1. \A i \in 1..Len(Tail(s)) :
          (Tail(s)[i].cmd = "data" /\ Tail(s)[i].msg # Garbage) => Head(s).msg <= Tail(s)[i].msg
    BY <1>1, <1>3, <1>6
  <2> QED  BY <1>5, <2>1 DEF GoodFrames
<1> QED  BY <1>1, <1>2, <1>5, <1>6

(* Sending a frame that is the newest, or no data. *)
LEMMA GoodAppend ==
  ASSUME NEW S, NEW lo \in Nat, NEW hi \in Nat, lo <= hi, NEW s, GoodFrames(s, S, lo, hi),
         NEW f \in Frame, f.cmd = "data" => (f.msg \in S /\ f.msg \in {Garbage, hi})
  PROVE  GoodFrames(Append(s, f), S, lo, hi)
<1> DEFINE t == Append(s, f)
<1>1. /\ s \in Seq(Frame) /\ Len(s) \in Nat
      /\ t \in Seq(Frame) /\ Len(t) = Len(s) + 1 /\ t[Len(s) + 1] = f
      /\ \A i \in 1..Len(s) : t[i] = s[i]
  BY DEF GoodFrames
<1> HIDE DEF t
<1>2. \A i \in 1..Len(t) : i \in 1..Len(s) \/ i = Len(s) + 1
  BY <1>1
<1>3. \A i \in 1..Len(t) : t[i].cmd = "data" =>
        /\ t[i].msg \in S
        /\ t[i].msg # Garbage => lo <= t[i].msg /\ t[i].msg <= hi
  BY <1>1, <1>2 DEF GoodFrames
<1>4. \A i, j \in 1..Len(t) :
        (i < j /\ t[i].cmd = "data" /\ t[j].cmd = "data" /\ t[j].msg # Garbage)
          => t[i].msg <= t[j].msg
  <2> SUFFICES ASSUME NEW i \in 1..Len(t), NEW j \in 1..Len(t), i < j,
                      t[i].cmd = "data", t[j].cmd = "data", t[j].msg # Garbage
               PROVE  t[i].msg <= t[j].msg
    OBVIOUS
  <2>1. i \in 1..Len(s) /\ t[i] = s[i]
    BY <1>1, <1>2
  <2>2. CASE j \in 1..Len(s)
    BY <1>1, <2>1, <2>2 DEF GoodFrames
  <2>3. CASE j = Len(s) + 1
    <3>1. t[j].msg = hi /\ hi \in Nat
      BY <1>1, <2>3
    <3>2. t[i].msg = Garbage \/ t[i].msg <= hi
      BY <2>1 DEF GoodFrames
    <3> QED  BY <3>1, <3>2, ConstantFacts
  <2> QED  BY <1>2, <2>2, <2>3
<1> QED  BY <1>1, <1>3, <1>4 DEF GoodFrames, t

LEMMA GoodFront ==
  ASSUME NEW S, NEW lo, NEW hi, NEW s, GoodFrames(s, S, lo, hi), s # <<>>
  PROVE  GoodFrames(Front(s), S, lo, hi)
<1>1. /\ s \in Seq(Frame) /\ Len(s) \in Nat /\ Len(s) >= 1
      /\ Front(s) \in Seq(Frame) /\ Len(Front(s)) = Len(s) - 1
      /\ \A i \in 1..(Len(s) - 1) : Front(s)[i] = s[i]
  BY DEF GoodFrames, Front
<1> QED  BY <1>1 DEF GoodFrames

LEMMA GoodJoined ==
  ASSUME NEW S, NEW lo \in Nat, NEW hi \in Nat, lo <= hi, NEW s, GoodFrames(s, S, lo, hi),
         NEW f \in Frame, f.cmd = "data" => (f.msg \in S /\ f.msg \in {Garbage, hi})
  PROVE  GoodFrames(Joined(s, f), S, lo, hi)
<1>1. CASE s # <<>> /\ Last(s) = Cut
  <2>1. GoodFrames(Front(s), S, lo, hi)
    BY <1>1, GoodFront
  <2>2. GoodFrames(Append(Front(s), Cut), S, lo, hi)
    BY <2>1, GoodAppend, FrameFacts
  <2>3. GoodFrames(Append(Front(s), Garbled), S, lo, hi)
    BY <2>1, GoodAppend, FrameFacts
  <2> QED  BY <1>1, <2>2, <2>3 DEF Joined
<1>2. CASE ~(s # <<>> /\ Last(s) = Cut)
  BY <1>2, GoodAppend DEF Joined
<1> QED  BY <1>1, <1>2

-----------------------------------------------------------------------------
(* The inductive invariant.  Requests under way are not older than the last one
   received, responses under way were handled and are not older than what any
   call has read. *)

LastReceived == IF received = <<>> THEN Garbage ELSE received[Len(received)]
HandledOnes == {handled[i] : i \in DOMAIN handled}

DeviceKnows == pc["device"] # "idle" => sending["device"] \in Request
ServerKnows ==
  /\ request \in {Garbage, LastReceived}
  /\ pc["server"] = "ack" =>
       sending["server"] \in HandledOnes /\ sending["server"] \in {Garbage, LastReceived}
Bounded ==
  /\ LastReceived \in Message /\ LastReceived <= sending["device"]
  /\ \A m \in Request : result[m] <= LastReceived

RequestsOn(s) == GoodFrames(s, Request, LastReceived, sending["device"])
ResponsesOn(s) == \A m \in Request : GoodFrames(s, HandledOnes, result[m], LastReceived)

LinkInv ==
  /\ TypeOK /\ DeviceKnows /\ ServerKnows /\ Bounded
  /\ RequestsOn(wire["server"]) /\ ResponsesOn(wire["device"])

LEMMA LinkInit == Init => LinkInv
<1> SUFFICES ASSUME Init PROVE LinkInv
  OBVIOUS
<1>1. /\ wire = [e \in End |-> <<>>] /\ pc = [e \in End |-> "idle"]
      /\ sending = [e \in End |-> Garbage] /\ received = <<>> /\ handled = <<>>
      /\ request = Garbage /\ result = [m \in Request |-> Garbage]
  BY DEF Init
<1>2. TypeOK
  BY <1>1, ConstantFacts DEF Init, TypeOK, End, Message
<1>3. LastReceived = Garbage
  BY <1>1 DEF LastReceived
<1>4. DeviceKnows /\ ServerKnows /\ Bounded
  BY <1>1, <1>3, ConstantFacts DEF DeviceKnows, ServerKnows, Bounded, End
<1> QED  BY <1>1, <1>2, <1>4, GoodNothing DEF LinkInv, RequestsOn, ResponsesOn, End

(* One frame is sent, whole or in part, over wires from which something may have
   been read before. *)
LEMMA SentWires ==
  ASSUME NEW w \in [End -> Seq(Frame)], NEW e \in End, NEW f \in Frame, Sent(w, e, f),
         cuts \in 0..MaxCuts
  PROVE  /\ wire' \in [End -> Seq(Frame)] /\ wire'[e] = w[e] /\ cuts' \in 0..MaxCuts
         /\ \/ wire'[Other(e)] = w[Other(e)]
            \/ wire'[Other(e)] = Joined(w[Other(e)], f)
            \/ wire'[Other(e)] = Joined(w[Other(e)], Cut)
<1>1. Other(e) \in End /\ Other(e) # e
  BY DEF Other, End
<1>2. ASSUME NEW s \in Seq(Frame), NEW g \in Frame PROVE Joined(s, g) \in Seq(Frame)
  <2>1. s # <<>> => Front(s) \in Seq(Frame)
    BY DEF Front
  <2> QED  BY <2>1, FrameFacts DEF Joined
<1>3. CASE SentWhole(w, e, f)
  BY <1>1, <1>2, <1>3 DEF SentWhole
<1>4. CASE SentInPart(w, e)
  <2>1. cuts' \in 0..MaxCuts
    BY <1>4, ConstantFacts DEF SentInPart
  <2>2. Cut \in Frame /\ w[Other(e)] \in Seq(Frame)
    BY <1>1, FrameFacts
  <2>3. Joined(w[Other(e)], Cut) \in Seq(Frame)
    BY <1>2, <2>2
  <2>4. wire' = w \/ wire' = [w EXCEPT ![Other(e)] = Joined(w[Other(e)], Cut)]
    BY <1>4 DEF SentInPart
  <2> QED  BY <1>1, <2>1, <2>3, <2>4
<1> QED  BY <1>3, <1>4 DEF Sent

(* So good wires stay good. *)
LEMMA SentGood ==
  ASSUME NEW w \in [End -> Seq(Frame)], NEW e \in End, NEW f \in Frame, Sent(w, e, f),
         cuts \in 0..MaxCuts,
         NEW S, NEW lo \in Nat, NEW hi \in Nat, lo <= hi,
         GoodFrames(w[Other(e)], S, lo, hi),
         f.cmd = "data" => (f.msg \in S /\ f.msg \in {Garbage, hi})
  PROVE  GoodFrames(wire'[Other(e)], S, lo, hi)
<1>1. Cut \in Frame /\ Cut.cmd # "data"
  BY FrameFacts
<1>2. GoodFrames(Joined(w[Other(e)], Cut), S, lo, hi)
  BY <1>1, GoodJoined
<1>3. GoodFrames(Joined(w[Other(e)], f), S, lo, hi)
  BY GoodJoined
<1>4. \/ wire'[Other(e)] = w[Other(e)]
      \/ wire'[Other(e)] = Joined(w[Other(e)], f)
      \/ wire'[Other(e)] = Joined(w[Other(e)], Cut)
  BY SentWires
<1> QED  BY <1>2, <1>3, <1>4

-----------------------------------------------------------------------------
(* Steps.  Most of them touch the wires and the places of the two ends only. *)

Wires(w) ==
  /\ w \in [End -> Seq(Frame)]
  /\ RequestsOn(w["server"])
  /\ ResponsesOn(w["device"])
Places ==
  /\ pc \in [End -> {"idle", "ack", "read", "handle", "closed"}]
  /\ pc["device"] \in {"idle", "ack", "read"}
Counters ==
  /\ retry \in [End -> 0..RetryMax]
  /\ late \in 0..MaxLate /\ cuts \in 0..MaxCuts /\ beats \in 0..MaxBeats

LEMMA InvFacts ==
  ASSUME LinkInv
  PROVE  /\ Wires(wire) /\ Places /\ Counters
         /\ sending \in [End -> Message] /\ request \in Message
         /\ received \in Seq(Request) /\ handled \in Seq(Message)
         /\ result \in [Request -> Message] /\ unanswered \subseteq Message
         /\ DeviceKnows /\ ServerKnows /\ Bounded
         /\ LastReceived \in Nat /\ sending["device"] \in Nat /\ LastReceived <= sending["device"]
         /\ \A m \in Request : result[m] \in Nat /\ result[m] <= LastReceived
<1>1. TypeOK /\ Bounded
  BY DEF LinkInv
<1>2. Message \subseteq Nat /\ "device" \in End
  BY ConstantFacts DEF End
<1>3. /\ LastReceived \in Nat /\ sending["device"] \in Nat /\ LastReceived <= sending["device"]
      /\ \A m \in Request : result[m] \in Nat /\ result[m] <= LastReceived
  BY <1>1, <1>2 DEF TypeOK, Bounded
<1> QED  BY <1>1, <1>3 DEF LinkInv, TypeOK, Wires, Places, Counters

LEMMA QuietKeeps ==
  ASSUME LinkInv, UNCHANGED <<sending, received, handled, unanswered, result>>, Wires(wire'),
         request' \in {request, Garbage}, Places', Counters',
         pc'["device"] # "idle" => pc["device"] # "idle",
         pc'["server"] = "ack" => pc["server"] = "ack"
  PROVE  LinkInv'
<1>1. /\ sending' \in [End -> Message] /\ request' \in Message
      /\ received' \in Seq(Request) /\ handled' \in Seq(Message)
      /\ result' \in [Request -> Message] /\ unanswered' \subseteq Message
  BY InvFacts, ConstantFacts
<1>2. LastReceived' = LastReceived /\ HandledOnes' = HandledOnes
  BY DEF LastReceived, HandledOnes
<1>3. Wires(wire)'
  BY <1>2 DEF Wires, RequestsOn, ResponsesOn
<1>4. DeviceKnows' /\ ServerKnows' /\ Bounded'
  BY <1>2, InvFacts DEF DeviceKnows, ServerKnows, Bounded
<1> QED  BY <1>1, <1>3, <1>4 DEF LinkInv, TypeOK, Wires, Places, Counters

LEMMA EndFacts ==
  /\ End = {"device", "server"} /\ Other("device") = "server" /\ Other("server") = "device"
  /\ \A e \in End : Other(e) \in End /\ Other(e) # e
  BY DEF End, Other

LEMMA WiresTaken ==
  ASSUME LinkInv, NEW e \in End, wire[e] # <<>>
  PROVE  Wires(Taken(e)) /\ Head(wire[e]) \in Frame /\ Tail(wire[e]) \in Seq(Frame)
<1>1. wire \in [End -> Seq(Frame)]
  BY InvFacts DEF Wires
<1>2. Head(wire[e]) \in Frame /\ Tail(wire[e]) \in Seq(Frame)
  BY <1>1
<1>3. Taken(e) \in [End -> Seq(Frame)]
  BY <1>1, <1>2 DEF Taken
<1>4. RequestsOn(Taken(e)["server"])
  <2>1. CASE e = "server"
    <3>1. RequestsOn(Tail(wire["server"]))
      BY <2>1, InvFacts, GoodTail DEF Wires, RequestsOn
    <3> QED  BY <1>1, <2>1, <3>1 DEF Taken
  <2>2. CASE e # "server"
    BY <1>1, <2>2, InvFacts, EndFacts DEF Taken, Wires
  <2> QED  BY <2>1, <2>2
<1>5. ResponsesOn(Taken(e)["device"])
  <2>1. CASE e = "device"
    <3>1. ResponsesOn(Tail(wire["device"]))
      BY <2>1, InvFacts, GoodTail DEF Wires, ResponsesOn
    <3> QED  BY <1>1, <2>1, <3>1 DEF Taken
  <2>2. CASE e # "device"
    BY <1>1, <2>2, InvFacts, EndFacts DEF Taken, Wires
  <2> QED  BY <2>1, <2>2
<1> QED  BY <1>2, <1>3, <1>4, <1>5 DEF Wires

LEMMA WiresDropped ==
  ASSUME LinkInv, NEW e \in End
  PROVE  Wires(Dropped(e))
<1>1. wire \in [End -> Seq(Frame)] /\ RequestsOn(wire["server"]) /\ ResponsesOn(wire["device"])
  BY InvFacts DEF Wires
<1>2. RequestsOn(<<>>) /\ ResponsesOn(<<>>) /\ <<>> \in Seq(Frame)
  BY GoodNothing DEF RequestsOn, ResponsesOn
<1> QED  BY <1>1, <1>2, EndFacts DEF Dropped, Wires

(* What end e may send. *)
Newest(e, f) ==
  f.cmd = "data" =>
    IF e = "device" THEN f.msg \in Request /\ f.msg = sending["device"]
    ELSE f.msg \in HandledOnes /\ f.msg \in {Garbage, LastReceived}

LEMMA WiresSent ==
  ASSUME LinkInv, NEW w, Wires(w), NEW e \in End, NEW f \in Frame, Newest(e, f), Sent(w, e, f)
  PROVE  Wires(wire') /\ cuts' \in 0..MaxCuts
<1>1. w \in [End -> Seq(Frame)] /\ cuts \in 0..MaxCuts
  BY InvFacts DEF Wires, Counters
<1>2. wire' \in [End -> Seq(Frame)] /\ wire'[e] = w[e] /\ cuts' \in 0..MaxCuts
  BY <1>1, SentWires
<1>3. CASE e = "device"
  <2>1. RequestsOn(w["server"]) /\ ResponsesOn(w["device"])
    BY DEF Wires
  <2>2. RequestsOn(wire'["server"])
    BY <1>1, <1>3, <2>1, SentGood, InvFacts, EndFacts DEF RequestsOn, Newest
  <2> QED  BY <1>2, <1>3, <2>1, <2>2 DEF Wires
<1>4. CASE e = "server"
  <2>1. RequestsOn(w["server"]) /\ ResponsesOn(w["device"])
    BY DEF Wires
  <2>2. ASSUME NEW m \in Request
        PROVE  GoodFrames(wire'["device"], HandledOnes, result[m], LastReceived)
    BY <1>1, <1>4, <2>1, SentGood, InvFacts, EndFacts DEF ResponsesOn, Newest
  <2> QED  BY <1>2, <1>4, <2>1, <2>2 DEF Wires, ResponsesOn
<1> QED  BY <1>2, <1>3, <1>4, EndFacts

LEMMA HeaderNewest ==
  \A e \in End, cmd \in Cmd \ {"data"} : Header(cmd) \in Frame /\ Newest(e, Header(cmd))
  BY FrameFacts DEF Newest

LEMMA RetryStarts ==
  ASSUME LinkInv, NEW e \in End, retry' = [retry EXCEPT ![e] = 1]
  PROVE  retry' \in [End -> 0..RetryMax]
<1>1. retry \in [End -> 0..RetryMax]
  BY InvFacts DEF Counters
<1>2. 1 \in 0..RetryMax
  BY ConstantFacts
<1> QED  BY <1>1, <1>2

LEMMA RetryCounts ==
  ASSUME LinkInv, NEW e \in End, MayRetry(e), retry' = [retry EXCEPT ![e] = retry[e] + 1]
  PROVE  retry' \in [End -> 0..RetryMax]
<1>1. retry \in [End -> 0..RetryMax] /\ RetryMax \in Nat
  BY InvFacts, ConstantFacts DEF Counters
<1>2. retry[e] + 1 \in 0..RetryMax
  BY <1>1 DEF MayRetry
<1> QED  BY <1>1, <1>2

LEMMA AgainKeeps ==
  ASSUME LinkInv, NEW e \in End, NEW w, Wires(w), pc[e] = "ack", SendAgain(e, w),
         late' \in 0..MaxLate
  PROVE  LinkInv'
<1>1. /\ UNCHANGED <<sending, request, received, handled, unanswered, result>> /\ beats' = beats
  BY DEF SendAgain, app
<1>2. CASE MayRetry(e) /\ Sent(w, e, Data(sending[e])) /\ UNCHANGED pc
           /\ retry' = [retry EXCEPT ![e] = retry[e] + 1]
  <2>1. sending[e] \in Message /\ Data(sending[e]) \in Frame
    BY InvFacts, FrameFacts
  <2>2. Newest(e, Data(sending[e]))
    BY <2>1, InvFacts, FrameFacts, EndFacts DEF Newest, DeviceKnows, ServerKnows
  <2>3. Wires(wire') /\ cuts' \in 0..MaxCuts
    BY <1>2, <2>1, <2>2, WiresSent
  <2>4. Places' /\ Counters'
    <3>1. retry' \in [End -> 0..RetryMax]
      BY <1>2, RetryCounts
    <3> QED  BY <1>1, <1>2, <2>3, <3>1, InvFacts DEF Places, Counters
  <2> QED  BY <1>1, <1>2, <2>3, <2>4, QuietKeeps
<1>3. CASE wire' = w /\ pc' = [pc EXCEPT ![e] = "idle"] /\ UNCHANGED <<cuts, retry>>
  <2>1. Places' /\ Counters'
    BY <1>1, <1>3, InvFacts, EndFacts DEF Places, Counters
  <2>2. /\ pc'["device"] # "idle" => pc["device"] # "idle"
        /\ pc'["server"] = "ack" => pc["server"] = "ack"
    BY <1>3, InvFacts, EndFacts DEF Places
  <2>3. Wires(wire')
    BY <1>3
  <2> QED  BY <1>1, <2>1, <2>2, <2>3, QuietKeeps
<1> QED  BY <1>2, <1>3 DEF SendAgain

LEMMA LateBounded ==
  ASSUME LinkInv, NEW e \in End, NEW where, TimesOut(e, where)
  PROVE  late' \in 0..MaxLate
<1>1. Counters /\ MaxLate \in Nat
  BY InvFacts, ConstantFacts
<1>2. late' = late \/ (late < MaxLate /\ late' = late + 1)
  BY DEF TimesOut
<1> QED  BY <1>1, <1>2 DEF Counters

LEMMA NoMessageKeeps ==
  ASSUME LinkInv, NEW e \in End, NEW w, Wires(w), pc[e] = "read", NoMessage(e, w),
         late' \in 0..MaxLate
  PROVE  LinkInv'
<1>1. CASE ReadAgain(e, w)
  <2>1. /\ UNCHANGED <<sending, request, received, handled, unanswered, result, pc>>
        /\ beats' = beats /\ cuts' = cuts /\ Wires(wire')
        /\ retry' = [retry EXCEPT ![e] = retry[e] + 1] /\ MayRetry(e)
    BY <1>1 DEF ReadAgain, NextRetry, app
  <2>2. Places' /\ Counters'
    <3>1. retry' \in [End -> 0..RetryMax]
      BY <2>1, RetryCounts
    <3> QED  BY <2>1, <3>1, InvFacts DEF Places, Counters
  <2> QED  BY <2>1, <2>2, QuietKeeps
<1>2. CASE e = "device" /\ DeviceGivesUp(w)
  <2>1. /\ UNCHANGED <<sending, request, received, handled, unanswered, result, retry>>
        /\ beats' = beats /\ cuts' = cuts /\ Wires(wire')
        /\ pc' = [pc EXCEPT !["device"] = "idle"]
    BY <1>2 DEF DeviceGivesUp, app
  <2>2. Places' /\ Counters' /\ pc'["device"] = "idle" /\ pc'["server"] = pc["server"]
    BY <2>1, InvFacts, EndFacts DEF Places, Counters
  <2> QED  BY <2>1, <2>2, QuietKeeps
<1>3. CASE e = "server" /\ ServerGivesUp(w)
  <2>1. /\ UNCHANGED <<sending, request, received, handled, unanswered, result, retry>> /\ beats' = beats
        /\ \E p \in {"idle", "closed"} : pc' = [pc EXCEPT !["server"] = p]
    BY <1>3 DEF ServerGivesUp, app
  <2>4. Wires(wire') /\ cuts' \in 0..MaxCuts
    <3>1. Sent(w, "server", Header("heartbeat")) \/ (wire' = w /\ cuts' = cuts)
      BY <1>3 DEF ServerGivesUp, Sent
    <3>2. CASE Sent(w, "server", Header("heartbeat"))
      <4>1. Header("heartbeat") \in Frame /\ Newest("server", Header("heartbeat"))
        BY HeaderNewest, EndFacts DEF Cmd
      <4> QED  BY <1>3, <3>2, <4>1, WiresSent
    <3>3. CASE wire' = w /\ cuts' = cuts
      BY <3>3, InvFacts DEF Counters
    <3> QED  BY <3>1, <3>2, <3>3
  <2>5. /\ Places' /\ Counters' /\ pc'["device"] = pc["device"] /\ pc'["server"] # "ack"
    BY <2>1, <2>4, InvFacts, EndFacts DEF Places, Counters
  <2> QED  BY <2>1, <2>4, <2>5, QuietKeeps
<1> QED  BY <1>1, <1>2, <1>3 DEF NoMessage

LEMMA LinkKeeps ==
  ASSUME LinkInv, NEW e \in End, Link(e)
  PROVE  LinkInv'
<1>1. CASE SkipHeartbeat(e)
  <2>1. Wires(wire')
    BY <1>1, WiresTaken DEF SkipHeartbeat
  <2>2. UNCHANGED <<pc, sending, request, received, handled, unanswered, result, retry, late, cuts, beats>>
    BY <1>1 DEF SkipHeartbeat, app
  <2>3. Places' /\ Counters'
    BY <2>2, InvFacts DEF Places, Counters
  <2> QED  BY <2>1, <2>2, <2>3, QuietKeeps
<1>2. CASE NoAck(e)
  <2>1. Wires(Discarded(e)) /\ pc[e] = "ack" /\ late' = late
    BY <1>2, WiresTaken DEF NoAck, Reads, Discarded
  <2> QED  BY <1>2, <2>1, AgainKeeps, InvFacts DEF NoAck, Counters
<1>3. CASE AckTimeout(e)
  <2>1. Wires(Dropped(e)) /\ pc[e] = "ack" /\ late' \in 0..MaxLate
    BY <1>3, WiresDropped, LateBounded DEF AckTimeout, TimesOut
  <2> QED  BY <1>3, <2>1, AgainKeeps DEF AckTimeout
<1>4. CASE ReadOther(e)
  <2>1. Wires(Taken(e)) /\ pc[e] = "read" /\ late' = late
    BY <1>4, WiresTaken DEF ReadOther, Reads
  <2> QED  BY <1>4, <2>1, NoMessageKeeps, InvFacts DEF ReadOther, Counters
<1>5. CASE ReadTimeout(e)
  <2>1. Wires(Dropped(e)) /\ pc[e] = "read" /\ late' \in 0..MaxLate
    BY <1>5, WiresDropped, LateBounded DEF ReadTimeout, TimesOut
  <2> QED  BY <1>5, <2>1, NoMessageKeeps DEF ReadTimeout
<1> QED  BY <1>1, <1>2, <1>3, <1>4, <1>5 DEF Link

(* Acknowledgements and wakeups move an end on. *)
LEMMA AckedKeeps ==
  ASSUME LinkInv, DeviceAcked \/ ServerAcked \/ Wake
  PROVE  LinkInv'
<1>1. UNCHANGED <<sending, request, received, handled, unanswered, result, late, cuts, beats>>
  BY DEF DeviceAcked, ServerAcked, Wake, app
<1>2. Wires(wire')
  BY InvFacts, WiresTaken, EndFacts DEF DeviceAcked, ServerAcked, Wake, Reads
<1>3. /\ \/ pc["device"] = "ack" /\ pc' = [pc EXCEPT !["device"] = "read"]
         \/ pc' = [pc EXCEPT !["server"] = "idle"]
         \/ pc' = [pc EXCEPT !["server"] = "read"]
      /\ retry' = retry \/ \E e \in End : retry' = [retry EXCEPT ![e] = 1]
  BY EndFacts DEF DeviceAcked, ServerAcked, Wake, Reads
<1>4. /\ Places'
      /\ pc'["device"] # "idle" => pc["device"] # "idle"
      /\ pc'["server"] = "ack" => pc["server"] = "ack"
  BY <1>3, InvFacts, EndFacts DEF Places
<1>5. retry' \in [End -> 0..RetryMax]
  <2>1. retry \in [End -> 0..RetryMax] /\ 1 \in 0..RetryMax
    BY InvFacts, ConstantFacts DEF Counters
  <2> QED  BY <1>3, <2>1
<1>6. Counters'
  BY <1>1, <1>5, InvFacts DEF Counters
<1> QED  BY <1>1, <1>2, <1>4, <1>6, QuietKeeps

LEMMA GarbledKeeps ==
  ASSUME LinkInv, ReadGarbledRequest \/ ReadGarbledResponse \/ Heartbeat
  PROVE  LinkInv'
<1>1. /\ UNCHANGED <<sending, received, handled, unanswered, result, retry, late>>
      /\ request' \in {request, Garbage}
  BY DEF ReadGarbledRequest, ReadGarbledResponse, Heartbeat, app
<1>2. Wires(wire') /\ cuts' \in 0..MaxCuts
  <2>1. CASE ReadGarbledRequest
    <3>1. wire["server"] # <<>> /\ Sent(Taken("server"), "server", Header("nack"))
      BY <2>1 DEF ReadGarbledRequest, Reads
    <3> QED  BY <3>1, WiresTaken, HeaderNewest, WiresSent, EndFacts DEF Cmd
  <2>2. CASE ReadGarbledResponse
    <3>1. wire["device"] # <<>> /\ Sent(Taken("device"), "device", Header("nack"))
      BY <2>2 DEF ReadGarbledResponse, Reads
    <3> QED  BY <3>1, WiresTaken, HeaderNewest, WiresSent, EndFacts DEF Cmd
  <2>3. CASE Heartbeat
    <3>1. Sent(wire, "device", Header("heartbeat"))
      BY <2>3 DEF Heartbeat
    <3> QED  BY <3>1, InvFacts, HeaderNewest, WiresSent, EndFacts DEF Cmd
  <2> QED  BY <2>1, <2>2, <2>3
<1>3. beats' \in 0..MaxBeats
  BY InvFacts, ConstantFacts DEF ReadGarbledRequest, ReadGarbledResponse, Heartbeat, Counters
<1>4. \/ pc' = pc
      \/ pc' = [pc EXCEPT !["server"] = "handle"]
      \/ pc' = [pc EXCEPT !["device"] = "idle"]
  BY DEF ReadGarbledRequest, ReadGarbledResponse, Heartbeat
<1>5. /\ Places' /\ Counters'
      /\ pc'["device"] # "idle" => pc["device"] # "idle"
      /\ pc'["server"] = "ack" => pc["server"] = "ack"
  BY <1>1, <1>2, <1>3, <1>4, InvFacts, EndFacts DEF Places, Counters
<1> QED  BY <1>1, <1>2, <1>5, QuietKeeps

(* The steps that move a request or a response on. *)
LEMMA CallKeeps == ASSUME LinkInv, Call PROVE LinkInv'
<1> DEFINE d == sending["device"]
<1>1. /\ pc["device"] = "idle" /\ d \in Nat /\ d + 1 \in Request /\ d + 1 \in Nat
      /\ Sent(wire, "device", Data(d + 1))
      /\ sending' = [sending EXCEPT !["device"] = d + 1]
      /\ retry' = [retry EXCEPT !["device"] = 1] /\ pc' = [pc EXCEPT !["device"] = "ack"]
      /\ UNCHANGED <<request, received, handled, unanswered, result, late, beats>>
  BY InvFacts, ConstantFacts DEF Call, SendFirst, Request, app
<1>2. /\ sending' \in [End -> Message] /\ sending'["device"] = d + 1
      /\ sending'["server"] = sending["server"]
  BY <1>1, InvFacts, EndFacts, ConstantFacts
<1>3. LastReceived' = LastReceived /\ HandledOnes' = HandledOnes
  BY <1>1 DEF LastReceived, HandledOnes
<1>4. Data(d + 1) \in Frame /\ Data(d + 1).cmd = "data" /\ Data(d + 1).msg = d + 1
  BY <1>1, FrameFacts, ConstantFacts
<1>5. wire \in [End -> Seq(Frame)] /\ cuts \in 0..MaxCuts
  BY InvFacts DEF Wires, Counters
<1>6. /\ wire' \in [End -> Seq(Frame)] /\ wire'["device"] = wire["device"]
      /\ cuts' \in 0..MaxCuts
  BY <1>1, <1>4, <1>5, SentWires, EndFacts
<1>7. GoodFrames(wire["server"], Request, LastReceived, d + 1)
  BY <1>1, GoodWiden, InvFacts DEF Wires, RequestsOn
<1>8. GoodFrames(wire'["server"], Request, LastReceived, d + 1)
  <2>1. LastReceived \in Nat /\ LastReceived <= d + 1
    BY <1>1, InvFacts
  <2>2. Other("device") = "server" /\ "device" \in End
    BY EndFacts
  <2> HIDE DEF d
  <2> QED  BY <1>1, <1>4, <1>5, <1>7, <2>1, <2>2, SentGood
<1>9. Wires(wire)'
  BY <1>2, <1>3, <1>1, <1>6, <1>8, InvFacts DEF Wires, RequestsOn, ResponsesOn
<1>10. Places' /\ Counters'
  <2>1. Places /\ Counters
    BY InvFacts
  <2>2. Places'
    BY <1>1, <2>1, EndFacts DEF Places
  <2>3. retry' \in [End -> 0..RetryMax]
    BY <1>1, RetryStarts, EndFacts
  <2> QED  BY <1>1, <1>6, <2>1, <2>2, <2>3 DEF Counters
<1>11. DeviceKnows' /\ ServerKnows' /\ Bounded'
  BY <1>1, <1>2, <1>3, InvFacts, EndFacts DEF DeviceKnows, ServerKnows, Bounded, Places
<1>12. /\ request' \in Message /\ received' \in Seq(Request) /\ handled' \in Seq(Message)
       /\ result' \in [Request -> Message] /\ unanswered' \subseteq Message
  BY <1>1, InvFacts
<1> QED  BY <1>2, <1>9, <1>10, <1>11, <1>12 DEF LinkInv, TypeOK, Wires, Places, Counters

LEMMA ReadRequestKeeps == ASSUME LinkInv, ReadRequest PROVE LinkInv'
<1> DEFINE m == Head(wire["server"]).msg
           w == Taken("server")
<1>1. /\ pc["server"] = "read" /\ wire["server"] # <<>> /\ Head(wire["server"]).cmd = "data"
      /\ Sent(w, "server", Header("ack"))
      /\ request' = m /\ received' = Append(received, m)
      /\ pc' = [pc EXCEPT !["server"] = "handle"]
      /\ UNCHANGED <<retry, sending, handled, unanswered, result, late, beats>>
  BY DEF ReadRequest, Reads
<1>2. Wires(w) /\ w["server"] = Tail(wire["server"]) /\ Head(wire["server"]) \in Frame
  BY <1>1, InvFacts, WiresTaken, EndFacts DEF Wires, Taken
<1>3. /\ m \in Request /\ m \in Nat /\ LastReceived <= m /\ m <= sending["device"]
      /\ GoodFrames(Tail(wire["server"]), Request, m, sending["device"])
  BY <1>1, InvFacts, GoodTail, FrameFacts, ConstantFacts DEF Wires, RequestsOn
<1>4. LastReceived' = m /\ received' \in Seq(Request)
  BY <1>1, <1>3, InvFacts DEF LastReceived
<1>5. HandledOnes' = HandledOnes
  BY <1>1 DEF HandledOnes
<1>6. Header("ack") \in Frame /\ Header("ack").cmd # "data"
  BY FrameFacts DEF Cmd
<1>7. w \in [End -> Seq(Frame)] /\ cuts \in 0..MaxCuts /\ "server" \in End
      /\ Other("server") = "device"
  BY <1>2, InvFacts, EndFacts DEF Wires, Counters
<1>8. /\ wire' \in [End -> Seq(Frame)] /\ wire'["server"] = w["server"]
      /\ cuts' \in 0..MaxCuts
  BY <1>1, <1>6, <1>7, SentWires
<1>9. ASSUME NEW k \in Request PROVE GoodFrames(wire'["device"], HandledOnes, result[k], m)
  <2>1. /\ result[k] \in Nat /\ LastReceived \in Nat /\ result[k] <= LastReceived
        /\ result[k] <= m
    BY <1>3, InvFacts
  <2>2. GoodFrames(w["device"], HandledOnes, result[k], LastReceived)
    BY <1>2 DEF Wires, ResponsesOn
  <2>3. GoodFrames(w["device"], HandledOnes, result[k], m)
    BY <1>3, <2>1, <2>2, GoodWiden
  <2> HIDE DEF w, m
  <2> QED  BY <1>1, <1>3, <1>6, <1>7, <2>1, <2>3, SentGood
<1>10. Wires(wire)'
  BY <1>1, <1>2, <1>3, <1>4, <1>5, <1>8, <1>9 DEF Wires, RequestsOn, ResponsesOn
<1>11. Places' /\ Counters'
  BY <1>1, <1>8, InvFacts, EndFacts DEF Places, Counters
<1>12. DeviceKnows' /\ ServerKnows' /\ Bounded'
  <2>1. DeviceKnows'
    BY <1>1, <1>3, <1>4, InvFacts, EndFacts, ConstantFacts DEF DeviceKnows, Places
  <2>2. ServerKnows'
    BY <1>1, <1>3, <1>4, InvFacts, EndFacts, ConstantFacts DEF ServerKnows, Places
  <2>3. Bounded'
    <3>1. \A i \in Request : result[i] \in Nat /\ result[i] <= LastReceived
      BY InvFacts
    <3>2. LastReceived \in Nat /\ LastReceived <= m /\ m <= sending["device"] /\ m \in Nat
      BY <1>3, InvFacts
    <3>3. m \in Message
      BY <1>3, ConstantFacts
    <3> HIDE DEF m
    <3> QED  BY <1>1, <1>4, <3>1, <3>2, <3>3 DEF Bounded
  <2> QED  BY <2>1, <2>2, <2>3
<1>13. /\ sending' \in [End -> Message] /\ request' \in Message /\ handled' \in Seq(Message)
       /\ result' \in [Request -> Message] /\ unanswered' \subseteq Message
  BY <1>1, <1>3, InvFacts, ConstantFacts
<1> QED  BY <1>4, <1>10, <1>11, <1>12, <1>13 DEF LinkInv, TypeOK, Wires, Places, Counters

LEMMA ReadResponseKeeps == ASSUME LinkInv, ReadResponse PROVE LinkInv'
<1> DEFINE m == Head(wire["device"]).msg
           d == sending["device"]
           w == Taken("device")
<1>1. /\ pc["device"] = "read" /\ wire["device"] # <<>> /\ Head(wire["device"]).cmd = "data"
      /\ Sent(w, "device", Header("ack"))
      /\ result' = [result EXCEPT ![d] = m]
      /\ pc' = [pc EXCEPT !["device"] = "idle"]
      /\ UNCHANGED <<retry, sending, request, received, handled, unanswered, late, beats>>
  BY DEF ReadResponse, Reads
<1>2. Wires(w) /\ w["device"] = Tail(wire["device"]) /\ Head(wire["device"]) \in Frame
  BY <1>1, InvFacts, WiresTaken, EndFacts DEF Wires, Taken
<1>3. d \in Request /\ LastReceived \in Nat /\ m \in Message /\ m \in Nat
  BY <1>1, <1>2, InvFacts, ConstantFacts DEF DeviceKnows, Frame
<1>4. /\ GoodFrames(Tail(wire["device"]), HandledOnes, m, LastReceived)
      /\ m <= LastReceived
  <2>1. GoodFrames(wire["device"], HandledOnes, result[d], LastReceived) /\ result[d] \in Nat
    BY <1>3, InvFacts DEF Wires, ResponsesOn
  <2>2. CASE m # Garbage
    BY <1>1, <1>3, <2>1, <2>2, GoodTail
  <2>3. CASE m = Garbage
    <3>1. GoodFrames(Tail(wire["device"]), HandledOnes, result[d], LastReceived)
      BY <1>1, <1>3, <2>1, GoodTail
    <3> QED  BY <1>3, <2>1, <2>3, <3>1, GoodWiden, ConstantFacts
  <2> QED  BY <2>2, <2>3
<1>5. Header("ack") \in Frame /\ Newest("device", Header("ack"))
  BY HeaderNewest, EndFacts DEF Cmd
<1>6. Wires(wire') /\ cuts' \in 0..MaxCuts
  BY <1>1, <1>2, <1>5, WiresSent, EndFacts
<1>7. wire'["device"] = w["device"]
  <2>1. w \in [End -> Seq(Frame)] /\ cuts \in 0..MaxCuts
    BY <1>2, InvFacts DEF Wires, Counters
  <2> QED  BY <1>1, <1>5, <2>1, SentWires, EndFacts
<1>8. /\ LastReceived' = LastReceived /\ HandledOnes' = HandledOnes
      /\ \A k \in Request : result'[k] = IF k = d THEN m ELSE result[k]
      /\ result' \in [Request -> Message]
  BY <1>1, <1>3, InvFacts DEF LastReceived, HandledOnes
<1>9. ResponsesOn(wire["device"])'
  BY <1>2, <1>4, <1>6, <1>7, <1>8 DEF Wires, ResponsesOn
<1>10. Wires(wire)'
  BY <1>1, <1>6, <1>8, <1>9 DEF Wires, RequestsOn
<1>11. Places' /\ Counters'
  BY <1>1, <1>6, InvFacts, EndFacts DEF Places, Counters
<1>12. DeviceKnows' /\ ServerKnows' /\ Bounded'
  BY <1>1, <1>4, <1>8, InvFacts, EndFacts DEF DeviceKnows, ServerKnows, Bounded, Places
<1>13. /\ sending' \in [End -> Message] /\ request' \in Message /\ handled' \in Seq(Message)
       /\ received' \in Seq(Request) /\ unanswered' \subseteq Message
  BY <1>1, InvFacts
<1> QED  BY <1>8, <1>10, <1>11, <1>12, <1>13 DEF LinkInv, TypeOK, Wires, Places, Counters

LEMMA HandledMore ==
  ASSUME LinkInv, Handled
  PROVE  HandledOnes' = HandledOnes \cup {request} /\ handled' \in Seq(Message)
<1>1. handled \in Seq(Message) /\ request \in Message /\ handled' = Append(handled, request)
  BY InvFacts DEF Handled
<1>2. /\ DOMAIN handled' = 1..(Len(handled) + 1) /\ DOMAIN handled = 1..Len(handled)
      /\ Len(handled) \in Nat /\ handled'[Len(handled) + 1] = request
      /\ \A i \in 1..Len(handled) : handled'[i] = handled[i]
  BY <1>1
<1>3. \A i \in 1..(Len(handled) + 1) : i \in 1..Len(handled) \/ i = Len(handled) + 1
  BY <1>2
<1>4. \A i \in 1..Len(handled) : i \in 1..(Len(handled) + 1)
  BY <1>2
<1>5. Len(handled) + 1 \in 1..(Len(handled) + 1)
  BY <1>2
<1>6. HandledOnes' \subseteq HandledOnes \cup {request}
  BY <1>2, <1>3 DEF HandledOnes
<1>7. HandledOnes \subseteq HandledOnes'
  BY <1>2, <1>4 DEF HandledOnes
<1>8. request \in HandledOnes'
  BY <1>2, <1>5 DEF HandledOnes
<1> QED  BY <1>1, <1>6, <1>7, <1>8

(* What is handled may be sent as a response. *)
LEMMA WiresHandled ==
  ASSUME LinkInv, Handled, UNCHANGED <<sending, received, result>>
  PROVE  /\ LastReceived' = LastReceived
         /\ \A m \in Request : GoodFrames(wire["device"], HandledOnes', result[m], LastReceived)
<1>1. LastReceived' = LastReceived
  BY DEF LastReceived
<1>2. HandledOnes \subseteq HandledOnes'
  BY HandledMore
<1>3. ASSUME NEW m \in Request
      PROVE  GoodFrames(wire["device"], HandledOnes', result[m], LastReceived)
  <2>1. /\ result[m] \in Nat /\ LastReceived \in Nat
        /\ GoodFrames(wire["device"], HandledOnes, result[m], LastReceived)
    BY InvFacts DEF Wires, ResponsesOn
  <2> QED  BY <1>2, <2>1, GoodWiden
<1> QED  BY <1>1, <1>3

LEMMA RespondKeeps == ASSUME LinkInv, Respond PROVE LinkInv'
<1>1. /\ Handled /\ Sent(wire, "server", Data(request))
      /\ sending' = [sending EXCEPT !["server"] = request]
      /\ retry' = [retry EXCEPT !["server"] = 1]
      /\ pc' = [pc EXCEPT !["server"] = "ack"]
      /\ UNCHANGED <<request, received, unanswered, result, late, beats>>
  BY DEF Respond, SendFirst
<1>2. request \in Message /\ request \in {Garbage, LastReceived}
  BY InvFacts DEF ServerKnows
<1>3. /\ sending' \in [End -> Message] /\ sending'["device"] = sending["device"]
      /\ sending'["server"] = request
  BY <1>1, <1>2, InvFacts, EndFacts
<1>4. /\ HandledOnes' = HandledOnes \cup {request} /\ handled' \in Seq(Message)
  BY <1>1, HandledMore
<1>5. Data(request) \in Frame /\ Data(request).cmd = "data" /\ Data(request).msg = request
  BY <1>2, FrameFacts
<1>6. wire \in [End -> Seq(Frame)] /\ cuts \in 0..MaxCuts
  BY InvFacts DEF Wires, Counters
<1>7. /\ wire' \in [End -> Seq(Frame)] /\ wire'["server"] = wire["server"]
      /\ cuts' \in 0..MaxCuts
  BY <1>1, <1>5, <1>6, SentWires, EndFacts
<1>8. LastReceived' = LastReceived
  BY <1>1 DEF LastReceived
<1>9. ASSUME NEW m \in Request
      PROVE  GoodFrames(wire'["device"], HandledOnes', result[m], LastReceived)
  <2>1. /\ result[m] \in Nat /\ LastReceived \in Nat /\ result[m] <= LastReceived
    BY InvFacts
  <2>2. wire["device"] = wire[Other("server")] /\ "server" \in End /\ Other("server") = "device"
    BY EndFacts
  <2>3. GoodFrames(wire["device"], HandledOnes \cup {request}, result[m], LastReceived)
    <3>1. GoodFrames(wire["device"], HandledOnes, result[m], LastReceived)
      BY InvFacts DEF Wires, ResponsesOn
    <3>2. HandledOnes \subseteq HandledOnes \cup {request}
      OBVIOUS
    <3> QED  BY <2>1, <3>1, <3>2, GoodWiden
  <2>4. request \in HandledOnes \cup {request}
    OBVIOUS
  <2>5. GoodFrames(wire'["device"], HandledOnes \cup {request}, result[m], LastReceived)
    BY <1>1, <1>2, <1>5, <1>6, <2>1, <2>2, <2>3, <2>4, SentGood
  <2> QED  BY <1>4, <2>5
<1>10. Wires(wire)'
  <2>1. RequestsOn(wire["server"])'
    BY <1>3, <1>7, <1>8, InvFacts DEF Wires, RequestsOn
  <2>2. ResponsesOn(wire["device"])'
    BY <1>1, <1>8, <1>9 DEF ResponsesOn
  <2> QED  BY <1>7, <2>1, <2>2 DEF Wires
<1>11. Places' /\ Counters'
  <2>1. Places /\ Counters
    BY InvFacts
  <2>2. Places'
    BY <1>1, <2>1, EndFacts DEF Places
  <2>3. retry' \in [End -> 0..RetryMax]
    BY <1>1, RetryStarts, EndFacts
  <2> QED  BY <1>1, <1>7, <2>1, <2>2, <2>3 DEF Counters
<1>12. DeviceKnows' /\ Bounded'
  <2>1. pc'["device"] = pc["device"]
    BY <1>1, InvFacts, EndFacts DEF Places
  <2> QED  BY <1>1, <1>3, <1>8, <2>1, InvFacts DEF DeviceKnows, Bounded
<1>13. ServerKnows'
  BY <1>1, <1>2, <1>3, <1>4, <1>8 DEF ServerKnows
<1>14. /\ request' \in Message /\ received' \in Seq(Request) /\ result' \in [Request -> Message]
       /\ unanswered' \subseteq Message
  BY <1>1, InvFacts
<1> QED
  BY <1>3, <1>4, <1>10, <1>11, <1>12, <1>13, <1>14 DEF LinkInv, TypeOK, Wires, Places, Counters

LEMMA UnansweredKeeps == ASSUME LinkInv, LeaveUnanswered PROVE LinkInv'
<1>1. /\ Handled /\ pc["server"] = "handle"
      /\ \E next \in {"idle", "closed"} : pc' = [pc EXCEPT !["server"] = next]
      /\ unanswered' = unanswered \cup {request}
      /\ UNCHANGED <<wire, retry, sending, request, received, result, late, cuts, beats>>
  BY DEF LeaveUnanswered
<1>2. handled' \in Seq(Message)
  BY <1>1, HandledMore
<1>3. /\ LastReceived' = LastReceived
      /\ \A m \in Request : GoodFrames(wire["device"], HandledOnes', result[m], LastReceived)
  BY <1>1, WiresHandled
<1>4. Wires(wire)'
  <2>1. RequestsOn(wire["server"])'
    BY <1>1, <1>3, InvFacts DEF Wires, RequestsOn
  <2>2. ResponsesOn(wire["device"])'
    BY <1>1, <1>3 DEF ResponsesOn
  <2> QED  BY <1>1, <2>1, <2>2, InvFacts DEF Wires
<1>5. /\ Places' /\ Counters' /\ pc'["device"] = pc["device"] /\ pc'["server"] # "ack"
  BY <1>1, InvFacts, EndFacts DEF Places, Counters
<1>6. DeviceKnows' /\ ServerKnows' /\ Bounded'
  BY <1>1, <1>3, <1>5, InvFacts DEF DeviceKnows, ServerKnows, Bounded
<1>7. /\ sending' \in [End -> Message] /\ request' \in Message
      /\ received' \in Seq(Request) /\ result' \in [Request -> Message]
      /\ unanswered' \subseteq Message
  BY <1>1, InvFacts
<1> QED  BY <1>2, <1>4, <1>5, <1>6, <1>7 DEF LinkInv, TypeOK, Wires, Places, Counters

LEMMA LinkNext == LinkInv /\ [Next]_vars => LinkInv'
<1> SUFFICES ASSUME LinkInv, [Next]_vars PROVE LinkInv'
  OBVIOUS
<1>1. CASE UNCHANGED vars
  <2>1. UNCHANGED <<wire, pc, retry, sending, request, received, handled, unanswered, result,
                  late, cuts, beats>>
    BY <1>1 DEF vars
  <2>2. Wires(wire') /\ Places' /\ Counters'
    BY <2>1, InvFacts DEF Places, Counters
  <2> QED  BY <2>1, <2>2, QuietKeeps
<1>2. CASE Device
  BY <1>2, LinkKeeps, AckedKeeps, ReadResponseKeeps, GarbledKeeps, EndFacts DEF Device
<1>3. CASE Server
  BY <1>3, LinkKeeps, AckedKeeps, ReadRequestKeeps, GarbledKeeps, RespondKeeps,
     UnansweredKeeps, EndFacts DEF Server
<1>4. CASE Call
  BY <1>4, CallKeeps
<1>5. CASE Heartbeat
  BY <1>5, GarbledKeeps
<1> QED  BY <1>1, <1>2, <1>3, <1>4, <1>5 DEF Next

(* The variables of both ends keep their types, whatever is cut or late. *)
THEOREM TypeCorrect == Spec => []TypeOK
<1>1. LinkInv => TypeOK
  BY DEF LinkInv
<1> QED  BY <1>1, LinkInit, LinkNext, PTL DEF Spec

-----------------------------------------------------------------------------
(* The link implements Exchange. *)

LEMMA ExchangeInit == Init => Exchanged!Init
  BY EndFacts DEF Init, Exchanged!Init, Garbage

(* Calls fail and nothing else that Exchange sees happens. *)
LEMMA ExchangeQuiet ==
  ASSUME UNCHANGED <<sending, received, handled, result>>,
         \/ pc'["device"] # "idle" <=> pc["device"] # "idle"
         \/ pc["device"] # "idle" /\ pc'["device"] = "idle"
  PROVE  [Exchanged!Next]_(Exchanged!vars)
<1>1. CASE pc'["device"] # "idle" <=> pc["device"] # "idle"
  BY <1>1 DEF Exchanged!vars
<1>2. CASE pc["device"] # "idle" /\ pc'["device"] = "idle"
  <2>1. Exchanged!Fail
    BY <1>2 DEF Exchanged!Fail
  <2> QED  BY <2>1 DEF Exchanged!Next
<1> QED  BY <1>1, <1>2

LEMMA ExchangeLink ==
  ASSUME LinkInv, NEW e \in End, Link(e)
  PROVE  [Exchanged!Next]_(Exchanged!vars)
<1>1. UNCHANGED <<sending, received, handled, result>>
  BY DEF Link, SkipHeartbeat, NoAck, AckTimeout, ReadOther, ReadTimeout, SendAgain, NoMessage,
         ReadAgain, DeviceGivesUp, ServerGivesUp, app
<1>2. \/ pc' = pc
      \/ pc[e] \in {"ack", "read"} /\ \E p \in {"idle", "closed"} : pc' = [pc EXCEPT ![e] = p]
  BY DEF Link, SkipHeartbeat, NoAck, AckTimeout, ReadOther, ReadTimeout, SendAgain, NoMessage,
         ReadAgain, DeviceGivesUp, ServerGivesUp, Reads, TimesOut
<1>3. e = "device" => pc' = pc \/ pc' = [pc EXCEPT ![e] = "idle"]
  BY EndFacts
     DEF Link, SkipHeartbeat, NoAck, AckTimeout, ReadOther, ReadTimeout, SendAgain, NoMessage,
         ReadAgain, DeviceGivesUp
<1>4. \/ pc'["device"] = pc["device"]
      \/ pc["device"] # "idle" /\ pc'["device"] = "idle"
  BY <1>2, <1>3, InvFacts, EndFacts DEF Places
<1> QED  BY <1>1, <1>4, ExchangeQuiet

LEMMA ExchangeMoves ==
  ASSUME LinkInv,
         \/ DeviceAcked \/ ServerAcked \/ Wake
         \/ ReadGarbledRequest \/ ReadGarbledResponse \/ Heartbeat
  PROVE  [Exchanged!Next]_(Exchanged!vars)
<1>1. UNCHANGED <<sending, received, handled, result>>
  BY DEF DeviceAcked, ServerAcked, Wake, ReadGarbledRequest, ReadGarbledResponse, Heartbeat, app
<1>2. \/ pc' = pc
      \/ \E p \in {"idle", "read", "handle"} : pc' = [pc EXCEPT !["server"] = p]
      \/ pc["device"] = "ack" /\ pc' = [pc EXCEPT !["device"] = "read"]
      \/ pc["device"] = "read" /\ pc' = [pc EXCEPT !["device"] = "idle"]
  BY DEF DeviceAcked, ServerAcked, Wake, ReadGarbledRequest, ReadGarbledResponse, Heartbeat, Reads
<1>3. \/ pc'["device"] # "idle" <=> pc["device"] # "idle"
      \/ pc["device"] # "idle" /\ pc'["device"] = "idle"
  BY <1>2, InvFacts, EndFacts DEF Places
<1> QED  BY <1>1, <1>3, ExchangeQuiet

LEMMA ExchangeAsks == ASSUME LinkInv, Call PROVE Exchanged!Ask
<1>1. /\ pc["device"] = "idle" /\ sending["device"] < MaxRequests
      /\ sending' = [sending EXCEPT !["device"] = sending["device"] + 1]
      /\ pc' = [pc EXCEPT !["device"] = "ack"]
      /\ UNCHANGED <<received, handled, result>>
  BY DEF Call, SendFirst, app
<1>2. sending'["device"] = sending["device"] + 1 /\ pc'["device"] = "ack"
  BY <1>1, InvFacts, EndFacts DEF Places
<1>3. sending["device"] + 1 \in Request
  BY <1>1, InvFacts, ConstantFacts DEF Request
<1> QED  BY <1>1, <1>2, <1>3 DEF Exchanged!Ask

LEMMA ExchangeReceives ==
  ASSUME LinkInv, ReadRequest PROVE \E m \in Request : Exchanged!Receive(m)
<1> DEFINE m == Head(wire["server"]).msg
<1>1. /\ wire["server"] # <<>> /\ Head(wire["server"]).cmd = "data"
      /\ received' = Append(received, m)
      /\ pc' = [pc EXCEPT !["server"] = "handle"]
      /\ UNCHANGED <<sending, handled, result>>
  BY DEF ReadRequest, Reads
<1>2. m \in Request /\ LastReceived <= m /\ m <= sending["device"]
  BY <1>1, InvFacts, GoodTail, ConstantFacts DEF Wires, RequestsOn
<1>3. pc'["device"] = pc["device"]
  BY <1>1, InvFacts, EndFacts DEF Places
<1> HIDE DEF m
<1>4. Exchanged!Receive(m)
  BY <1>1, <1>2, <1>3 DEF Exchanged!Receive, Exchanged!Newest, LastReceived
<1> QED  BY <1>2, <1>4

LEMMA ExchangeHandles ==
  ASSUME LinkInv, Respond \/ LeaveUnanswered PROVE Exchanged!Handle
<1>1. /\ handled' = Append(handled, request)
      /\ sending'["device"] = sending["device"] /\ pc'["device"] = pc["device"]
      /\ UNCHANGED <<received, result>>
  <2>1. CASE Respond
    BY <2>1, InvFacts, EndFacts DEF Respond, SendFirst, Handled, Places
  <2>2. CASE LeaveUnanswered
    BY <2>2, InvFacts, EndFacts DEF LeaveUnanswered, Handled, Places
  <2> QED  BY <2>1, <2>2
<1>2. request \in {Exchanged!Newest, Garbage}
  BY InvFacts DEF ServerKnows, LastReceived, Exchanged!Newest
<1> QED  BY <1>1, <1>2 DEF Exchanged!Handle

LEMMA ExchangeAnswers ==
  ASSUME LinkInv, ReadResponse PROVE \E i \in DOMAIN handled : Exchanged!Answer(i)
<1> DEFINE m == Head(wire["device"]).msg
<1>1. /\ pc["device"] = "read" /\ wire["device"] # <<>> /\ Head(wire["device"]).cmd = "data"
      /\ result' = [result EXCEPT ![sending["device"]] = m]
      /\ pc' = [pc EXCEPT !["device"] = "idle"]
      /\ UNCHANGED <<sending, received, handled>>
  BY DEF ReadResponse, Reads
<1>2. ASSUME NEW k \in Request
      PROVE  m \in HandledOnes /\ (m # Garbage => result[k] <= m)
  <2>1. /\ GoodFrames(wire["device"], HandledOnes, result[k], LastReceived)
        /\ result[k] \in Nat /\ LastReceived \in Nat
    BY InvFacts DEF Wires, ResponsesOn
  <2> QED  BY <1>1, <2>1, GoodTail
<1>3. sending["device"] \in Request
  BY <1>1, InvFacts DEF DeviceKnows
<1>4. PICK i \in DOMAIN handled : handled[i] = m
  BY <1>2, <1>3 DEF HandledOnes
<1>5. pc'["device"] = "idle"
  BY <1>1, InvFacts, EndFacts DEF Places
<1> HIDE DEF m
<1>6. Exchanged!Answer(i)
  BY <1>1, <1>2, <1>4, <1>5 DEF Exchanged!Answer
<1> QED  BY <1>6

LEMMA ExchangeStep == LinkInv /\ [Next]_vars => [Exchanged!Next]_(Exchanged!vars)
<1> SUFFICES ASSUME LinkInv, [Next]_vars PROVE [Exchanged!Next]_(Exchanged!vars)
  OBVIOUS
<1>1. CASE UNCHANGED vars
  BY <1>1, ExchangeQuiet DEF vars
<1>2. CASE \E e \in End : Link(e)
  BY <1>2, ExchangeLink
<1>3. CASE \/ DeviceAcked \/ ServerAcked \/ Wake
           \/ ReadGarbledRequest \/ ReadGarbledResponse \/ Heartbeat
  BY <1>3, ExchangeMoves
<1>4. CASE Call
  BY <1>4, ExchangeAsks DEF Exchanged!Next
<1>5. CASE ReadRequest
  BY <1>5, ExchangeReceives DEF Exchanged!Next
<1>6. CASE ReadResponse
  BY <1>6, ExchangeAnswers DEF Exchanged!Next
<1>7. CASE Respond \/ LeaveUnanswered
  BY <1>7, ExchangeHandles DEF Exchanged!Next
<1> QED
  BY <1>1, <1>2, <1>3, <1>4, <1>5, <1>6, <1>7, EndFacts DEF Next, Device, Server

(* Whatever is cut or late and however often it is sent again, each step of the
   link is one of Exchange or changes nothing it sees: requests are received in
   order, only what was received last is handled (or nothing that was sent), and
   no call reads a response older than one read before. *)
THEOREM LinkImplementsExchange == Spec => ImplementsExchange
<1> QED  BY LinkInit, LinkNext, ExchangeInit, ExchangeStep, PTL
         DEF Spec, ImplementsExchange, Exchanged!Spec
=============================================================================
