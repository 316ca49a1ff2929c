------------------------ MODULE AmilinkFaultProofs ------------------------
(* What the link of Amilink does as long as few things go wrong, for any number
   of calls, attempts and heartbeats. *)
EXTENDS AmilinkProofs

-----------------------------------------------------------------------------
(* What a wire carries besides heartbeats. *)

Ack == Header("ack")

Marks(at, s, t) ==
  /\ at \in [1..Len(t) -> 1..Len(s)]
  /\ \A j, k \in 1..Len(t) : j < k => at[j] < at[k]
  /\ \A k \in 1..Len(t) : s[at[k]] = t[k] /\ t[k].cmd # "heartbeat"
  /\ \A i \in 1..Len(s) : s[i].cmd # "heartbeat" => \E k \in 1..Len(t) : at[k] = i

Carries(s, t) == \E at \in [1..Len(t) -> 1..Len(s)] : Marks(at, s, t)

LEMMA CarriesNothing == Carries(<<>>, <<>>)
<1>1. Marks(<<>>, <<>>, <<>>) /\ <<>> \in [1..0 -> 1..0]
  BY DEF Marks
<1> QED  BY <1>1 DEF Carries

(* Reading the first frame. *)
LEMMA CarriesTail ==
  ASSUME NEW s \in Seq(Frame), NEW t \in Seq(Frame), Carries(s, t), s # <<>>
  PROVE  \/ Head(s).cmd = "heartbeat" /\ Carries(Tail(s), t)
         \/ /\ t # <<>> /\ Head(t) = Head(s) /\ Head(s).cmd # "heartbeat"
            /\ Carries(Tail(s), Tail(t))
<1>1. /\ Len(s) \in Nat /\ Len(s) > 0 /\ Head(s) = s[1] /\ Len(Tail(s)) = Len(s) - 1
      /\ \A i \in 1..(Len(s) - 1) : Tail(s)[i] = s[i + 1]
      /\ Len(t) \in Nat
  OBVIOUS
<1>2. PICK at \in [1..Len(t) -> 1..Len(s)] : Marks(at, s, t)
  BY DEF Carries
<1>3. CASE Head(s).cmd = "heartbeat"
  <2> DEFINE to == [k \in 1..Len(t) |-> at[k] - 1]
  <2>1. \A k \in 1..Len(t) : at[k] \in 1..Len(s) /\ at[k] # 1
    BY <1>1, <1>2, <1>3 DEF Marks
  <2>2. \A k \in 1..Len(t) : to[k] \in 1..(Len(s) - 1) /\ to[k] + 1 = at[k]
    BY <1>1, <2>1
  <2>3. to \in [1..Len(t) -> 1..Len(Tail(s))]
    BY <1>1, <2>2
  <2> HIDE DEF to
  <2>4. \A j, k \in 1..Len(t) : j < k => to[j] < to[k]
    BY <1>1, <1>2, <2>2 DEF Marks
  <2>5. \A k \in 1..Len(t) : Tail(s)[to[k]] = t[k] /\ t[k].cmd # "heartbeat"
    BY <1>1, <1>2, <2>2 DEF Marks
  <2>6. ASSUME NEW i \in 1..Len(Tail(s)), Tail(s)[i].cmd # "heartbeat"
        PROVE  \E k \in 1..Len(t) : to[k] = i
    <3>1. i + 1 \in 1..Len(s) /\ s[i + 1].cmd # "heartbeat"
      BY <1>1, <2>6
    <3>2. PICK k \in 1..Len(t) : at[k] = i + 1
      BY <1>2, <3>1 DEF Marks
    <3>3. to[k] = i
      BY <1>1, <2>2, <3>2
    <3> QED  BY <3>3
  <2>7. Marks(to, Tail(s), t)
    BY <2>3, <2>4, <2>5, <2>6 DEF Marks
  <2> QED  BY <1>3, <2>3, <2>7 DEF Carries
<1>4. CASE Head(s).cmd # "heartbeat"
  <2>1. PICK first \in 1..Len(t) : at[first] = 1
    BY <1>1, <1>2, <1>4 DEF Marks
  <2>2. Len(t) > 0 /\ 1 \in 1..Len(t) /\ at[1] \in 1..Len(s)
    BY <1>1, <1>2, <2>1
  <2>3. first = 1
    <3>1. 1 < first => at[1] < 1
      BY <1>2, <2>1, <2>2 DEF Marks
    <3> QED  BY <1>1, <2>1, <2>2, <3>1
  <2>4. /\ t # <<>> /\ Head(t) = t[1] /\ Tail(t) \in Seq(Frame) /\ Len(Tail(t)) = Len(t) - 1
        /\ \A k \in 1..(Len(t) - 1) : Tail(t)[k] = t[k + 1]
    BY <2>2
  <2>5. Head(t) = Head(s)
    BY <1>1, <1>2, <2>1, <2>2, <2>3, <2>4 DEF Marks
  <2> DEFINE to == [k \in 1..(Len(t) - 1) |-> at[k + 1] - 1]
  <2>6. ASSUME NEW k \in 1..(Len(t) - 1)
        PROVE  k + 1 \in 1..Len(t) /\ to[k] \in 1..(Len(s) - 1) /\ to[k] + 1 = at[k + 1]
    <3>1. k + 1 \in 1..Len(t) /\ 1 < k + 1
      BY <1>1
    <3>2. at[k + 1] \in 1..Len(s) /\ at[1] < at[k + 1]
      BY <1>2, <2>2, <3>1 DEF Marks
    <3> QED  BY <1>1, <2>2, <3>1, <3>2
  <2>7. to \in [1..Len(Tail(t)) -> 1..Len(Tail(s))]
    BY <1>1, <2>4, <2>6
  <2> HIDE DEF to
  <2>8. \A j, k \in 1..Len(Tail(t)) : j < k => to[j] < to[k]
    <3> SUFFICES ASSUME NEW j \in 1..Len(Tail(t)), NEW k \in 1..Len(Tail(t)), j < k
                 PROVE  to[j] < to[k]
      OBVIOUS
    <3>1. at[j + 1] < at[k + 1]
      BY <1>2, <2>4, <2>6 DEF Marks
    <3> QED  BY <1>1, <2>4, <2>6, <3>1
  <2>9. \A k \in 1..Len(Tail(t)) : Tail(s)[to[k]] = Tail(t)[k] /\ Tail(t)[k].cmd # "heartbeat"
    BY <1>1, <1>2, <2>4, <2>6 DEF Marks
  <2>10. ASSUME NEW i \in 1..Len(Tail(s)), Tail(s)[i].cmd # "heartbeat"
        PROVE  \E k \in 1..Len(Tail(t)) : to[k] = i
    <3>1. i + 1 \in 1..Len(s) /\ s[i + 1].cmd # "heartbeat"
      BY <1>1, <2>10
    <3>2. PICK k \in 1..Len(t) : at[k] = i + 1
      BY <1>2, <3>1 DEF Marks
    <3>3. k # 1
      BY <1>1, <2>1, <2>3, <3>2
    <3>4. k - 1 \in 1..(Len(t) - 1) /\ (k - 1) + 1 = k
      BY <1>1, <3>3
    <3>5. to[k - 1] = i
      BY <1>1, <2>6, <3>2, <3>4
    <3> QED  BY <2>4, <3>4, <3>5
  <2>11. Marks(to, Tail(s), Tail(t))
    BY <2>7, <2>8, <2>9, <2>10 DEF Marks
  <2> QED  BY <1>4, <2>4, <2>5, <2>7, <2>11 DEF Carries
<1> QED  BY <1>3, <1>4

(* Sending a heartbeat, or another frame. *)
LEMMA CarriesBeat ==
  ASSUME NEW s \in Seq(Frame), NEW t \in Seq(Frame), Carries(s, t),
         NEW f \in Frame, f.cmd = "heartbeat"
  PROVE  Carries(Append(s, f), t)
<1> DEFINE u == Append(s, f)
<1>1. /\ Len(s) \in Nat /\ Len(t) \in Nat /\ Len(u) = Len(s) + 1 /\ u[Len(s) + 1] = f
      /\ \A i \in 1..Len(s) : u[i] = s[i]
  OBVIOUS
<1> HIDE DEF u
<1>2. PICK at \in [1..Len(t) -> 1..Len(s)] : Marks(at, s, t)
  BY DEF Carries
<1>3. at \in [1..Len(t) -> 1..Len(u)] /\ \A k \in 1..Len(t) : at[k] \in 1..Len(s)
  <2>1. 1..Len(s) \subseteq 1..Len(u)
    BY <1>1
  <2> QED  BY <2>1
<1>4. \A i \in 1..Len(u) : u[i].cmd # "heartbeat" => i \in 1..Len(s)
  BY <1>1
<1>5. Marks(at, u, t)
  BY <1>1, <1>2, <1>3, <1>4 DEF Marks
<1> QED  BY <1>3, <1>5 DEF Carries, u

LEMMA CarriesAppend ==
  ASSUME NEW s \in Seq(Frame), NEW t \in Seq(Frame), Carries(s, t),
         NEW f \in Frame, f.cmd # "heartbeat"
  PROVE  Carries(Append(s, f), Append(t, f))
<1> DEFINE u == Append(s, f)
           v == Append(t, f)
<1>1. /\ Len(s) \in Nat /\ Len(t) \in Nat
      /\ Len(u) = Len(s) + 1 /\ u[Len(s) + 1] = f /\ \A i \in 1..Len(s) : u[i] = s[i]
      /\ Len(v) = Len(t) + 1 /\ v[Len(t) + 1] = f /\ \A k \in 1..Len(t) : v[k] = t[k]
  OBVIOUS
<1> HIDE DEF u, v
<1>2. PICK at \in [1..Len(t) -> 1..Len(s)] : Marks(at, s, t)
  BY DEF Carries
<1> DEFINE to == [k \in 1..Len(v) |-> IF k \in 1..Len(t) THEN at[k] ELSE Len(s) + 1]
<1>3. \A k \in 1..Len(v) : \/ k \in 1..Len(t) /\ to[k] = at[k] /\ to[k] \in 1..Len(s)
                           \/ k = Len(t) + 1 /\ to[k] = Len(s) + 1
  BY <1>1
<1>4. to \in [1..Len(v) -> 1..Len(u)]
  <2>1. \A k \in 1..Len(v) : to[k] \in 1..Len(u)
    BY <1>1, <1>3
  <2> QED  BY <2>1
<1> HIDE DEF to
<1>5. \A j, k \in 1..Len(v) : j < k => to[j] < to[k]
  BY <1>1, <1>2, <1>3 DEF Marks
<1>6. \A k \in 1..Len(v) : u[to[k]] = v[k] /\ v[k].cmd # "heartbeat"
  BY <1>1, <1>2, <1>3 DEF Marks
<1>7. ASSUME NEW i \in 1..Len(u), u[i].cmd # "heartbeat" PROVE \E k \in 1..Len(v) : to[k] = i
  <2>1. CASE i \in 1..Len(s)
    <3>1. PICK k \in 1..Len(t) : at[k] = i
      BY <1>1, <1>2, <1>7, <2>1 DEF Marks
    <3>2. k \in 1..Len(v) /\ k # Len(t) + 1
      BY <1>1
    <3>3. to[k] = at[k]
      BY <1>3, <3>2
    <3> QED  BY <3>1, <3>2, <3>3
  <2>2. CASE i = Len(s) + 1
    <3>1. Len(v) \in 1..Len(v) /\ to[Len(v)] = i
      BY <1>1, <1>3, <2>2
    <3> QED  BY <3>1
  <2> QED  BY <1>1, <2>1, <2>2
<1>8. Marks(to, u, v)
  BY <1>4, <1>5, <1>6, <1>7 DEF Marks
<1> QED  BY <1>4, <1>8 DEF Carries, u, v

(* What carries a frame is not empty, and nothing runs into its end unless a cut
   frame is carried. *)
LEMMA CarriesSome ==
  ASSUME NEW s \in Seq(Frame), NEW t \in Seq(Frame), Carries(s, t)
  PROVE  /\ t # <<>> => s # <<>>
         /\ (\A k \in 1..Len(t) : t[k] # Cut) => (s = <<>> \/ Last(s) # Cut)
<1>1. Len(s) \in Nat /\ Len(t) \in Nat /\ (s # <<>> => Len(s) \in 1..Len(s) /\ Last(s) = s[Len(s)])
  BY DEF Last
<1>2. PICK at \in [1..Len(t) -> 1..Len(s)] : Marks(at, s, t)
  BY DEF Carries
<1>3. t # <<>> => at[1] \in 1..Len(s)
  BY <1>1
<1>4. ASSUME s # <<>>, Last(s) = Cut PROVE \E k \in 1..Len(t) : t[k] = Cut
  <2>1. s[Len(s)].cmd # "heartbeat"
    BY <1>1, <1>4, FrameFacts
  <2>2. PICK k \in 1..Len(t) : at[k] = Len(s)
    BY <1>1, <1>2, <1>4, <2>1 DEF Marks
  <2> QED  BY <1>1, <1>2, <1>4, <2>2 DEF Marks
<1> QED  BY <1>1, <1>3, <1>4

(* The stages of a call on which nothing is cut or late: where the ends are, what
   is on its way to each and how many requests have been handled. *)
Stage(device, server, toDevice, toServer, n) ==
  /\ pc["device"] = device /\ pc["server"] \in server
  /\ Carries(wire["device"], toDevice) /\ Carries(wire["server"], toServer)
  /\ Len(handled) = n

Asked == sending["device"]

Resting     == Stage("idle", {"idle", "read"}, <<>>, <<>>, Asked)
Acking      == Stage("idle", {"ack"}, <<>>, <<Ack>>, Asked)
Asking      == Stage("ack", {"idle", "read"}, <<>>, <<Data(Asked)>>, Asked - 1)
AskingEarly == Stage("ack", {"ack"}, <<>>, <<Ack, Data(Asked)>>, Asked - 1)
Accepted    == Stage("ack", {"handle"}, <<Ack>>, <<>>, Asked - 1) /\ request = Asked
Responded   == Stage("ack", {"ack"}, <<Ack, Data(Asked)>>, <<>>, Asked)
Awaiting    == Stage("read", {"handle"}, <<>>, <<>>, Asked - 1) /\ request = Asked
Answering   == Stage("read", {"ack"}, <<Data(Asked)>>, <<>>, Asked)

(* Nothing is sent to a request that is left unanswered. *)
Unheeded ==
  /\ Stage("ack", {"idle", "read", "closed"}, <<Ack>>, <<>>, Asked)
  /\ Asked \in unanswered
InVain ==
  /\ Stage("read", {"idle", "read", "closed"}, <<>>, <<>>, Asked)
  /\ Asked \in unanswered

Gone ==
  /\ pc["server"] = "closed" /\ pc["device"] # "read"
  /\ Carries(wire["device"], <<>>)

Answered ==
  pc["server"] # "closed" =>
    \A m \in Request :
      m < Asked \/ (m = Asked /\ pc["device"] = "idle") => result[m] = m \/ m \in unanswered

Staged ==
  \/ Resting \/ Acking \/ Asking \/ AskingEarly
  \/ Accepted \/ Responded \/ Awaiting \/ Answering \/ Unheeded \/ InVain \/ Gone

InTurn ==
  /\ \A i \in 1..Len(handled) : handled[i] = i
  /\ \A m \in Request : result[m] \in {Garbage, m}

Faultless == late = 0 /\ cuts = 0 => Staged /\ Answered /\ InTurn


Smooth == LinkInv /\ late = 0 /\ cuts = 0 /\ Staged /\ Answered /\ InTurn

-----------------------------------------------------------------------------
(* Facts about the stages. *)

LEMMA Tuples ==
  ASSUME NEW f \in Frame, NEW g \in Frame
  PROVE  /\ <<>> \in Seq(Frame) /\ <<f>> \in Seq(Frame) /\ <<f, g>> \in Seq(Frame)
         /\ <<f>> # <<>> /\ Head(<<f>>) = f /\ Tail(<<f>>) = <<>>
         /\ <<f, g>> # <<>> /\ Head(<<f, g>>) = f /\ Tail(<<f, g>>) = <<g>>
         /\ Append(<<>>, f) = <<f>> /\ Append(<<f>>, g) = <<f, g>>
<1>1. <<>> \in Seq(Frame) /\ <<f>> \in Seq(Frame) /\ <<f, g>> \in Seq(Frame)
  OBVIOUS
<1>2. /\ Len(<<f>>) = 1 /\ Head(<<f>>) = f
      /\ Len(<<f, g>>) = 2 /\ Head(<<f, g>>) = f
  OBVIOUS
<1>3. Tail(<<f>>) = <<>>
  OBVIOUS
<1>4. Tail(<<f, g>>) = <<g>>
  OBVIOUS
<1>5. Append(<<>>, f) = <<f>>
  OBVIOUS
<1>6. Append(<<f>>, g) = <<f, g>>
  <2> DEFINE t == Append(<<f>>, g)
             u == <<f, g>>
  <2>1. /\ t \in Seq(Frame) /\ Len(t) = 2 /\ t[1] = f /\ t[2] = g
        /\ u \in Seq(Frame) /\ Len(u) = 2 /\ u[1] = f /\ u[2] = g
    BY <1>1
  <2> HIDE DEF t, u
  <2>2. t \in [1..2 -> Frame] /\ u \in [1..2 -> Frame] /\ \A i \in 1..2 : t[i] = u[i]
    BY <2>1
  <2>3. t = u
    BY <2>2
  <2> QED  BY <2>3 DEF t, u
<1> QED  BY <1>1, <1>2, <1>3, <1>4, <1>5, <1>6

(* What is carried holds no cut frame. *)
Uncut(t) ==
  /\ t \in Seq(Frame)
  /\ \A k \in 1..Len(t) : t[k] # Cut

LEMMA CallFacts ==
  ASSUME LinkInv
  PROVE  /\ wire \in [End -> Seq(Frame)] /\ Places /\ Asked \in Nat
         /\ Ack \in Frame /\ Ack.cmd = "ack" /\ Ack # Cut
         /\ Uncut(<<>>) /\ Uncut(<<Ack>>)
         /\ pc["device"] # "idle" =>
              /\ Asked \in Request /\ Asked # Garbage
              /\ Data(Asked) \in Frame /\ Data(Asked).cmd = "data" /\ Data(Asked).msg = Asked
              /\ Uncut(<<Data(Asked)>>) /\ Uncut(<<Ack, Data(Asked)>>)
<1>1. /\ wire \in [End -> Seq(Frame)] /\ Places /\ Asked \in Nat
      /\ pc["device"] # "idle" => Asked \in Request
  BY InvFacts DEF Wires, DeviceKnows, Asked
<1>2. Ack \in Frame /\ Ack.cmd = "ack" /\ Ack # Cut
  BY FrameFacts DEF Ack, Cmd
<1>3. ASSUME pc["device"] # "idle"
      PROVE  /\ Asked \in Request /\ Asked # Garbage /\ Data(Asked) \in Frame
             /\ Data(Asked).cmd = "data" /\ Data(Asked).msg = Asked /\ Data(Asked) # Cut
  BY <1>1, <1>3, ConstantFacts, FrameFacts
<1>4. ASSUME NEW f \in Frame, NEW g \in Frame, f # Cut, g # Cut
      PROVE  Uncut(<<>>) /\ Uncut(<<f>>) /\ Uncut(<<f, g>>)
  BY <1>4 DEF Uncut
<1>5. Uncut(<<>>) /\ Uncut(<<Ack>>)
  BY <1>2, <1>4
<1>6. pc["device"] # "idle" => Uncut(<<Data(Asked)>>) /\ Uncut(<<Ack, Data(Asked)>>)
  BY <1>2, <1>3, <1>4
<1> QED  BY <1>1, <1>2, <1>3, <1>5, <1>6

(* A frame that is read is the first one carried. *)
LEMMA ReadsCarried ==
  ASSUME LinkInv, NEW e \in End, NEW where, NEW cmds, Reads(e, where, cmds),
         NEW t, Uncut(t), Carries(wire[e], t)
  PROVE  /\ t # <<>> /\ Head(t) = Head(wire[e]) /\ Head(t).cmd \in cmds
         /\ Carries(Tail(wire[e]), Tail(t))
<1>1. wire[e] \in Seq(Frame) /\ t \in Seq(Frame)
  BY CallFacts DEF Uncut
<1>2. wire[e] # <<>> /\ Head(wire[e]).cmd \in cmds /\ Head(wire[e]).cmd # "heartbeat"
  BY DEF Reads, Skipped
<1> QED  BY <1>1, <1>2, CarriesTail

(* A wire with nothing to read carries nothing. *)
LEMMA NothingCarried ==
  ASSUME LinkInv, NEW e \in End, wire[e] \in {<<>>, <<Cut>>},
         NEW t, Uncut(t), Carries(wire[e], t)
  PROVE  t = <<>> /\ wire[e] = <<>>
<1>1. wire[e] \in Seq(Frame) /\ t \in Seq(Frame)
  BY CallFacts DEF Uncut
<1>2. wire[e] = <<>> \/ Last(wire[e]) # Cut
  BY <1>1, CarriesSome DEF Uncut
<1>3. Last(<<Cut>>) = Cut
  BY DEF Last
<1> QED  BY <1>1, <1>2, <1>3, CarriesSome

(* Without a cut the frame that is sent comes last. *)
LEMMA SentCarried ==
  ASSUME NEW w \in [End -> Seq(Frame)], NEW e \in End, NEW f \in Frame, Sent(w, e, f),
         cuts = 0, cuts' = 0, NEW t, Uncut(t), Carries(w[Other(e)], t)
  PROVE  /\ wire' \in [End -> Seq(Frame)] /\ wire'[e] = w[e]
         /\ f.cmd = "heartbeat" => Carries(wire'[Other(e)], t)
         /\ f.cmd # "heartbeat" => Carries(wire'[Other(e)], Append(t, f))
<1>1. SentWhole(w, e, f)
  BY DEF Sent, SentInPart
<1>2. w[Other(e)] \in Seq(Frame) /\ t \in Seq(Frame)
  BY EndFacts DEF Uncut
<1>3. w[Other(e)] = <<>> \/ Last(w[Other(e)]) # Cut
  BY <1>2, CarriesSome DEF Uncut
<1>4. Joined(w[Other(e)], f) = Append(w[Other(e)], f)
  BY <1>3 DEF Joined
<1>5. /\ wire' = [w EXCEPT ![Other(e)] = Append(w[Other(e)], f)]
      /\ Append(w[Other(e)], f) \in Seq(Frame)
  BY <1>1, <1>2, <1>4 DEF SentWhole
<1>6. /\ wire' \in [End -> Seq(Frame)] /\ wire'[e] = w[e]
      /\ wire'[Other(e)] = Append(w[Other(e)], f)
  BY <1>5, EndFacts
<1> QED  BY <1>2, <1>6, CarriesBeat, CarriesAppend


(* An end that reads an acknowledgement is sent nothing else before, nor an end
   that reads a message. *)
LEMMA Expected ==
  ASSUME Smooth, NEW e \in End, pc[e] \in {"ack", "read"}
  PROVE  \E t : /\ Uncut(t) /\ Carries(wire[e], t)
                /\ t # <<>> => Head(t).cmd = IF pc[e] = "ack" THEN "ack" ELSE "data"
<1> DEFINE Fits(t, cmd) == Uncut(t) /\ Carries(wire[e], t) /\ (t # <<>> => Head(t).cmd = cmd)
<1>1. LinkInv /\ Staged
  BY DEF Smooth
<1>2. Ack \in Frame /\ Ack.cmd = "ack" /\ Uncut(<<>>) /\ Uncut(<<Ack>>)
  BY <1>1, CallFacts
<1>3. ASSUME pc["device"] # "idle"
      PROVE  /\ Data(Asked) \in Frame /\ Data(Asked).cmd = "data"
             /\ Uncut(<<Data(Asked)>>) /\ Uncut(<<Ack, Data(Asked)>>)
  BY <1>1, <1>3, CallFacts
<1>4. CASE Resting \/ Acking \/ Gone
  <2>1. CASE e = "device"
    BY <1>2, <1>4, <2>1 DEF Resting, Acking, Gone, Stage
  <2>2. CASE e = "server"
    BY <1>2, <1>4, <2>2, Tuples DEF Resting, Acking, Gone, Stage
  <2> QED  BY <2>1, <2>2, EndFacts
<1>5. CASE Asking \/ AskingEarly
  <2>1. CASE e = "device"
    BY <1>2, <1>5, <2>1 DEF Asking, AskingEarly, Stage
  <2>2. CASE e = "server" /\ Asking
    <3>1. pc["device"] = "ack" /\ pc[e] = "read" /\ Carries(wire[e], <<Data(Asked)>>)
      BY <2>2 DEF Asking, Stage
    <3>2. Uncut(<<Data(Asked)>>) /\ Head(<<Data(Asked)>>).cmd = "data"
      BY <1>3, <3>1, Tuples
    <3> QED  BY <3>1, <3>2
  <2>3. CASE e = "server" /\ AskingEarly
    <3>1. pc["device"] = "ack" /\ pc[e] = "ack" /\ Carries(wire[e], <<Ack, Data(Asked)>>)
      BY <2>3 DEF AskingEarly, Stage
    <3>2. Uncut(<<Ack, Data(Asked)>>) /\ Head(<<Ack, Data(Asked)>>).cmd = "ack"
      BY <1>2, <1>3, <3>1, Tuples
    <3> QED  BY <3>1, <3>2
  <2> QED  BY <1>5, <2>1, <2>2, <2>3, EndFacts
<1>6. CASE Accepted \/ Awaiting
  <2>1. CASE e = "device"
    BY <1>2, <1>6, <2>1, Tuples DEF Accepted, Awaiting, Stage
  <2>2. CASE e = "server"
    BY <1>6, <2>2 DEF Accepted, Awaiting, Stage
  <2> QED  BY <2>1, <2>2, EndFacts
<1>7. CASE Responded \/ Answering
  <2>1. CASE e = "server"
    BY <1>2, <1>7, <2>1 DEF Responded, Answering, Stage
  <2>2. CASE e = "device" /\ Responded
    <3>1. pc[e] = "ack" /\ Carries(wire[e], <<Ack, Data(Asked)>>)
      BY <2>2 DEF Responded, Stage
    <3>2. Uncut(<<Ack, Data(Asked)>>) /\ Head(<<Ack, Data(Asked)>>).cmd = "ack"
      BY <1>2, <1>3, <2>2, <3>1, Tuples
    <3> QED  BY <3>1, <3>2
  <2>3. CASE e = "device" /\ Answering
    <3>1. pc[e] = "read" /\ Carries(wire[e], <<Data(Asked)>>)
      BY <2>3 DEF Answering, Stage
    <3>2. Uncut(<<Data(Asked)>>) /\ Head(<<Data(Asked)>>).cmd = "data"
      BY <1>3, <2>3, <3>1, Tuples
    <3> QED  BY <3>1, <3>2
  <2> QED  BY <1>7, <2>1, <2>2, <2>3, EndFacts
<1>8. CASE Unheeded \/ InVain
  <2>1. CASE e = "device"
    BY <1>2, <1>8, <2>1, Tuples DEF Unheeded, InVain, Stage
  <2>2. CASE e = "server"
    BY <1>2, <1>8, <2>2 DEF Unheeded, InVain, Stage
  <2> QED  BY <2>1, <2>2, EndFacts
<1> QED  BY <1>1, <1>4, <1>5, <1>6, <1>7, <1>8 DEF Staged

LEMMA NothingStray ==
  ASSUME Smooth, NEW e \in End
  PROVE  ~NoAck(e) /\ ~ReadOther(e) /\ ~ReadGarbledRequest /\ ~ReadGarbledResponse
<1>1. ASSUME NEW where \in {"ack", "read"}, NEW cmds, Reads(e, where, cmds)
      PROVE  (IF where = "ack" THEN "ack" ELSE "data") \in cmds
  <2>1. pc[e] = where
    BY <1>1 DEF Reads
  <2>2. PICK t : /\ Uncut(t) /\ Carries(wire[e], t)
                 /\ t # <<>> => Head(t).cmd = IF where = "ack" THEN "ack" ELSE "data"
    BY <2>1, Expected
  <2>3. LinkInv
    BY DEF Smooth
  <2> QED  BY <1>1, <2>2, <2>3, ReadsCarried
<1>2. ~NoAck(e) /\ ~ReadOther(e)
  BY <1>1 DEF NoAck, ReadOther
<1>3. ~ReadGarbledRequest /\ ~ReadGarbledResponse
  <2>1. ASSUME NEW d \in End, Reads(d, "read", {"garbled"}) PROVE FALSE
    <3>1. pc[d] = "read"
      BY <2>1 DEF Reads
    <3>2. PICK t : /\ Uncut(t) /\ Carries(wire[d], t)
                   /\ t # <<>> => Head(t).cmd = "data"
      BY <3>1, Expected
    <3>3. LinkInv
      BY DEF Smooth
    <3> QED  BY <2>1, <3>2, <3>3, ReadsCarried
  <2> QED  BY <2>1, EndFacts DEF ReadGarbledRequest, ReadGarbledResponse
<1> QED  BY <1>2, <1>3

(* Nobody waits in vain, but a device whose handler has closed, a handler that was
   sent heartbeats only, and both after a request that is left unanswered. *)
LEMMA WaitsInVain ==
  ASSUME Smooth, NEW e \in End, NEW where \in {"ack", "read"}, TimesOut(e, where), late' = 0
  PROVE  \/ Gone /\ e = "device"
         \/ Resting /\ e = "server"
         \/ InVain
<1>1. LinkInv /\ Staged /\ late = 0
  BY DEF Smooth
<1>2. pc[e] = where /\ wire[e] \in {<<>>, <<Cut>>} /\ Quiet(Other(e))
  BY <1>1 DEF TimesOut
<1>3. Quiet(Other(e)) =>
        \/ pc[Other(e)] = "closed"
        \/ pc[Other(e)] = "idle" /\ e = "server"
        \/ pc[Other(e)] # "handle" /\ wire[Other(e)] \in {<<>>, <<Cut>>}
  BY EndFacts DEF Quiet
<1>4. ASSUME NEW d \in End, NEW t, Uncut(t), t # <<>>, Carries(wire[d], t)
      PROVE  wire[d] \notin {<<>>, <<Cut>>}
  BY <1>1, <1>4, NothingCarried
<1>5. /\ Ack \in Frame /\ Uncut(<<Ack>>) /\ <<Ack>> # <<>>
      /\ pc["device"] # "idle" =>
           /\ Uncut(<<Data(Asked)>>) /\ <<Data(Asked)>> # <<>>
           /\ Uncut(<<Ack, Data(Asked)>>) /\ <<Ack, Data(Asked)>> # <<>>
  BY <1>1, CallFacts
<1>6. ~Acking /\ ~Asking /\ ~AskingEarly
  <2>1. \A t : Uncut(t) /\ t # <<>> /\ Carries(wire["server"], t) => wire["server"] \notin {<<>>, <<Cut>>}
    BY <1>4, EndFacts
  <2>2. ~Acking
    BY <1>2, <1>5, <2>1, EndFacts DEF Acking, Stage
  <2>3. ~Asking
    BY <1>2, <1>3, <1>5, <2>1, EndFacts DEF Asking, Stage
  <2>4. ~AskingEarly
    BY <1>2, <1>3, <1>5, <2>1, EndFacts DEF AskingEarly, Stage
  <2> QED  BY <2>2, <2>3, <2>4
<1>7. ~Accepted /\ ~Responded /\ ~Awaiting /\ ~Answering
  <2>1. \A t : Uncut(t) /\ t # <<>> /\ Carries(wire["device"], t) => wire["device"] \notin {<<>>, <<Cut>>}
    BY <1>4, EndFacts
  <2>2. ~Accepted
    BY <1>2, <1>5, <2>1, EndFacts DEF Accepted, Stage
  <2>3. ~Responded
    BY <1>2, <1>3, <1>5, <2>1, EndFacts DEF Responded, Stage
  <2>4. ~Awaiting
    BY <1>2, <1>3, EndFacts DEF Awaiting, Stage
  <2>5. ~Answering
    BY <1>2, <1>3, <1>5, <2>1, EndFacts DEF Answering, Stage
  <2> QED  BY <2>2, <2>3, <2>4, <2>5
<1>10. ~Unheeded
  <2>1. ASSUME Unheeded PROVE wire["device"] \notin {<<>>, <<Cut>>}
    BY <1>4, <1>5, <2>1, EndFacts DEF Unheeded, Stage
  <2> QED  BY <1>2, <1>3, <2>1, EndFacts DEF Unheeded, Stage
<1>8. Resting => e = "server"
  BY <1>2, EndFacts DEF Resting, Stage
<1>9. Gone => e = "device"
  BY <1>2, EndFacts DEF Gone
<1> QED  BY <1>1, <1>6, <1>7, <1>8, <1>9, <1>10 DEF Staged


-----------------------------------------------------------------------------
(* Steps on which nothing is cut or late go on to the next stage. *)

Kept == Staged /\ Answered /\ InTurn

LEMMA AnswersStay ==
  ASSUME Smooth, UNCHANGED <<handled, unanswered, result>>,
         sending'["device"] = sending["device"],
         pc'["server"] # "closed" => pc["server"] # "closed",
         pc'["device"] = "idle" =>
           pc["device"] = "idle" \/ pc'["server"] = "closed" \/ Asked \in unanswered
  PROVE  Answered' /\ InTurn'
BY DEF Smooth, Answered, InTurn, Asked

(* Whatever is carried, skipping a heartbeat leaves it. *)
LEMMA SkipSmooth == ASSUME Smooth, NEW e \in End, SkipHeartbeat(e) PROVE Kept'
<1>1. /\ wire[e] # <<>> /\ Head(wire[e]).cmd = "heartbeat" /\ wire' = Taken(e)
      /\ UNCHANGED <<pc, sending, request, handled, unanswered, result>>
  BY DEF SkipHeartbeat, Skipped, app
<1>2. LinkInv /\ Staged /\ wire \in [End -> Seq(Frame)]
  BY CallFacts DEF Smooth
<1>3. ASSUME NEW d \in End, NEW t, Uncut(t), Carries(wire[d], t) PROVE Carries(wire'[d], t)
  <2>1. CASE d = e
    <3>1. wire'[e] = Tail(wire[e])
      BY <1>1, <1>2 DEF Taken
    <3> QED  BY <1>1, <1>2, <1>3, <2>1, <3>1, CarriesTail DEF Uncut
  <2>2. CASE d # e
    BY <1>1, <1>2, <1>3, <2>2 DEF Taken
  <2> QED  BY <2>1, <2>2
<1>4. \A t : Uncut(t) /\ Carries(wire["device"], t) => Carries(wire'["device"], t)
  BY <1>3, EndFacts
<1>5. \A t : Uncut(t) /\ Carries(wire["server"], t) => Carries(wire'["server"], t)
  BY <1>3, EndFacts
<1>6. /\ Uncut(<<>>) /\ Uncut(<<Ack>>)
      /\ pc["device"] # "idle" => Uncut(<<Data(Asked)>>) /\ Uncut(<<Ack, Data(Asked)>>)
  BY <1>2, CallFacts
<1>7. Asked' = Asked
  BY <1>1 DEF Asked
<1>8. CASE Resting
  <2>1. Resting'
    BY <1>1, <1>4, <1>5, <1>6, <1>7, <1>8 DEF Resting, Stage
  <2> QED  BY <2>1, <1>1, AnswersStay DEF Kept, Staged
<1>9. CASE Acking
  <2>1. Acking'
    BY <1>1, <1>4, <1>5, <1>6, <1>7, <1>9 DEF Acking, Stage, Ack
  <2> QED  BY <2>1, <1>1, AnswersStay DEF Kept, Staged
<1>10. CASE Asking
  <2>1. pc["device"] # "idle"
    BY <1>10 DEF Asking, Stage
  <2>2. Asking'
    BY <1>1, <1>4, <1>5, <1>6, <1>7, <1>10, <2>1 DEF Asking, Stage
  <2> QED  BY <2>2, <1>1, AnswersStay DEF Kept, Staged
<1>11. CASE AskingEarly
  <2>1. pc["device"] # "idle"
    BY <1>11 DEF AskingEarly, Stage
  <2>2. AskingEarly'
    BY <1>1, <1>4, <1>5, <1>6, <1>7, <1>11, <2>1 DEF AskingEarly, Stage, Ack
  <2> QED  BY <2>2, <1>1, AnswersStay DEF Kept, Staged
<1>12. CASE Accepted
  <2>1. Accepted'
    BY <1>1, <1>4, <1>5, <1>6, <1>7, <1>12 DEF Accepted, Stage, Ack
  <2> QED  BY <2>1, <1>1, AnswersStay DEF Kept, Staged
<1>13. CASE Responded
  <2>1. pc["device"] # "idle"
    BY <1>13 DEF Responded, Stage
  <2>2. Responded'
    BY <1>1, <1>4, <1>5, <1>6, <1>7, <1>13, <2>1 DEF Responded, Stage, Ack
  <2> QED  BY <2>2, <1>1, AnswersStay DEF Kept, Staged
<1>14. CASE Awaiting
  <2>1. Awaiting'
    BY <1>1, <1>4, <1>5, <1>6, <1>7, <1>14 DEF Awaiting, Stage
  <2> QED  BY <2>1, <1>1, AnswersStay DEF Kept, Staged
<1>15. CASE Answering
  <2>1. pc["device"] # "idle"
    BY <1>15 DEF Answering, Stage
  <2>2. Answering'
    BY <1>1, <1>4, <1>5, <1>6, <1>7, <1>15, <2>1 DEF Answering, Stage
  <2> QED  BY <2>2, <1>1, AnswersStay DEF Kept, Staged
<1>16. CASE Gone
  <2>1. Gone'
    BY <1>1, <1>4, <1>6, <1>16 DEF Gone
  <2> QED  BY <2>1, <1>1, AnswersStay DEF Kept, Staged
<1>17. CASE Unheeded
  <2>1. Unheeded'
    BY <1>1, <1>4, <1>5, <1>6, <1>7, <1>17 DEF Unheeded, Stage, Ack
  <2> QED  BY <2>1, <1>1, AnswersStay DEF Kept, Staged
<1>18. CASE InVain
  <2>1. InVain'
    BY <1>1, <1>4, <1>5, <1>6, <1>7, <1>18 DEF InVain, Stage
  <2> QED  BY <2>1, <1>1, AnswersStay DEF Kept, Staged
<1> QED
  BY <1>2, <1>8, <1>9, <1>10, <1>11, <1>12, <1>13, <1>14, <1>15, <1>16, <1>17, <1>18 DEF Staged


(* A device whose request is left unanswered waits on or gives up. *)
LEMMA DeviceTimeoutSmooth ==
  ASSUME Smooth, InVain, ReadTimeout("device") PROVE Kept'
<1>1. NoMessage("device", Dropped("device"))
  BY DEF ReadTimeout
<1>2. LinkInv /\ wire \in [End -> Seq(Frame)] /\ Places
  BY CallFacts DEF Smooth
<1>3. /\ pc["device"] = "read" /\ pc["server"] \in {"idle", "read", "closed"}
      /\ Carries(wire["server"], <<>>) /\ Len(handled) = Asked /\ Asked \in unanswered
  BY DEF InVain, Stage
<1>4. /\ UNCHANGED <<sending, handled, unanswered, result>> /\ wire' = Dropped("device")
      /\ pc' = pc \/ pc' = [pc EXCEPT !["device"] = "idle"]
  BY <1>1, EndFacts DEF NoMessage, ReadAgain, DeviceGivesUp, app
<1>5. wire'["device"] = <<>> /\ wire'["server"] = wire["server"] /\ Asked' = Asked
  BY <1>2, <1>4, EndFacts DEF Dropped, Asked
<1>6. CASE pc' = pc
  <2>1. InVain'
    BY <1>3, <1>4, <1>5, <1>6, CarriesNothing DEF InVain, Stage
  <2> QED  BY <1>4, <1>6, <2>1, AnswersStay DEF Kept, Staged
<1>7. CASE pc' = [pc EXCEPT !["device"] = "idle"]
  <2>1. pc'["device"] = "idle" /\ pc'["server"] = pc["server"]
    BY <1>2, <1>7, EndFacts DEF Places
  <2>2. Resting' \/ Gone'
    BY <1>3, <1>4, <1>5, <2>1, CarriesNothing DEF Resting, Gone, Stage
  <2> QED  BY <1>3, <1>4, <2>1, <2>2, AnswersStay DEF Kept, Staged
<1> QED  BY <1>4, <1>6, <1>7

(* A handler that was sent heartbeats only, or has left a request unanswered, sends
   a heartbeat, waits on or closes. *)
LEMMA ReadTimeoutSmooth ==
  ASSUME Smooth, NEW e \in End, ReadTimeout(e), late' = 0, cuts' = 0 PROVE Kept'
<1>1. TimesOut(e, "read") /\ NoMessage(e, Dropped(e))
  BY DEF ReadTimeout
<1>2. (e = "device" /\ InVain) \/ (e = "server" /\ (Resting \/ InVain))
  BY <1>1, WaitsInVain, EndFacts DEF TimesOut, Gone
<1>3. CASE e = "device" /\ InVain
  BY <1>3, DeviceTimeoutSmooth
<1>4. ASSUME e = "server", Resting \/ InVain PROVE Kept'
  <2>1. /\ LinkInv /\ cuts = 0 /\ wire \in [End -> Seq(Frame)] /\ Places
        /\ Uncut(<<>>)
    BY CallFacts, CarriesNothing DEF Smooth
  <2>2. /\ pc["server"] = "read" /\ Carries(wire["device"], <<>>) /\ Len(handled) = Asked
        /\ pc["device"] = "idle" \/ (pc["device"] = "read" /\ Asked \in unanswered)
    BY <1>1, <1>4 DEF Resting, InVain, Stage, TimesOut
  <2> DEFINE w == Dropped("server")
  <2>3. w \in [End -> Seq(Frame)] /\ w["server"] = <<>> /\ w["device"] = wire["device"]
    BY <2>1, EndFacts DEF Dropped
  <2> HIDE DEF w
  <2>4. /\ UNCHANGED <<sending, handled, unanswered, result>>
        /\ \/ wire' = w /\ pc' = pc
           \/ SentWhole(w, "server", Header("heartbeat")) /\ pc' = [pc EXCEPT !["server"] = "idle"]
           \/ SentInPart(w, "server")
           \/ wire' = w /\ pc' = [pc EXCEPT !["server"] = "closed"]
    BY <1>1, <1>4, EndFacts DEF NoMessage, ReadAgain, ServerGivesUp, DeviceGivesUp, w, app
  <2>5. Asked' = Asked
    BY <2>4 DEF Asked
  <2>6. CASE wire' = w /\ pc' = pc
    <3>1. Resting' \/ InVain'
      BY <2>2, <2>3, <2>4, <2>5, <2>6, CarriesNothing DEF Resting, InVain, Stage
    <3> QED  BY <2>4, <2>6, <3>1, AnswersStay DEF Kept, Staged
  <2>7. CASE SentWhole(w, "server", Header("heartbeat")) /\ pc' = [pc EXCEPT !["server"] = "idle"]
    <3>1. pc'["device"] = pc["device"] /\ pc'["server"] = "idle"
      BY <2>1, <2>7, EndFacts DEF Places
    <3>2. Header("heartbeat") \in Frame /\ Header("heartbeat").cmd = "heartbeat"
      BY FrameFacts DEF Cmd
    <3>3. wire'["server"] = <<>> /\ Carries(wire'["device"], <<>>)
      BY <2>1, <2>2, <2>3, <2>7, <3>2, SentCarried, EndFacts DEF Sent
    <3>4. Resting' \/ InVain'
      BY <2>2, <2>4, <2>5, <3>1, <3>3, CarriesNothing DEF Resting, InVain, Stage
    <3> QED  BY <2>2, <2>4, <3>1, <3>4, AnswersStay DEF Kept, Staged
  <2>8. CASE SentInPart(w, "server")
    BY <2>1, <2>8 DEF SentInPart
  <2>9. CASE wire' = w /\ pc' = [pc EXCEPT !["server"] = "closed"]
    <3>1. pc'["device"] = pc["device"] /\ pc'["server"] = "closed"
      BY <2>1, <2>9, EndFacts DEF Places
    <3>2. Gone' \/ InVain'
      BY <2>2, <2>3, <2>4, <2>5, <2>9, <3>1, CarriesNothing DEF Gone, InVain, Stage
    <3> QED  BY <2>4, <3>1, <3>2, AnswersStay DEF Kept, Staged
  <2> QED  BY <2>4, <2>6, <2>7, <2>8, <2>9
<1> QED  BY <1>2, <1>3, <1>4

(* A call to a handler that has closed is sent again and fails. *)
LEMMA AckTimeoutSmooth ==
  ASSUME Smooth, NEW e \in End, AckTimeout(e), late' = 0, cuts' = 0 PROVE Kept'
<1>1. TimesOut(e, "ack") /\ SendAgain(e, Dropped(e))
  BY DEF AckTimeout
<1>2. e = "device" /\ Gone
  <2>1. ~(Resting /\ e = "server") /\ ~InVain
    BY <1>1, EndFacts DEF TimesOut, Resting, InVain, Stage
  <2> QED  BY <1>1, <2>1, WaitsInVain
<1>3. LinkInv /\ cuts = 0 /\ wire \in [End -> Seq(Frame)] /\ Places /\ pc["device"] = "ack"
  BY <1>1, <1>2, CallFacts DEF Smooth, TimesOut
<1> DEFINE w == Dropped("device")
<1>4. w \in [End -> Seq(Frame)] /\ w["device"] = <<>>
  BY <1>3, EndFacts DEF Dropped
<1> HIDE DEF w
<1>5. /\ UNCHANGED <<sending, handled, unanswered, result>>
      /\ \/ Sent(w, "device", Data(sending["device"])) /\ pc' = pc
         \/ wire' = w /\ pc' = [pc EXCEPT !["device"] = "idle"]
  BY <1>1, <1>2 DEF SendAgain, w, app
<1>6. wire'["device"] = <<>>
  <2>1. Data(sending["device"]) \in Frame /\ cuts \in 0..MaxCuts
    BY <1>3, CallFacts, InvFacts DEF Asked, Counters
  <2> QED  BY <1>4, <1>5, <2>1, SentWires, EndFacts
<1>7. pc'["device"] \in {"idle", "ack"} /\ pc'["server"] = "closed"
  BY <1>2, <1>3, <1>5, EndFacts DEF Gone, Places
<1>8. Gone'
  BY <1>6, <1>7, CarriesNothing DEF Gone
<1> QED  BY <1>5, <1>7, <1>8, AnswersStay DEF Kept, Staged

LEMMA DeviceAckedSmooth == ASSUME Smooth, DeviceAcked PROVE Kept'
<1>1. /\ Reads("device", "ack", {"ack"}) /\ wire' = Taken("device")
      /\ pc' = [pc EXCEPT !["device"] = "read"]
      /\ UNCHANGED <<sending, request, handled, unanswered, result>>
  BY DEF DeviceAcked, app
<1>2. LinkInv /\ Staged /\ wire \in [End -> Seq(Frame)] /\ Places /\ pc["device"] = "ack"
  BY <1>1, CallFacts DEF Smooth, Reads
<1>3. /\ pc'["device"] = "read" /\ pc'["server"] = pc["server"] /\ Asked' = Asked
      /\ wire'["device"] = Tail(wire["device"]) /\ wire'["server"] = wire["server"]
  BY <1>1, <1>2, EndFacts DEF Places, Taken, Asked
<1>4. /\ Ack \in Frame /\ Data(Asked) \in Frame
      /\ Uncut(<<>>) /\ Uncut(<<Ack>>) /\ Uncut(<<Ack, Data(Asked)>>)
  BY <1>2, CallFacts
<1>5. ASSUME NEW t, Uncut(t), Carries(wire["device"], t)
      PROVE  t # <<>> /\ Carries(wire'["device"], Tail(t))
  BY <1>1, <1>2, <1>3, <1>5, ReadsCarried, EndFacts
<1>6. Accepted \/ Responded \/ Unheeded
  BY <1>2, <1>4, <1>5
     DEF Staged, Resting, Acking, Asking, AskingEarly, Awaiting, Answering, InVain, Gone, Stage
<1>7. CASE Accepted
  <2>1. Carries(wire'["device"], <<>>)
    BY <1>4, <1>5, <1>7, Tuples DEF Accepted, Stage
  <2>2. Awaiting'
    BY <1>1, <1>3, <1>7, <2>1 DEF Accepted, Awaiting, Stage
  <2> QED  BY <1>1, <1>3, <2>2, AnswersStay DEF Kept, Staged
<1>8. CASE Responded
  <2>1. Carries(wire'["device"], <<Data(Asked)>>)
    <3>1. Carries(wire["device"], <<Ack, Data(Asked)>>)
      BY <1>8 DEF Responded, Stage
    <3>2. Carries(wire'["device"], Tail(<<Ack, Data(Asked)>>))
      BY <1>4, <1>5, <3>1
    <3> QED  BY <3>2, Tuples
  <2>2. Answering'
    BY <1>1, <1>3, <1>8, <2>1 DEF Responded, Answering, Stage
  <2> QED  BY <1>1, <1>3, <2>2, AnswersStay DEF Kept, Staged
<1>9. CASE Unheeded
  <2>1. Carries(wire'["device"], <<>>)
    BY <1>4, <1>5, <1>9, Tuples DEF Unheeded, Stage
  <2>2. InVain'
    BY <1>1, <1>3, <1>9, <2>1 DEF Unheeded, InVain, Stage
  <2> QED  BY <1>1, <1>3, <2>2, AnswersStay DEF Kept, Staged
<1> QED  BY <1>6, <1>7, <1>8, <1>9

LEMMA ServerAckedSmooth == ASSUME Smooth, ServerAcked PROVE Kept'
<1>1. /\ Reads("server", "ack", {"ack"}) /\ wire' = Taken("server")
      /\ pc' = [pc EXCEPT !["server"] = "idle"]
      /\ UNCHANGED <<sending, request, handled, unanswered, result>>
  BY DEF ServerAcked, app
<1>2. LinkInv /\ Staged /\ wire \in [End -> Seq(Frame)] /\ Places /\ pc["server"] = "ack"
  BY <1>1, CallFacts DEF Smooth, Reads
<1>3. /\ pc'["server"] = "idle" /\ pc'["device"] = pc["device"] /\ Asked' = Asked
      /\ wire'["server"] = Tail(wire["server"]) /\ wire'["device"] = wire["device"]
  BY <1>1, <1>2, EndFacts DEF Places, Taken, Asked
<1>4. /\ Ack \in Frame /\ Uncut(<<>>) /\ Uncut(<<Ack>>)
      /\ pc["device"] # "idle" => Data(Asked) \in Frame /\ Uncut(<<Ack, Data(Asked)>>)
  BY <1>2, CallFacts
<1>5. ASSUME NEW t, Uncut(t), Carries(wire["server"], t)
      PROVE  t # <<>> /\ Carries(wire'["server"], Tail(t))
  BY <1>1, <1>2, <1>3, <1>5, ReadsCarried, EndFacts
<1>6. Acking \/ AskingEarly
  BY <1>2, <1>4, <1>5
     DEF Staged, Resting, Asking, Accepted, Responded, Awaiting, Answering, Unheeded, InVain,
         Gone, Stage
<1>7. CASE Acking
  <2>1. Carries(wire'["server"], <<>>)
    BY <1>4, <1>5, <1>7, Tuples DEF Acking, Stage
  <2>2. Resting'
    BY <1>1, <1>3, <1>7, <2>1 DEF Resting, Acking, Stage
  <2> QED  BY <1>1, <1>2, <1>3, <2>2, AnswersStay DEF Kept, Staged
<1>8. CASE AskingEarly
  <2>1. Data(Asked) \in Frame /\ Uncut(<<Ack, Data(Asked)>>)
    BY <1>4, <1>8 DEF AskingEarly, Stage
  <2>2. Carries(wire'["server"], <<Data(Asked)>>)
    BY <1>4, <1>5, <1>8, <2>1, Tuples DEF AskingEarly, Stage
  <2>3. Asking'
    BY <1>1, <1>3, <1>8, <2>2 DEF AskingEarly, Asking, Stage
  <2> QED  BY <1>1, <1>2, <1>3, <2>3, AnswersStay DEF Kept, Staged
<1> QED  BY <1>6, <1>7, <1>8

LEMMA WakeSmooth == ASSUME Smooth, Wake PROVE Kept'
<1>1. /\ pc["server"] = "idle" /\ pc' = [pc EXCEPT !["server"] = "read"]
      /\ UNCHANGED <<wire, sending, request, handled, unanswered, result>>
  BY DEF Wake, app
<1>2. LinkInv /\ Staged /\ Places
  BY CallFacts DEF Smooth
<1>3. pc'["server"] = "read" /\ pc'["device"] = pc["device"] /\ Asked' = Asked
  BY <1>1, <1>2, EndFacts DEF Places, Asked
<1>4. Resting \/ Asking \/ Unheeded \/ InVain
  BY <1>1, <1>2 DEF Staged, Acking, AskingEarly, Accepted, Responded, Awaiting, Answering, Gone, Stage
<1>5. Resting' \/ Asking' \/ Unheeded' \/ InVain'
  BY <1>1, <1>3, <1>4 DEF Resting, Asking, Unheeded, InVain, Stage, Ack
<1> QED  BY <1>1, <1>3, <1>5, AnswersStay DEF Kept, Staged


LEMMA ReadRequestSmooth == ASSUME Smooth, ReadRequest, cuts' = 0 PROVE Kept'
<1> DEFINE w == Taken("server")
<1>1. /\ Reads("server", "read", {"data"}) /\ Sent(w, "server", Ack)
      /\ request' = Head(wire["server"]).msg /\ pc' = [pc EXCEPT !["server"] = "handle"]
      /\ UNCHANGED <<sending, handled, unanswered, result>>
  BY DEF ReadRequest, Ack
<1>2. /\ LinkInv /\ Staged /\ cuts = 0 /\ wire \in [End -> Seq(Frame)] /\ Places
      /\ pc["server"] = "read" /\ wire["server"] # <<>>
  BY <1>1, CallFacts DEF Smooth, Reads
<1>3. /\ pc'["server"] = "handle" /\ pc'["device"] = pc["device"] /\ Asked' = Asked
      /\ w \in [End -> Seq(Frame)]
      /\ w["server"] = Tail(wire["server"]) /\ w["device"] = wire["device"]
  BY <1>1, <1>2, WiresTaken, EndFacts DEF Places, Taken, Asked, Wires
<1> HIDE DEF w
<1>4. /\ Ack \in Frame /\ Ack.cmd = "ack" /\ Uncut(<<>>)
      /\ pc["device"] # "idle" =>
           /\ Data(Asked) \in Frame /\ Data(Asked).msg = Asked /\ Uncut(<<Data(Asked)>>)
  BY <1>2, CallFacts
<1>5. Asking
  <2>1. ~Resting /\ ~Unheeded /\ ~InVain
    BY <1>1, <1>2, <1>4, ReadsCarried, EndFacts DEF Resting, Unheeded, InVain, Stage
  <2> QED
    BY <1>2, <2>1
       DEF Staged, Acking, AskingEarly, Accepted, Responded, Awaiting, Answering, Gone, Stage
<1>6. /\ pc["device"] = "ack" /\ Carries(wire["server"], <<Data(Asked)>>)
      /\ Carries(w["device"], <<>>) /\ Len(handled) = Asked - 1
  BY <1>3, <1>5 DEF Asking, Stage
<1>7. request' = Asked /\ Carries(w["server"], <<>>)
  <2>1. Uncut(<<Data(Asked)>>) /\ Data(Asked) \in Frame
    BY <1>4, <1>6
  <2>2. Head(<<Data(Asked)>>) = Data(Asked) /\ Tail(<<Data(Asked)>>) = <<>>
    BY <2>1, Tuples
  <2>3. /\ Head(<<Data(Asked)>>) = Head(wire["server"])
        /\ Carries(Tail(wire["server"]), Tail(<<Data(Asked)>>))
    BY <1>1, <1>2, <1>6, <2>1, ReadsCarried, EndFacts
  <2> QED  BY <1>1, <1>3, <1>4, <1>6, <2>2, <2>3
<1>8. Carries(wire'["device"], <<Ack>>) /\ Carries(wire'["server"], <<>>)
  <2>1. Carries(wire'["device"], Append(<<>>, Ack)) /\ wire'["server"] = w["server"]
    BY <1>1, <1>2, <1>3, <1>4, <1>6, SentCarried, EndFacts
  <2> QED  BY <1>4, <1>7, <2>1, Tuples
<1>9. Accepted'
  BY <1>1, <1>3, <1>6, <1>7, <1>8 DEF Accepted, Stage, Ack
<1> QED  BY <1>1, <1>2, <1>3, <1>9, AnswersStay DEF Kept, Staged

LEMMA ReadResponseSmooth == ASSUME Smooth, ReadResponse, cuts' = 0 PROVE Kept'
<1> DEFINE w == Taken("device")
<1>1. /\ Reads("device", "read", {"data"}) /\ Sent(w, "device", Ack)
      /\ result' = [result EXCEPT ![Asked] = Head(wire["device"]).msg]
      /\ pc' = [pc EXCEPT !["device"] = "idle"]
      /\ UNCHANGED <<sending, handled, unanswered>>
  BY DEF ReadResponse, Ack, Asked
<1>2. /\ LinkInv /\ Staged /\ cuts = 0 /\ wire \in [End -> Seq(Frame)] /\ Places
      /\ pc["device"] = "read" /\ wire["device"] # <<>>
  BY <1>1, CallFacts DEF Smooth, Reads
<1>3. /\ pc'["device"] = "idle" /\ pc'["server"] = pc["server"] /\ Asked' = Asked
      /\ w \in [End -> Seq(Frame)]
      /\ w["device"] = Tail(wire["device"]) /\ w["server"] = wire["server"]
  BY <1>1, <1>2, WiresTaken, EndFacts DEF Places, Taken, Asked, Wires
<1> HIDE DEF w
<1>4. /\ Ack \in Frame /\ Ack.cmd = "ack" /\ Uncut(<<>>) /\ Asked \in Request
      /\ Data(Asked) \in Frame /\ Data(Asked).msg = Asked /\ Uncut(<<Data(Asked)>>)
  BY <1>2, CallFacts
<1>5. Answering
  <2>1. ~Awaiting /\ ~InVain
    BY <1>1, <1>2, <1>4, ReadsCarried, EndFacts DEF Awaiting, InVain, Stage
  <2> QED
    BY <1>2, <2>1
       DEF Staged, Resting, Acking, Asking, AskingEarly, Accepted, Responded, Unheeded, Gone,
           Stage
<1>6. /\ pc["server"] = "ack" /\ Carries(wire["device"], <<Data(Asked)>>)
      /\ Carries(w["server"], <<>>) /\ Len(handled) = Asked
  BY <1>3, <1>5 DEF Answering, Stage
<1>7. Head(wire["device"]).msg = Asked /\ Carries(w["device"], <<>>)
  <2>1. Head(<<Data(Asked)>>) = Data(Asked) /\ Tail(<<Data(Asked)>>) = <<>>
    BY <1>4, Tuples
  <2>2. /\ Head(<<Data(Asked)>>) = Head(wire["device"])
        /\ Carries(Tail(wire["device"]), Tail(<<Data(Asked)>>))
    BY <1>1, <1>2, <1>4, <1>6, ReadsCarried, EndFacts
  <2> QED  BY <1>3, <1>4, <2>1, <2>2
<1>8. Carries(wire'["server"], <<Ack>>) /\ Carries(wire'["device"], <<>>)
  <2>1. Carries(wire'["server"], Append(<<>>, Ack)) /\ wire'["device"] = w["device"]
    BY <1>1, <1>2, <1>3, <1>4, <1>6, SentCarried, EndFacts
  <2> QED  BY <1>4, <1>7, <2>1, Tuples
<1>9. Acking'
  BY <1>1, <1>3, <1>6, <1>8 DEF Acking, Stage, Ack
<1>10. \A m \in Request : result'[m] = IF m = Asked THEN Asked ELSE result[m]
  BY <1>1, <1>2, <1>7, InvFacts
<1>11. Answered' /\ InTurn'
  BY <1>1, <1>2, <1>3, <1>6, <1>10 DEF Smooth, Answered, InTurn
<1> QED  BY <1>9, <1>11 DEF Kept, Staged

LEMMA RespondSmooth == ASSUME Smooth, Respond, cuts' = 0 PROVE Kept'
<1>1. /\ pc["server"] = "handle" /\ handled' = Append(handled, request)
      /\ Sent(wire, "server", Data(request)) /\ pc' = [pc EXCEPT !["server"] = "ack"]
      /\ sending' = [sending EXCEPT !["server"] = request] /\ UNCHANGED <<unanswered, result>>
  BY DEF Respond, SendFirst, Handled
<1>2. /\ LinkInv /\ Staged /\ cuts = 0 /\ wire \in [End -> Seq(Frame)] /\ Places
      /\ handled \in Seq(Message)
  BY CallFacts, InvFacts DEF Smooth
<1>3. Accepted \/ Awaiting
  BY <1>1, <1>2 DEF Staged, Resting, Acking, Asking, AskingEarly, Responded, Answering, Unheeded,
                   InVain, Gone, Stage
<1>4. /\ request = Asked /\ Len(handled) = Asked - 1 /\ pc["device"] # "idle"
      /\ Carries(wire["server"], <<>>)
  BY <1>3 DEF Accepted, Awaiting, Stage
<1>5. /\ Ack \in Frame /\ Uncut(<<>>) /\ Uncut(<<Ack>>)
      /\ Asked \in Nat /\ Data(Asked) \in Frame /\ Data(Asked).cmd = "data"
  BY <1>2, <1>4, CallFacts
<1>6. pc'["server"] = "ack" /\ pc'["device"] = pc["device"] /\ Asked' = Asked
  BY <1>1, <1>2, InvFacts, EndFacts DEF Places, Asked
<1>7. /\ Len(handled') = Asked /\ handled'[Asked] = Asked
      /\ \A i \in 1..(Asked - 1) : handled'[i] = handled[i]
  BY <1>1, <1>2, <1>4, <1>5
<1>8. \A t : Uncut(t) /\ Carries(wire["device"], t) =>
        Carries(wire'["device"], Append(t, Data(Asked)))
  BY <1>1, <1>2, <1>4, <1>5, SentCarried, EndFacts DEF Smooth
<1>9. wire'["server"] = wire["server"]
  BY <1>1, <1>2, <1>4, <1>5, InvFacts, SentWires, EndFacts DEF Counters
<1>10. ASSUME Accepted PROVE Staged'
  <2>1. Carries(wire'["device"], <<Ack, Data(Asked)>>)
    <3>1. Carries(wire'["device"], Append(<<Ack>>, Data(Asked)))
      BY <1>5, <1>8, <1>10 DEF Accepted, Stage
    <3> QED  BY <1>5, <3>1, Tuples
  <2>2. Responded'
    BY <1>4, <1>6, <1>7, <1>9, <1>10, <2>1 DEF Accepted, Responded, Stage, Ack
  <2> QED  BY <2>2 DEF Staged
<1>11. ASSUME Awaiting PROVE Staged'
  <2>1. Carries(wire'["device"], <<Data(Asked)>>)
    <3>1. Carries(wire'["device"], Append(<<>>, Data(Asked)))
      BY <1>5, <1>8, <1>11 DEF Awaiting, Stage
    <3> QED  BY <1>5, <3>1, Tuples
  <2>2. Answering'
    BY <1>4, <1>6, <1>7, <1>9, <1>11, <2>1 DEF Awaiting, Answering, Stage
  <2> QED  BY <2>2 DEF Staged
<1>12. Answered'
  BY <1>1, <1>6 DEF Smooth, Answered
<1>13. InTurn'
  BY <1>1, <1>4, <1>5, <1>7 DEF Smooth, InTurn
<1> QED  BY <1>3, <1>10, <1>11, <1>12, <1>13 DEF Kept

LEMMA UnansweredSmooth == ASSUME Smooth, LeaveUnanswered PROVE Kept'
<1>1. /\ pc["server"] = "handle" /\ handled' = Append(handled, request)
      /\ unanswered' = unanswered \cup {request}
      /\ \E next \in {"idle", "closed"} : pc' = [pc EXCEPT !["server"] = next]
      /\ UNCHANGED <<wire, sending, result>>
  BY DEF LeaveUnanswered, Handled
<1>2. LinkInv /\ Staged /\ Places /\ handled \in Seq(Message) /\ Asked \in Nat
  BY CallFacts, InvFacts DEF Smooth
<1>3. Accepted \/ Awaiting
  BY <1>1, <1>2 DEF Staged, Resting, Acking, Asking, AskingEarly, Responded, Answering, Unheeded,
                   InVain, Gone, Stage
<1>4. request = Asked /\ Len(handled) = Asked - 1 /\ pc["device"] # "idle"
  BY <1>3 DEF Accepted, Awaiting, Stage
<1>5. /\ pc'["server"] \in {"idle", "closed"} /\ pc'["device"] = pc["device"] /\ Asked' = Asked
      /\ Asked \in unanswered'
  BY <1>1, <1>2, <1>4, EndFacts DEF Places, Asked
<1>6. /\ Len(handled') = Asked /\ handled'[Asked] = Asked
      /\ \A i \in 1..(Asked - 1) : handled'[i] = handled[i]
  BY <1>1, <1>2, <1>4
<1>7. Unheeded' \/ InVain'
  BY <1>1, <1>3, <1>5, <1>6 DEF Accepted, Awaiting, Unheeded, InVain, Stage, Ack
<1>8. Answered'
  BY <1>1, <1>4, <1>5 DEF Smooth, Answered
<1>9. InTurn'
  BY <1>1, <1>2, <1>4, <1>6 DEF Smooth, InTurn
<1> QED  BY <1>7, <1>8, <1>9 DEF Kept, Staged


LEMMA CallSmooth == ASSUME Smooth, Call, cuts' = 0 PROVE Kept'
<1> DEFINE n == Asked + 1
<1>1. /\ pc["device"] = "idle" /\ Asked < MaxRequests
      /\ Sent(wire, "device", Data(n)) /\ pc' = [pc EXCEPT !["device"] = "ack"]
      /\ sending' = [sending EXCEPT !["device"] = n]
      /\ UNCHANGED <<request, handled, unanswered, result>>
  BY DEF Call, SendFirst, Asked, app
<1>2. /\ LinkInv /\ Staged /\ cuts = 0 /\ wire \in [End -> Seq(Frame)] /\ Places
      /\ Asked \in Nat /\ Ack \in Frame /\ Uncut(<<>>) /\ Uncut(<<Ack>>)
  BY CallFacts DEF Smooth
<1>3. n \in Message /\ n \in Nat /\ n - 1 = Asked
  BY <1>1, <1>2, ConstantFacts
<1>4. Data(n) \in Frame /\ Data(n).cmd = "data"
  BY <1>3, FrameFacts
<1>5. pc'["device"] = "ack" /\ pc'["server"] = pc["server"] /\ Asked' = n
  BY <1>1, <1>2, InvFacts, EndFacts DEF Places, Asked
<1>6. wire'["device"] = wire["device"]
  BY <1>1, <1>2, <1>4, InvFacts, SentWires, EndFacts DEF Counters
<1>7. \A t : Uncut(t) /\ Carries(wire["server"], t) =>
        Carries(wire'["server"], Append(t, Data(n)))
  BY <1>1, <1>2, <1>4, SentCarried, EndFacts DEF Smooth
<1> HIDE DEF n
<1>8. Resting \/ Acking \/ Gone
  BY <1>1, <1>2 DEF Staged, Asking, AskingEarly, Accepted, Responded, Awaiting, Answering,
                   Unheeded, InVain, Stage
<1>9. ASSUME Resting PROVE Staged'
  <2>1. Carries(wire'["server"], Append(<<>>, Data(n)))
    BY <1>2, <1>7, <1>9 DEF Resting, Stage
  <2>2. Carries(wire'["server"], <<Data(n)>>)
    BY <1>4, <2>1, Tuples
  <2>3. Asking'
    BY <1>1, <1>3, <1>5, <1>6, <1>9, <2>2 DEF Resting, Asking, Stage
  <2> QED  BY <2>3 DEF Staged
<1>10. ASSUME Acking PROVE Staged'
  <2>1. Carries(wire'["server"], Append(<<Ack>>, Data(n)))
    BY <1>2, <1>7, <1>10 DEF Acking, Stage
  <2>2. Carries(wire'["server"], <<Ack, Data(n)>>)
    BY <1>2, <1>4, <2>1, Tuples
  <2>3. AskingEarly'
    BY <1>1, <1>3, <1>5, <1>6, <1>10, <2>2 DEF Acking, AskingEarly, Stage, Ack
  <2> QED  BY <2>3 DEF Staged
<1>11. ASSUME Gone PROVE Staged'
  <2>1. Gone'
    BY <1>5, <1>6, <1>11 DEF Gone
  <2> QED  BY <2>1 DEF Staged
<1>12. Answered'
  <2>1. ASSUME pc["server"] # "closed", NEW m \in Request, m < n
        PROVE  result[m] = m \/ m \in unanswered
    <3>1. m < Asked \/ m = Asked
      BY <1>2, <1>3, <2>1, ConstantFacts
    <3> QED  BY <1>1, <2>1, <3>1 DEF Smooth, Answered
  <2> QED  BY <1>1, <1>5, <2>1 DEF Answered
<1>13. InTurn'
  BY <1>1 DEF Smooth, InTurn
<1> QED  BY <1>8, <1>9, <1>10, <1>11, <1>12, <1>13 DEF Kept

LEMMA HeartbeatSmooth == ASSUME Smooth, Heartbeat, cuts' = 0 PROVE Kept'
<1>1. /\ pc["device"] = "idle" /\ Sent(wire, "device", Header("heartbeat"))
      /\ UNCHANGED <<pc, sending, request, handled, unanswered, result>>
  BY DEF Heartbeat, app
<1>2. /\ LinkInv /\ Staged /\ cuts = 0 /\ wire \in [End -> Seq(Frame)]
      /\ Uncut(<<>>) /\ Uncut(<<Ack>>)
  BY CallFacts DEF Smooth
<1>3. Header("heartbeat") \in Frame /\ Header("heartbeat").cmd = "heartbeat"
  BY FrameFacts DEF Cmd
<1>4. wire'["device"] = wire["device"]
  BY <1>1, <1>2, <1>3, InvFacts, SentWires, EndFacts DEF Counters
<1>5. \A t : Uncut(t) /\ Carries(wire["server"], t) => Carries(wire'["server"], t)
  BY <1>1, <1>2, <1>3, SentCarried, EndFacts DEF Smooth
<1>6. Resting \/ Acking \/ Gone
  BY <1>1, <1>2 DEF Staged, Asking, AskingEarly, Accepted, Responded, Awaiting, Answering,
                   Unheeded, InVain, Stage
<1>7. Asked' = Asked
  BY <1>1 DEF Asked
<1>8. Resting' \/ Acking' \/ Gone'
  BY <1>1, <1>2, <1>4, <1>5, <1>6, <1>7 DEF Resting, Acking, Gone, Stage, Ack
<1> QED  BY <1>1, <1>8, AnswersStay DEF Kept, Staged

-----------------------------------------------------------------------------
(* The number of faults never decreases. *)

LEMMA FaultsGrow ==
  ASSUME LinkInv, [Next]_vars
  PROVE  /\ late' \in {late, late + 1} /\ cuts' \in {cuts, cuts + 1}
         /\ late \in Nat /\ cuts \in Nat
<1>1. late \in Nat /\ cuts \in Nat
  BY InvFacts, ConstantFacts DEF Counters
<1>2. CASE UNCHANGED vars
  BY <1>1, <1>2 DEF vars
<1>3. ASSUME NEW w, NEW e \in End, NEW f, Sent(w, e, f) PROVE cuts' \in {cuts, cuts + 1}
  BY <1>3 DEF Sent, SentWhole, SentInPart
<1>4. ASSUME NEW e \in End, NEW w, SendAgain(e, w) \/ NoMessage(e, w)
      PROVE  cuts' \in {cuts, cuts + 1}
  BY <1>3, <1>4, EndFacts
     DEF SendAgain, NoMessage, ReadAgain, DeviceGivesUp, ServerGivesUp, Sent
<1>5. ASSUME NEW e \in End, NEW where, TimesOut(e, where) PROVE late' \in {late, late + 1}
  BY <1>5 DEF TimesOut
<1>6. ASSUME NEW e \in End, Link(e) PROVE late' \in {late, late + 1} /\ cuts' \in {cuts, cuts + 1}
  BY <1>4, <1>5, <1>6
     DEF Link, SkipHeartbeat, NoAck, AckTimeout, ReadOther, ReadTimeout
<1>7. CASE \/ DeviceAcked \/ ServerAcked \/ Wake \/ LeaveUnanswered
  BY <1>1, <1>7 DEF DeviceAcked, ServerAcked, Wake, LeaveUnanswered
<1>8. CASE \/ ReadRequest \/ ReadGarbledRequest \/ ReadResponse \/ ReadGarbledResponse
           \/ Respond \/ Call \/ Heartbeat
  BY <1>1, <1>3, <1>8, EndFacts
     DEF ReadRequest, ReadGarbledRequest, ReadResponse, ReadGarbledResponse, Respond, Call,
         Heartbeat, SendFirst
<1> QED  BY <1>1, <1>2, <1>6, <1>7, <1>8, EndFacts DEF Next, Device, Server

LEMMA SmoothStep ==
  ASSUME Smooth, [Next]_vars, late' = 0, cuts' = 0
  PROVE  Kept'
<1>1. CASE UNCHANGED vars
  BY <1>1
     DEF vars, Smooth, Kept, Staged, Answered, InTurn, Asked, Stage, Ack, Gone, Resting, Acking,
           Asking, AskingEarly, Accepted, Responded, Awaiting, Answering, Unheeded, InVain
<1>2. ASSUME NEW e \in End, Link(e) PROVE Kept'
  BY <1>2, SkipSmooth, NothingStray, AckTimeoutSmooth, ReadTimeoutSmooth DEF Link
<1>3. CASE Device
  BY <1>2, <1>3, DeviceAckedSmooth, ReadResponseSmooth, NothingStray, EndFacts DEF Device
<1>4. CASE Server
  BY <1>2, <1>4, ServerAckedSmooth, WakeSmooth, ReadRequestSmooth, NothingStray, RespondSmooth,
     UnansweredSmooth, EndFacts DEF Server
<1>5. CASE Call
  BY <1>5, CallSmooth
<1>6. CASE Heartbeat
  BY <1>6, HeartbeatSmooth
<1> QED  BY <1>1, <1>3, <1>4, <1>5, <1>6 DEF Next

LEMMA FaultlessInit == Init => Faultless
<1> SUFFICES ASSUME Init PROVE Faultless
  OBVIOUS
<1>1. Resting
  BY CarriesNothing, EndFacts DEF Init, Resting, Stage, Asked, Garbage
<1>2. Answered /\ InTurn
  BY ConstantFacts, EndFacts DEF Init, Answered, InTurn, Asked, Request
<1> QED  BY <1>1, <1>2 DEF Faultless, Staged

LEMMA FaultlessNext == LinkInv /\ Faultless /\ [Next]_vars => Faultless'
<1> SUFFICES ASSUME LinkInv, Faultless, [Next]_vars, late' = 0, cuts' = 0 PROVE Kept'
  BY DEF Faultless, Kept
<1>1. late = 0 /\ cuts = 0
  BY FaultsGrow
<1>2. Smooth
  BY <1>1 DEF Smooth, Faultless
<1> QED  BY <1>2, SmoothStep

(* For any number of calls, attempts and heartbeats: a link on which no frame is
   cut and no answer late handles every request once and in order, gives no call
   another one's response, and leaves one without response only if the handler has
   closed or has made none for it. *)
THEOREM FaultlessLink == Spec => []FaultlessExchange
<1> DEFINE Inv == LinkInv /\ Faultless
<1>1. Init => Inv
  BY LinkInit, FaultlessInit
<1>2. Inv /\ [Next]_vars => Inv'
  BY LinkNext, FaultlessNext
<1>3. Inv => FaultlessExchange
  <2> SUFFICES ASSUME Inv, late = 0, cuts = 0 PROVE FaultlessExchange
    BY DEF FaultlessExchange
  <2>1. LinkInv /\ Answered /\ InTurn
    BY DEF Faultless
  <2>2. handled \in Seq(Message) /\ Asked \in 0..MaxRequests
    BY <2>1, InvFacts, EndFacts, ConstantFacts DEF Asked
  <2>3. handled = [i \in 1..Len(handled) |-> i]
    BY <2>1, <2>2 DEF InTurn
  <2>4. ASSUME pc["device"] = "idle", pc["server"] # "closed", NEW m \in 1..sending["device"]
        PROVE  result[m] = m \/ m \in unanswered
    <3>1. m \in Request /\ (m < Asked \/ m = Asked)
      BY <2>2, <2>4, ConstantFacts DEF Asked, Request
    <3> QED  BY <2>1, <2>4, <3>1 DEF Answered
  <2> QED  BY <2>1, <2>3, <2>4 DEF FaultlessExchange, InTurn
<1> QED  BY <1>1, <1>2, <1>3, PTL DEF Spec


-----------------------------------------------------------------------------
(* A request that is answered is read twice only after three faults.  What was read
   last may come again while it is under way or the device may still repeat it.
   The handler drops what comes while it waits for the acknowledgement of its
   response, which it sends as often as the device may repeat the request; to
   give up before the last repetition it must wait in vain twice, and there is no
   repetition without a fault. *)

Faults == late + cuts

(* The number of frames on a wire without a cut one at its end. *)
Full(s) == IF s # <<>> /\ Last(s) = Cut THEN Len(s) - 1 ELSE Len(s)

IsData(f, m) == f.cmd = "data" /\ f.msg = m

(* A frame was sent as m, whatever is left of it. *)
SentAs(f, m) == IsData(f, m) \/ f.cmd \in {"garbled", "cut"}

NoneOf(s, m) == \A i \in 1..Len(s) : ~IsData(s[i], m)
OnlyOf(s, m) == \A i \in 1..Len(s) : SentAs(s[i], m)

(* The repetitions of a message follow each other, as many as there are attempts. *)
Blocks(s) ==
  \A i, j \in 1..Len(s) : i <= j /\ s[i].cmd = "data" /\ IsData(s[j], s[i].msg) =>
    /\ j - i < RetryMax
    /\ \A l \in i..j : SentAs(s[l], s[i].msg)

(* From the first m on there is nothing else, and less than n + 1 of it. *)
EndsIn(s, m, n) ==
  \A i \in 1..Len(s) : IsData(s[i], m) =>
    /\ Full(s) - i < n
    /\ \A l \in i..Len(s) : SentAs(s[l], m)

(* Up to the last m there is nothing else, and less than n of it. *)
StartsWith(s, m, n) ==
  \A j \in 1..Len(s) : IsData(s[j], m) =>
    /\ j < n
    /\ \A l \in 1..j : SentAs(s[l], m)

LastBlock == pc["device"] = "ack" => EndsIn(wire["server"], Asked, retry["device"])

(* The attempt of the handler to send its response. *)
Attempt == IF pc["server"] = "handle" THEN 1 ELSE retry["server"]

Occupied ==
  /\ pc["server"] \in {"handle", "ack"}
  /\ pc["server"] = "handle" => request = LastReceived

(* Repetitions under way of the request that was read last, unless it is left
   unanswered. *)
MayArrive == LastReceived \notin unanswered /\ ~NoneOf(wire["server"], LastReceived)

UnderWay ==
  MayArrive =>
    /\ Occupied /\ Faults >= 1
    /\ StartsWith(wire["server"], LastReceived, RetryMax + Faults - Attempt)

(* Repetitions to come: the device sends the request again unless an
   acknowledgement is the first thing it will read. *)
AckFirst(s) ==
  \E i \in 1..Len(s) : s[i].cmd = "ack" /\ \A l \in 1..(i - 1) : s[l].cmd = "heartbeat"
MayRepeat ==
  /\ pc["device"] = "ack" /\ retry["device"] < RetryMax /\ ~AckFirst(wire["device"])
  /\ LastReceived = Asked /\ LastReceived \notin unanswered

(* Both ends wait and nothing is on its way. *)
Silent(s) == \A i \in 1..Len(s) : s[i].cmd \in {"heartbeat", "cut"}
Stuck ==
  pc["server"] = "ack" /\ Full(wire["server"]) = 0 /\ Silent(wire["device"])

ToCome ==
  MayRepeat =>
    /\ Occupied /\ Faults >= 1 /\ OnlyOf(wire["server"], Asked)
    /\ Full(wire["server"]) + Attempt < retry["device"] + Faults
    /\ Stuck => Attempt + 1 < retry["device"] + Faults

Once ==
  \A i, j \in 1..Len(received) :
    i < j => \/ received[i] < received[j]
             \/ received[i] = received[j] /\ received[i] \in unanswered


-----------------------------------------------------------------------------
(* What a frame that is sent or read changes of this. *)

LEMMA SentFrames ==
  /\ \A m \in Message : IsData(Data(m), m) /\ ~IsData(Cut, m) /\ ~IsData(Garbled, m)
  /\ \A f, m : IsData(f, m) => f.cmd = "data" /\ f.msg = m
  /\ \A f, m : f.cmd # "data" => ~IsData(f, m)
  /\ Cut # Garbled
BY FrameFacts DEF IsData

LEMMA FrontFrames ==
  ASSUME NEW s \in Seq(Frame), s # <<>>
  PROVE  /\ Front(s) \in Seq(Frame) /\ Len(Front(s)) = Len(s) - 1
         /\ \A i \in 1..(Len(s) - 1) : Front(s)[i] = s[i]
<1>1. Len(s) \in Nat /\ Len(s) >= 1
  OBVIOUS
<1> QED  BY <1>1 DEF Front

LEMMA JoinedFrames ==
  ASSUME NEW s \in Seq(Frame), NEW f \in Frame
  PROVE  /\ Joined(s, f) \in Seq(Frame)
         /\ Full(s) \in Nat /\ Full(s) <= Len(s) /\ Len(Joined(s, f)) = Full(s) + 1
         /\ \A i \in 1..Full(s) : i \in 1..Len(s) /\ Joined(s, f)[i] = s[i]
         /\ \A i \in 1..Len(s) : i \in 1..Full(s) \/ s[i] = Cut
         /\ Joined(s, f)[Full(s) + 1] \in {f, Garbled}
         /\ Full(Joined(s, f)) = IF f = Cut THEN Full(s) ELSE Full(s) + 1
         /\ f = Cut => Joined(s, f)[Full(s) + 1] = Cut
<1>1. Len(s) \in Nat
  OBVIOUS
<1>2. CASE s # <<>> /\ Last(s) = Cut
  <2>1. Len(s) > 0 /\ Full(s) = Len(s) - 1 /\ s[Len(s)] = Cut
    BY <1>1, <1>2 DEF Full, Last
  <2>2. /\ Front(s) \in Seq(Frame) /\ Len(Front(s)) = Len(s) - 1
        /\ \A i \in 1..(Len(s) - 1) : Front(s)[i] = s[i]
    BY <1>2, FrontFrames
  <2> DEFINE g == IF f = Cut THEN Cut ELSE Garbled
  <2>3. g \in Frame /\ Joined(s, f) = Append(Front(s), g) /\ (g = Cut <=> f = Cut)
    BY <1>2, FrameFacts, SentFrames DEF Joined
  <2> HIDE DEF g
  <2>4. /\ Joined(s, f) \in Seq(Frame) /\ Len(Joined(s, f)) = Len(s)
        /\ Joined(s, f)[Len(s)] = g
        /\ \A i \in 1..(Len(s) - 1) : Joined(s, f)[i] = s[i]
    BY <2>1, <2>2, <2>3
  <2>5. Full(Joined(s, f)) = IF f = Cut THEN Full(s) ELSE Full(s) + 1
    BY <2>1, <2>3, <2>4 DEF Full, Last
  <2> QED  BY <1>1, <2>1, <2>4, <2>5 DEF g
<1>3. CASE ~(s # <<>> /\ Last(s) = Cut)
  <2>1. Full(s) = Len(s) /\ Joined(s, f) = Append(s, f)
    BY <1>3 DEF Full, Joined
  <2>2. /\ Joined(s, f) \in Seq(Frame) /\ Len(Joined(s, f)) = Len(s) + 1
        /\ Joined(s, f)[Len(s) + 1] = f
        /\ \A i \in 1..Len(s) : Joined(s, f)[i] = s[i]
    BY <2>1
  <2>3. Full(Joined(s, f)) = IF f = Cut THEN Full(s) ELSE Full(s) + 1
    BY <1>1, <2>1, <2>2 DEF Full, Last
  <2> QED  BY <1>1, <2>1, <2>2, <2>3
<1> QED  BY <1>2, <1>3

LEMMA TailFrames ==
  ASSUME NEW s \in Seq(Frame), s # <<>>
  PROVE  /\ Len(s) \in Nat /\ Len(s) > 0 /\ Head(s) = s[1]
         /\ Tail(s) \in Seq(Frame) /\ Len(Tail(s)) = Len(s) - 1
         /\ \A i \in 1..(Len(s) - 1) : i + 1 \in 1..Len(s) /\ Tail(s)[i] = s[i + 1]
         /\ Head(s).cmd # "cut" => Full(s) >= 1 /\ Full(Tail(s)) = Full(s) - 1
<1>1. /\ Len(s) \in Nat /\ Len(s) > 0 /\ Head(s) = s[1]
      /\ Tail(s) \in Seq(Frame) /\ Len(Tail(s)) = Len(s) - 1
      /\ \A i \in 1..(Len(s) - 1) : i + 1 \in 1..Len(s) /\ Tail(s)[i] = s[i + 1]
  OBVIOUS
<1>2. ASSUME Head(s).cmd # "cut" PROVE Full(s) >= 1 /\ Full(Tail(s)) = Full(s) - 1
  <2>1. CASE Len(s) = 1
    <3>1. s[Len(s)] # Cut /\ s[Len(s)] = Last(s)
      BY <1>1, <1>2, <2>1, FrameFacts DEF Last
    <3>2. Tail(s) = <<>>
      <4>1. \A t \in Seq(Frame) : Len(t) = 0 => t = <<>>
        OBVIOUS
      <4>2. Len(Tail(s)) = 0
        BY <1>1, <2>1
      <4> QED  BY <1>1, <4>1, <4>2
    <3>3. Full(Tail(s)) = 0 /\ Full(s) = Len(s)
      BY <3>1, <3>2 DEF Full
    <3> QED  BY <2>1, <3>3
  <2>2. CASE Len(s) > 1
    <3>1. Tail(s) # <<>> /\ Tail(s)[Len(Tail(s))] = s[Len(s)]
      <4>1. Len(s) - 1 \in 1..(Len(s) - 1) /\ (Len(s) - 1) + 1 = Len(s)
        BY <1>1, <2>2
      <4>2. Tail(s)[Len(s) - 1] = s[Len(s)]
        BY <1>1, <4>1
      <4>3. Len(Tail(s)) # 0
        BY <1>1, <2>2
      <4>4. Tail(s) # <<>>
        <5>1. Len(<<>>) = 0
          OBVIOUS
        <5> QED  BY <4>3, <5>1
      <4> QED  BY <1>1, <4>2, <4>4
    <3>2. Last(Tail(s)) = Last(s)
      BY <3>1 DEF Last
    <3> QED  BY <1>1, <2>2, <3>1, <3>2 DEF Full
  <2> QED  BY <1>1, <2>1, <2>2
<1> QED  BY <1>1, <1>2

LEMMA NothingOf ==
  /\ Full(<<>>) = 0 /\ Blocks(<<>>)
  /\ \A m, n : /\ NoneOf(<<>>, m) /\ OnlyOf(<<>>, m)
               /\ EndsIn(<<>>, m, n) /\ StartsWith(<<>>, m, n)
  /\ ~AckFirst(<<>>) /\ ~AckFirst(<<Cut>>)
<1>1. Len(<<>>) = 0 /\ Len(<<Cut>>) = 1 /\ <<Cut>>[1] = Cut
  OBVIOUS
<1> QED
  BY <1>1, FrameFacts DEF Full, Blocks, NoneOf, OnlyOf, EndsIn, StartsWith, AckFirst

(* Reading a frame. *)
LEMMA TailOf ==
  ASSUME NEW s \in Seq(Frame), s # <<>>, Head(s).cmd # "cut"
  PROVE  /\ Blocks(s) => Blocks(Tail(s))
         /\ \A m : NoneOf(s, m) => NoneOf(Tail(s), m)
         /\ \A m : OnlyOf(s, m) => OnlyOf(Tail(s), m) /\ SentAs(Head(s), m)
         /\ \A m, n : EndsIn(s, m, n) => EndsIn(Tail(s), m, n)
         /\ \A m : \A n \in Int : StartsWith(s, m, n) => StartsWith(Tail(s), m, n - 1)
         /\ \A m, n : StartsWith(s, m, n) /\ ~NoneOf(s, m) => SentAs(Head(s), m)
<1> DEFINE t == Tail(s)
<1>1. /\ Len(s) \in Nat /\ Len(s) > 0 /\ Head(s) = s[1] /\ 1 \in 1..Len(s)
      /\ t \in Seq(Frame) /\ Len(t) = Len(s) - 1
      /\ \A i \in 1..Len(t) : i + 1 \in 1..Len(s) /\ t[i] = s[i + 1]
      /\ Full(s) \in Int /\ Full(t) = Full(s) - 1
  <2>1. Full(s) \in Int
    BY JoinedFrames, FrameFacts
  <2>2. Len(s) \in Nat /\ Len(s) > 0 /\ 1 \in 1..Len(s)
    BY TailFrames
  <2> QED  BY <2>1, <2>2, TailFrames
<1> HIDE DEF t
<1>2. ASSUME Blocks(s) PROVE Blocks(t)
  <2> SUFFICES ASSUME NEW i \in 1..Len(t), NEW j \in 1..Len(t), i <= j,
                      t[i].cmd = "data", IsData(t[j], t[i].msg)
               PROVE  j - i < RetryMax /\ \A l \in i..j : SentAs(t[l], t[i].msg)
    BY DEF Blocks
  <2>1. /\ (j + 1) - (i + 1) < RetryMax
        /\ \A l \in (i + 1)..(j + 1) : SentAs(s[l], s[i + 1].msg)
    <3>1. /\ i + 1 \in 1..Len(s) /\ j + 1 \in 1..Len(s) /\ i + 1 <= j + 1
          /\ s[i + 1] = t[i] /\ s[j + 1] = t[j]
      BY <1>1
    <3> QED  BY <1>2, <3>1 DEF Blocks
  <2>2. ASSUME NEW l \in i..j PROVE SentAs(t[l], t[i].msg)
    <3>1. l \in 1..Len(t) /\ l + 1 \in (i + 1)..(j + 1)
      BY <1>1
    <3> QED  BY <1>1, <2>1, <3>1
  <2> QED  BY <1>1, <2>1, <2>2, ConstantFacts
<1>3. ASSUME NEW m, NoneOf(s, m) PROVE NoneOf(t, m)
  BY <1>1, <1>3 DEF NoneOf
<1>4. ASSUME NEW m, OnlyOf(s, m) PROVE OnlyOf(t, m) /\ SentAs(Head(s), m)
  BY <1>1, <1>4 DEF OnlyOf
<1>5. ASSUME NEW m, NEW n, EndsIn(s, m, n) PROVE EndsIn(t, m, n)
  <2> SUFFICES ASSUME NEW i \in 1..Len(t), IsData(t[i], m)
               PROVE  Full(t) - i < n /\ \A l \in i..Len(t) : SentAs(t[l], m)
    BY DEF EndsIn
  <2>1. Full(s) - (i + 1) < n /\ \A l \in (i + 1)..Len(s) : SentAs(s[l], m)
    BY <1>1, <1>5 DEF EndsIn
  <2>2. Full(t) - i = Full(s) - (i + 1)
    BY <1>1
  <2>3. ASSUME NEW l \in i..Len(t) PROVE SentAs(t[l], m)
    <3>1. l \in 1..Len(t) /\ l + 1 \in (i + 1)..Len(s)
      BY <1>1
    <3> QED  BY <1>1, <2>1, <3>1
  <2> QED  BY <2>1, <2>2, <2>3
<1>6. ASSUME NEW m, NEW n \in Int, StartsWith(s, m, n) PROVE StartsWith(t, m, n - 1)
  <2> SUFFICES ASSUME NEW j \in 1..Len(t), IsData(t[j], m)
               PROVE  j < n - 1 /\ \A l \in 1..j : SentAs(t[l], m)
    BY DEF StartsWith
  <2>1. j + 1 < n /\ \A l \in 1..(j + 1) : SentAs(s[l], m)
    BY <1>1, <1>6 DEF StartsWith
  <2>2. ASSUME NEW l \in 1..j PROVE SentAs(t[l], m)
    <3>1. l \in 1..Len(t) /\ l + 1 \in 1..(j + 1)
      BY <1>1
    <3> QED  BY <1>1, <2>1, <3>1
  <2> QED  BY <2>1, <2>2
<1>7. ASSUME NEW m, NEW n, StartsWith(s, m, n), ~NoneOf(s, m) PROVE SentAs(Head(s), m)
  <2>1. PICK j \in 1..Len(s) : IsData(s[j], m)
    BY <1>7 DEF NoneOf
  <2>2. 1 \in 1..j
    BY <1>1
  <2> QED  BY <1>1, <1>7, <2>1, <2>2 DEF StartsWith
<1> QED  BY <1>2, <1>3, <1>4, <1>5, <1>6, <1>7 DEF t


(* Sending another attempt of m, or a part of it. *)
LEMMA JoinedSame ==
  ASSUME NEW s \in Seq(Frame), NEW m \in Message, NEW f \in {Data(m), Cut}
  PROVE  /\ \A n \in Int : Blocks(s) /\ EndsIn(s, m, n) /\ n < RetryMax => Blocks(Joined(s, f))
         /\ \A n \in Nat : EndsIn(s, m, n) => EndsIn(Joined(s, f), m, n + 1)
         /\ OnlyOf(s, m) => OnlyOf(Joined(s, f), m)
         /\ \A n \in Int : OnlyOf(s, m) /\ StartsWith(s, m, n) /\ Full(s) + 1 < n =>
              StartsWith(Joined(s, f), m, n)
<1> DEFINE t == Joined(s, f)
           k == Full(s) + 1
<1>1. f \in Frame /\ Len(s) \in Nat /\ \A g \in {f, Garbled} : SentAs(g, m)
  BY FrameFacts, SentFrames DEF SentAs
<1>2. /\ t \in Seq(Frame) /\ k \in Nat /\ k >= 1 /\ Len(t) = k /\ Full(s) = k - 1
      /\ \A i \in 1..(k - 1) : i \in 1..Len(s) /\ t[i] = s[i]
      /\ \A i \in 1..Len(s) : i \in 1..(k - 1) \/ s[i] = Cut
      /\ SentAs(t[k], m) /\ Full(t) \in {k, k - 1}
      /\ (IsData(t[k], m) \/ t[k].cmd # "data")
  <2>1. k \in Nat /\ k >= 1 /\ Full(s) = k - 1 /\ Len(t) = k /\ t \in Seq(Frame)
    <3>1. Full(s) \in Nat /\ Len(t) = Full(s) + 1 /\ t \in Seq(Frame)
      BY <1>1, JoinedFrames
    <3> QED  BY <3>1
  <2>2. /\ \A i \in 1..Full(s) : i \in 1..Len(s) /\ t[i] = s[i]
        /\ \A i \in 1..Len(s) : i \in 1..Full(s) \/ s[i] = Cut
    BY <1>1, JoinedFrames
  <2>3. t[k] \in {f, Garbled} /\ Full(t) = IF f = Cut THEN Full(s) ELSE k
    BY <1>1, JoinedFrames
  <2>4. SentAs(t[k], m) /\ (IsData(t[k], m) \/ t[k].cmd # "data")
    BY <1>1, <2>3 DEF SentAs
  <2> HIDE DEF t, k
  <2> QED  BY <2>1, <2>2, <2>3, <2>4
<1>3. \A i \in 1..k : i \in 1..(k - 1) \/ i = k
  BY <1>2
<1> HIDE DEF t, k
<1>4. ASSUME NEW n \in Int, Blocks(s), EndsIn(s, m, n), n < RetryMax PROVE Blocks(t)
  <2> SUFFICES ASSUME NEW i \in 1..k, NEW j \in 1..k, i <= j,
                      t[i].cmd = "data", IsData(t[j], t[i].msg)
               PROVE  j - i < RetryMax /\ \A l \in i..j : SentAs(t[l], t[i].msg)
    BY <1>2 DEF Blocks
  <2>1. CASE j \in 1..(k - 1)
    <3>1. i \in 1..(k - 1) /\ \A l \in i..j : l \in 1..(k - 1)
      BY <1>2, <2>1
    <3>2. i \in 1..Len(s) /\ j \in 1..Len(s) /\ t[i] = s[i] /\ t[j] = s[j]
      BY <1>2, <2>1, <3>1
    <3>3. j - i < RetryMax /\ \A l \in i..j : SentAs(s[l], s[i].msg)
      BY <1>4, <3>2 DEF Blocks
    <3> QED  BY <1>2, <3>1, <3>2, <3>3
  <2>2. CASE j = k
    <3>1. t[j].cmd = "data" /\ t[j].msg = t[i].msg /\ IsData(t[k], m)
      BY <1>2, <2>2 DEF IsData
    <3>2. t[i].msg = m
      BY <2>2, <3>1 DEF IsData
    <3>3. CASE i = k
      <4>1. \A l \in i..j : l = k
        BY <1>2, <2>2, <3>3
      <4> QED  BY <1>2, <2>2, <3>2, <3>3, <4>1, ConstantFacts
    <3>4. CASE i \in 1..(k - 1)
      <4>1. i \in 1..Len(s) /\ IsData(s[i], m)
        BY <1>2, <3>2, <3>4 DEF IsData
      <4>2. (k - 1) - i < n /\ \A l \in i..Len(s) : SentAs(s[l], m)
        BY <1>2, <1>4, <4>1 DEF EndsIn
      <4>3. k - i < RetryMax
        BY <1>2, <1>4, <3>4, <4>2, ConstantFacts
      <4>4. ASSUME NEW l \in i..k PROVE SentAs(t[l], m)
        <5>1. l = k \/ (l \in 1..(k - 1) /\ l \in i..Len(s) /\ t[l] = s[l])
          <6>1. l # k => l \in 1..(k - 1)
            BY <1>2
          <6>2. l \in 1..(k - 1) => l \in 1..Len(s) /\ t[l] = s[l]
            BY <1>2
          <6> QED  BY <1>1, <6>1, <6>2
        <5> QED  BY <1>2, <4>2, <5>1
      <4> QED  BY <2>2, <3>2, <4>3, <4>4
    <3> QED  BY <1>3, <3>3, <3>4
  <2> QED  BY <1>3, <2>1, <2>2
<1>5. ASSUME NEW n \in Nat, EndsIn(s, m, n) PROVE EndsIn(t, m, n + 1)
  <2> SUFFICES ASSUME NEW i \in 1..k, IsData(t[i], m)
               PROVE  Full(t) - i < n + 1 /\ \A l \in i..k : SentAs(t[l], m)
    BY <1>2 DEF EndsIn
  <2>1. CASE i = k
    <3>1. \A l \in i..k : l = k
      BY <1>2, <2>1
    <3> QED  BY <1>2, <2>1, <3>1
  <2>2. CASE i \in 1..(k - 1)
    <3>1. (k - 1) - i < n /\ \A l \in i..Len(s) : SentAs(s[l], m)
      BY <1>2, <1>5, <2>2 DEF EndsIn
    <3>2. ASSUME NEW l \in i..k PROVE SentAs(t[l], m)
      <4>1. l # k => l \in 1..(k - 1)
        BY <1>2
      <4>2. l \in 1..(k - 1) => l \in i..Len(s) /\ t[l] = s[l]
        BY <1>1, <1>2
      <4> QED  BY <1>2, <3>1, <4>1, <4>2
    <3> QED  BY <1>2, <2>2, <3>1, <3>2
  <2> QED  BY <1>3, <2>1, <2>2
<1>6. ASSUME OnlyOf(s, m) PROVE OnlyOf(t, m)
  BY <1>2, <1>3, <1>6 DEF OnlyOf
<1>7. ASSUME NEW n \in Int, OnlyOf(s, m), StartsWith(s, m, n), k < n PROVE StartsWith(t, m, n)
  <2> SUFFICES ASSUME NEW j \in 1..k PROVE j < n /\ \A l \in 1..j : SentAs(t[l], m)
    BY <1>2 DEF StartsWith
  <2>1. \A l \in 1..j : l \in 1..k
    BY <1>2
  <2> QED  BY <1>2, <1>6, <1>7, <2>1 DEF OnlyOf
<1> QED  BY <1>4, <1>5, <1>6, <1>7 DEF t, k

(* Sending anything else. *)
LEMMA JoinedOther ==
  ASSUME NEW s \in Seq(Frame), NEW f \in Frame
  PROVE  /\ f.cmd # "data" /\ Blocks(s) => Blocks(Joined(s, f))
         /\ \A m : ~IsData(f, m) /\ NoneOf(s, m) => NoneOf(Joined(s, f), m)
         /\ \A m, n : ~IsData(f, m) /\ StartsWith(s, m, n) => StartsWith(Joined(s, f), m, n)
         /\ AckFirst(s) => AckFirst(Joined(s, f))
         /\ f.cmd \notin {"heartbeat", "cut"} => ~Silent(Joined(s, f))
<1> DEFINE t == Joined(s, f)
           k == Full(s) + 1
<1>1. /\ t \in Seq(Frame) /\ k \in Nat /\ k >= 1 /\ Len(t) = k /\ Len(s) \in Nat
      /\ \A i \in 1..(k - 1) : i \in 1..Len(s) /\ t[i] = s[i]
      /\ \A i \in 1..Len(s) : i \in 1..(k - 1) \/ s[i] = Cut
      /\ t[k] \in {f, Garbled}
  <2>1. /\ k \in Nat /\ k >= 1 /\ Full(s) = k - 1 /\ Len(t) = k /\ t \in Seq(Frame)
        /\ Len(s) \in Nat /\ t[k] \in {f, Garbled}
    <3>1. /\ Full(s) \in Nat /\ Len(t) = Full(s) + 1 /\ t \in Seq(Frame)
          /\ t[k] \in {f, Garbled}
      BY JoinedFrames
    <3> QED  BY <3>1
  <2>2. /\ \A i \in 1..Full(s) : i \in 1..Len(s) /\ t[i] = s[i]
        /\ \A i \in 1..Len(s) : i \in 1..Full(s) \/ s[i] = Cut
    BY JoinedFrames
  <2> HIDE DEF t, k
  <2> QED  BY <2>1, <2>2
<1>2. \A i \in 1..k : i \in 1..(k - 1) \/ i = k
  BY <1>1
<1> HIDE DEF t, k
<1>3. ASSUME NEW m, ~IsData(f, m) PROVE ~IsData(t[k], m)
  BY <1>1, <1>3, FrameFacts DEF IsData
<1>4. ASSUME f.cmd # "data", Blocks(s) PROVE Blocks(t)
  <2> SUFFICES ASSUME NEW i \in 1..k, NEW j \in 1..k, i <= j,
                      t[i].cmd = "data", IsData(t[j], t[i].msg)
               PROVE  j - i < RetryMax /\ \A l \in i..j : SentAs(t[l], t[i].msg)
    BY <1>1 DEF Blocks
  <2>1. j \in 1..(k - 1)
    BY <1>2, <1>3, <1>4 DEF IsData
  <2>2. i \in 1..(k - 1) /\ \A l \in i..j : l \in 1..(k - 1)
    BY <1>1, <2>1
  <2>3. i \in 1..Len(s) /\ j \in 1..Len(s) /\ t[i] = s[i] /\ t[j] = s[j]
    BY <1>1, <2>1, <2>2
  <2>4. j - i < RetryMax /\ \A l \in i..j : SentAs(s[l], s[i].msg)
    BY <1>4, <2>3 DEF Blocks
  <2> QED  BY <1>1, <2>2, <2>3, <2>4
<1>5. ASSUME NEW m, ~IsData(f, m), NoneOf(s, m) PROVE NoneOf(t, m)
  BY <1>1, <1>2, <1>3, <1>5 DEF NoneOf
<1>6. ASSUME NEW m, NEW n, ~IsData(f, m), StartsWith(s, m, n) PROVE StartsWith(t, m, n)
  <2> SUFFICES ASSUME NEW j \in 1..k, IsData(t[j], m)
               PROVE  j < n /\ \A l \in 1..j : SentAs(t[l], m)
    BY <1>1 DEF StartsWith
  <2>1. j \in 1..(k - 1)
    BY <1>2, <1>3, <1>6
  <2>2. j \in 1..Len(s) /\ IsData(s[j], m) /\ \A l \in 1..j : l \in 1..(k - 1)
    BY <1>1, <2>1
  <2>3. j < n /\ \A l \in 1..j : SentAs(s[l], m)
    BY <1>6, <2>2 DEF StartsWith
  <2> QED  BY <1>1, <2>2, <2>3
<1>7. ASSUME AckFirst(s) PROVE AckFirst(t)
  <2>1. PICK i \in 1..Len(s) : s[i].cmd = "ack" /\ \A l \in 1..(i - 1) : s[l].cmd = "heartbeat"
    BY <1>7 DEF AckFirst
  <2>2. i \in 1..(k - 1) /\ i \in 1..k /\ \A l \in 1..(i - 1) : l \in 1..(k - 1)
    BY <1>1, <2>1, FrameFacts
  <2>3. t[i] = s[i] /\ \A l \in 1..(i - 1) : t[l] = s[l]
    BY <1>1, <2>2
  <2>4. i \in 1..k /\ t[i].cmd = "ack" /\ \A l \in 1..(i - 1) : t[l].cmd = "heartbeat"
    BY <2>1, <2>2, <2>3
  <2> QED  BY <1>1, <2>4 DEF AckFirst
<1>8. ASSUME f.cmd \notin {"heartbeat", "cut"} PROVE ~Silent(t)
  <2>1. k \in 1..Len(t) /\ t[k].cmd \notin {"heartbeat", "cut"}
    BY <1>1, <1>8, FrameFacts
  <2> QED  BY <2>1 DEF Silent
<1> QED  BY <1>4, <1>5, <1>6, <1>7, <1>8 DEF t

(* What the device reads. *)
LEMMA DeviceTail ==
  ASSUME NEW s \in Seq(Frame), s # <<>>
  PROVE  /\ Head(s).cmd = "heartbeat" /\ AckFirst(s) => AckFirst(Tail(s))
         /\ Head(s).cmd = "heartbeat" /\ Silent(Tail(s)) => Silent(s)
         /\ Head(s).cmd # "heartbeat" /\ AckFirst(s) => Head(s).cmd = "ack"
<1>1. /\ Len(s) \in Nat /\ Len(s) > 0 /\ Head(s) = s[1] /\ Len(Tail(s)) = Len(s) - 1
      /\ \A i \in 1..(Len(s) - 1) : i + 1 \in 1..Len(s) /\ Tail(s)[i] = s[i + 1]
  BY TailFrames
<1>2. ASSUME AckFirst(s)
      PROVE  IF Head(s).cmd = "heartbeat" THEN AckFirst(Tail(s)) ELSE Head(s).cmd = "ack"
  <2>1. PICK i \in 1..Len(s) : s[i].cmd = "ack" /\ \A l \in 1..(i - 1) : s[l].cmd = "heartbeat"
    BY <1>2 DEF AckFirst
  <2>2. CASE i = 1
    BY <1>1, <2>1, <2>2
  <2>3. CASE i > 1
    <3>1. 1 \in 1..(i - 1) /\ Head(s).cmd = "heartbeat"
      BY <1>1, <2>1, <2>3
    <3>2. i - 1 \in 1..Len(Tail(s)) /\ (i - 1) + 1 = i /\ Tail(s)[i - 1].cmd = "ack"
      <4>1. i - 1 \in 1..(Len(s) - 1) /\ (i - 1) + 1 = i
        BY <1>1, <2>3
      <4> QED  BY <1>1, <2>1, <4>1
    <3>3. \A l \in 1..((i - 1) - 1) : Tail(s)[l].cmd = "heartbeat"
      <4>1. \A l \in 1..((i - 1) - 1) : l \in 1..(Len(s) - 1) /\ l + 1 \in 1..(i - 1)
        BY <1>1, <2>3
      <4> QED  BY <1>1, <2>1, <4>1
    <3> QED  BY <3>1, <3>2, <3>3 DEF AckFirst
  <2> QED  BY <2>2, <2>3
<1>3. ASSUME Head(s).cmd = "heartbeat", Silent(Tail(s)) PROVE Silent(s)
  <2> SUFFICES ASSUME NEW i \in 1..Len(s) PROVE s[i].cmd \in {"heartbeat", "cut"}
    BY DEF Silent
  <2>1. CASE i = 1
    BY <1>1, <1>3, <2>1
  <2>2. CASE i > 1
    <3>1. i - 1 \in 1..(Len(s) - 1) /\ (i - 1) + 1 = i
      BY <1>1, <2>2
    <3> QED  BY <1>1, <1>3, <3>1 DEF Silent
  <2> QED  BY <2>1, <2>2
<1> QED  BY <1>2, <1>3


-----------------------------------------------------------------------------
(* The inductive invariant, and how the steps of each end keep it. *)

BlocksKept == Blocks(wire["server"]) /\ LastBlock
Repetitions == UnderWay /\ ToCome /\ Once
FaultInv == LinkInv /\ Faultless /\ BlocksKept /\ (Faults <= 2 => Repetitions)

(* There is no repetition to fear of the request that was read last. *)
Clear == ~MayArrive /\ ~MayRepeat

LEMMA NumberFacts ==
  ASSUME LinkInv
  PROVE  /\ wire \in [End -> Seq(Frame)] /\ Places /\ received \in Seq(Request)
         /\ wire["server"] \in Seq(Frame) /\ wire["device"] \in Seq(Frame)
         /\ RetryMax \in Nat /\ RetryMax > 0 /\ retry \in [End -> 0..RetryMax]
         /\ retry["device"] \in Nat /\ retry["device"] <= RetryMax
         /\ retry["server"] \in Nat /\ retry["server"] <= RetryMax
         /\ Attempt \in Nat /\ Faults \in Nat /\ late \in Nat /\ cuts \in Nat
         /\ Asked \in Nat /\ Asked \in Message /\ LastReceived \in Nat /\ LastReceived <= Asked
         /\ Full(wire["server"]) \in Nat
<1>1. /\ wire \in [End -> Seq(Frame)] /\ Places /\ received \in Seq(Request)
      /\ sending \in [End -> Message]
  BY InvFacts DEF Wires
<1>2. wire["server"] \in Seq(Frame) /\ wire["device"] \in Seq(Frame) /\ Asked \in Message
  BY <1>1, EndFacts DEF Asked
<1>3. retry \in [End -> 0..RetryMax] /\ late \in 0..MaxLate /\ cuts \in 0..MaxCuts
  BY InvFacts DEF Counters
<1>4. RetryMax \in Nat /\ RetryMax > 0 /\ MaxLate \in Nat /\ MaxCuts \in Nat
  BY ConstantFacts
<1>5. /\ retry["device"] \in Nat /\ retry["device"] <= RetryMax
      /\ retry["server"] \in Nat /\ retry["server"] <= RetryMax
      /\ late \in Nat /\ cuts \in Nat
  BY <1>3, <1>4, EndFacts
<1>6. Attempt \in Nat /\ Faults \in Nat
  BY <1>5 DEF Attempt, Faults
<1>7. Asked \in Nat /\ LastReceived \in Nat /\ LastReceived <= Asked
  BY InvFacts DEF Asked
<1>8. Full(wire["server"]) \in Nat
  BY <1>2, FrameFacts, JoinedFrames
<1> QED  BY <1>1, <1>2, <1>3, <1>4, <1>5, <1>6, <1>7, <1>8

LEMMA Monotone ==
  ASSUME NEW s, NEW m
  PROVE  /\ \A n : NoneOf(s, m) => StartsWith(s, m, n) /\ EndsIn(s, m, n)
         /\ \A n, k \in Int : s \in Seq(Frame) /\ n <= k =>
              /\ StartsWith(s, m, n) => StartsWith(s, m, k)
              /\ Full(s) \in Int /\ EndsIn(s, m, n) => EndsIn(s, m, k)
BY DEF NoneOf, StartsWith, EndsIn

(* A frame is sent whole, or a fault more is counted. *)
LEMMA SentOrFault ==
  ASSUME NEW w \in [End -> Seq(Frame)], NEW e \in End, NEW f \in Frame, Sent(w, e, f),
         cuts \in 0..MaxCuts
  PROVE  /\ wire' \in [End -> Seq(Frame)] /\ wire'[e] = w[e]
         /\ \/ wire'[Other(e)] = Joined(w[Other(e)], f) /\ cuts' = cuts
            \/ /\ wire'[Other(e)] \in {w[Other(e)], Joined(w[Other(e)], Cut)}
               /\ cuts' = cuts + 1
<1>1. wire' \in [End -> Seq(Frame)] /\ wire'[e] = w[e]
  BY SentWires
<1>2. ASSUME SentWhole(w, e, f)
      PROVE  wire'[Other(e)] = Joined(w[Other(e)], f) /\ cuts' = cuts
  BY <1>1, <1>2, EndFacts DEF SentWhole
<1>3. ASSUME SentInPart(w, e)
      PROVE  wire'[Other(e)] \in {w[Other(e)], Joined(w[Other(e)], Cut)} /\ cuts' = cuts + 1
  BY <1>3, EndFacts DEF SentInPart
<1> QED  BY <1>1, <1>2, <1>3 DEF Sent

-----------------------------------------------------------------------------
(* Blocks of repetitions. *)

(* Only frames that were sent are gone. *)
LEMMA BlocksRead ==
  ASSUME LinkInv, BlocksKept,
         \/ wire'["server"] \in {wire["server"], <<>>}
         \/ /\ wire["server"] # <<>> /\ Head(wire["server"]).cmd # "cut"
            /\ wire'["server"] = Tail(wire["server"]),
         pc'["device"] = "ack" =>
           /\ pc["device"] = "ack" /\ sending'["device"] = sending["device"]
           /\ retry'["device"] = retry["device"]
  PROVE  BlocksKept'
<1>1. wire["server"] \in Seq(Frame) /\ wire'["server"] = wire'["server"]
  BY NumberFacts
<1>2. Blocks(wire'["server"])
  BY <1>1, NothingOf, TailOf DEF BlocksKept
<1>3. ASSUME NEW m, NEW n, EndsIn(wire["server"], m, n) PROVE EndsIn(wire'["server"], m, n)
  BY <1>1, <1>3, NothingOf, TailOf
<1> QED  BY <1>2, <1>3 DEF BlocksKept, LastBlock, Asked

(* The device has sent something else than a request. *)
LEMMA BlocksOther ==
  ASSUME LinkInv, BlocksKept, NEW f \in Frame, f.cmd # "data",
         wire'["server"] = Joined(wire["server"], f), pc'["device"] # "ack"
  PROVE  BlocksKept'
BY NumberFacts, JoinedOther DEF BlocksKept, LastBlock

(* The device has sent an attempt, or a part of it. *)
LEMMA BlocksSent ==
  ASSUME LinkInv, Blocks(wire["server"]), NEW m \in Message, NEW n \in Nat, n < RetryMax,
         EndsIn(wire["server"], m, n),
         wire'["server"] \in {wire["server"], Joined(wire["server"], Data(m)),
                              Joined(wire["server"], Cut)},
         sending'["device"] = m, retry'["device"] = n + 1
  PROVE  BlocksKept'
<1>1. wire["server"] \in Seq(Frame) /\ Full(wire["server"]) \in Int /\ n \in Int /\ n + 1 \in Int
  BY NumberFacts
<1>2. CASE wire'["server"] = wire["server"]
  <2>1. EndsIn(wire["server"], m, n + 1)
    BY <1>1, Monotone
  <2> QED  BY <1>2, <2>1 DEF BlocksKept, LastBlock, Asked
<1>3. ASSUME NEW f \in {Data(m), Cut}, wire'["server"] = Joined(wire["server"], f)
      PROVE  BlocksKept'
  <2>1. Blocks(wire'["server"]) /\ EndsIn(wire'["server"], m, n + 1)
    BY <1>1, <1>3, JoinedSame
  <2> QED  BY <2>1 DEF BlocksKept, LastBlock, Asked
<1> QED  BY <1>2, <1>3



-----------------------------------------------------------------------------
(* Steps of the device. *)

ServerRests ==
  /\ received' = received /\ request' = request /\ unanswered' = unanswered
  /\ pc'["server"] = pc["server"] /\ retry'["server"] = retry["server"]

(* A step that makes no repetition of what was read last, and none possible. *)
LEMMA DeviceAside ==
  ASSUME LinkInv, Repetitions, ServerRests, Faults' \in Nat, Faults <= Faults',
         \/ wire'["server"] = wire["server"]
         \/ /\ ~MayRepeat'
            /\ \E f \in Frame : /\ ~IsData(f, LastReceived)
                                /\ wire'["server"] = Joined(wire["server"], f),
         MayRepeat' => /\ MayRepeat /\ retry'["device"] = retry["device"]
                       /\ Silent(wire'["device"]) => Silent(wire["device"])
  PROVE  Repetitions'
<1>1. /\ LastReceived' = LastReceived /\ Attempt' = Attempt /\ Occupied' = Occupied
      /\ Once' = Once /\ pc'["server"] = pc["server"]
  BY DEF ServerRests, LastReceived, Attempt, Occupied, Once
<1>2. /\ wire["server"] \in Seq(Frame) /\ Faults \in Nat /\ Attempt \in Nat /\ RetryMax \in Nat
      /\ retry["device"] \in Nat /\ Full(wire["server"]) \in Nat
  BY NumberFacts
<1>3. ASSUME ~NoneOf(wire'["server"], LastReceived)
      PROVE  /\ ~NoneOf(wire["server"], LastReceived)
             /\ \A n : StartsWith(wire["server"], LastReceived, n)
                         => StartsWith(wire'["server"], LastReceived, n)
             /\ wire'["server"] \in Seq(Frame)
  <2>1. CASE wire'["server"] = wire["server"]
    BY <1>2, <1>3, <2>1
  <2>2. ASSUME NEW f \in Frame, ~IsData(f, LastReceived),
               wire'["server"] = Joined(wire["server"], f)
        PROVE  /\ ~NoneOf(wire["server"], LastReceived)
               /\ \A n : StartsWith(wire["server"], LastReceived, n)
                           => StartsWith(wire'["server"], LastReceived, n)
               /\ wire'["server"] \in Seq(Frame)
    <3>1. wire'["server"] \in Seq(Frame)
      BY <1>2, <2>2, JoinedFrames
    <3>2. ~NoneOf(wire["server"], LastReceived)
      BY <1>2, <1>3, <2>2, JoinedOther
    <3>3. \A n : StartsWith(wire["server"], LastReceived, n)
                   => StartsWith(wire'["server"], LastReceived, n)
      BY <1>2, <2>2, JoinedOther
    <3> QED  BY <3>1, <3>2, <3>3
  <2> QED  BY <2>1, <2>2
<1>4. UnderWay'
  <2> SUFFICES ASSUME ~NoneOf(wire'["server"], LastReceived), LastReceived \notin unanswered
               PROVE  /\ Occupied /\ Faults' >= 1
                      /\ StartsWith(wire'["server"], LastReceived, RetryMax + Faults' - Attempt)
    BY <1>1 DEF UnderWay, MayArrive, ServerRests
  <2>1. /\ Occupied /\ Faults >= 1 /\ wire'["server"] \in Seq(Frame)
        /\ StartsWith(wire'["server"], LastReceived, RetryMax + Faults - Attempt)
    BY <1>3 DEF Repetitions, UnderWay, MayArrive
  <2> DEFINE n == RetryMax + Faults - Attempt
             k == RetryMax + Faults' - Attempt
  <2>2. n \in Int /\ k \in Int /\ n <= k
    BY <1>2
  <2> HIDE DEF n, k
  <2>3. StartsWith(wire'["server"], LastReceived, n) => StartsWith(wire'["server"], LastReceived, k)
    BY <2>1, <2>2, Monotone
  <2>4. StartsWith(wire'["server"], LastReceived, k)
    BY <2>1, <2>3 DEF n
  <2>5. Faults' >= 1
    BY <1>2, <2>1
  <2> QED  BY <2>1, <2>4, <2>5 DEF k
<1>5. ToCome'
  <2> SUFFICES ASSUME MayRepeat'
               PROVE  /\ Occupied /\ Faults' >= 1 /\ OnlyOf(wire'["server"], Asked')
                      /\ Full(wire'["server"]) + Attempt < retry'["device"] + Faults'
                      /\ Stuck' => Attempt + 1 < retry'["device"] + Faults'
    BY <1>1 DEF ToCome
  <2>1. /\ MayRepeat /\ wire'["server"] = wire["server"] /\ retry'["device"] = retry["device"]
        /\ Asked' = Asked
    BY <1>1 DEF MayRepeat
  <2>2. Stuck' => Stuck
    BY <1>1, <2>1 DEF Stuck
  <2>3. /\ Occupied /\ Faults >= 1 /\ OnlyOf(wire["server"], Asked)
        /\ Full(wire["server"]) + Attempt < retry["device"] + Faults
        /\ Stuck => Attempt + 1 < retry["device"] + Faults
    BY <2>1 DEF Repetitions, ToCome
  <2> QED  BY <1>2, <2>1, <2>2, <2>3
<1> QED  BY <1>1, <1>4, <1>5 DEF Repetitions

LEMMA AttemptsLeft ==
  \A r, a, d, w, f, g \in Nat : f <= g /\ d < r /\ w + a < d + f =>
    /\ r + f - a \in Int /\ r + g - a \in Int /\ r + f - a <= r + g - a
    /\ w + 1 < r + g - a
OBVIOUS

LEMMA OneMore ==
  ASSUME NEW n \in Nat, NEW k \in Nat, NEW a \in Nat, NEW r \in Nat, NEW f \in Nat, NEW g \in Nat,
         n + a < r + f, k <= n + 1, f <= g
  PROVE  k + a < (r + 1) + g /\ a + 1 < (r + 1) + g
  OBVIOUS

(* The next attempt. *)
LEMMA DeviceRepeats ==
  ASSUME LinkInv, Repetitions, ServerRests, Faults' \in Nat, Faults <= Faults',
         pc["device"] = "ack", MayRetry("device"), ~AckFirst(wire["device"]),
         retry'["device"] = retry["device"] + 1, sending'["device"] = sending["device"],
         \/ wire'["server"] = Joined(wire["server"], Data(Asked))
         \/ wire'["server"] \in {wire["server"], Joined(wire["server"], Cut)}
  PROVE  Repetitions'
<1>1. /\ LastReceived' = LastReceived /\ Attempt' = Attempt /\ Occupied' = Occupied
      /\ Once' = Once /\ Asked' = Asked
  BY DEF ServerRests, LastReceived, Attempt, Occupied, Once, Asked
<1>2. /\ wire["server"] \in Seq(Frame) /\ Faults \in Nat /\ Attempt \in Nat /\ RetryMax \in Nat
      /\ retry["device"] \in Nat /\ Full(wire["server"]) \in Nat /\ Asked \in Message
      /\ retry["device"] < RetryMax /\ RetryMax > 0
  BY NumberFacts DEF MayRetry
<1>3. Data(Asked) \in Frame /\ Cut \in Frame /\ Data(Asked).msg = Asked /\ Cut.cmd # "data"
  BY <1>2, FrameFacts
<1>6. CASE LastReceived \in unanswered
  <2>1. ~MayArrive' /\ ~MayRepeat'
    BY <1>1, <1>6 DEF MayArrive, MayRepeat, ServerRests
  <2> QED  BY <1>1, <2>1 DEF Repetitions, UnderWay, ToCome
<1>4. CASE LastReceived # Asked
  <2>1. ~MayRepeat'
    BY <1>1, <1>4 DEF MayRepeat
  <2>2. ~IsData(Data(Asked), LastReceived) /\ ~IsData(Cut, LastReceived)
    BY <1>3, <1>4 DEF IsData
  <2> QED  BY <1>3, <2>1, <2>2, DeviceAside
<1>5. CASE LastReceived = Asked /\ LastReceived \notin unanswered
  <2>1. MayRepeat
    BY <1>2, <1>5 DEF MayRepeat
  <2>2. /\ Occupied /\ Faults >= 1 /\ OnlyOf(wire["server"], Asked)
        /\ Full(wire["server"]) + Attempt < retry["device"] + Faults
    BY <2>1 DEF Repetitions, ToCome
  <2> DEFINE n == RetryMax + Faults - Attempt
             k == RetryMax + Faults' - Attempt
  <2>3. n \in Int /\ k \in Int /\ n <= k /\ Full(wire["server"]) + 1 < k
    BY <1>2, <2>2, AttemptsLeft
  <2>4. StartsWith(wire["server"], Asked, k)
    <3>1. NoneOf(wire["server"], Asked) \/ StartsWith(wire["server"], Asked, n)
      BY <1>5 DEF Repetitions, UnderWay, MayArrive
    <3> HIDE DEF n, k
    <3> QED  BY <1>2, <2>3, <3>1, Monotone
  <2> HIDE DEF n, k
  <2>5. ASSUME NEW f \in {Data(Asked), Cut}, wire'["server"] = Joined(wire["server"], f)
        PROVE  /\ StartsWith(wire'["server"], Asked, k) /\ OnlyOf(wire'["server"], Asked)
               /\ Full(wire'["server"]) \in {Full(wire["server"]), Full(wire["server"]) + 1}
    <3>1. /\ OnlyOf(wire["server"], Asked) => OnlyOf(Joined(wire["server"], f), Asked)
          /\ \A x \in Int : OnlyOf(wire["server"], Asked) /\ StartsWith(wire["server"], Asked, x)
                             /\ Full(wire["server"]) + 1 < x
                               => StartsWith(Joined(wire["server"], f), Asked, x)
      BY <1>2, JoinedSame
    <3>3. StartsWith(wire'["server"], Asked, k) /\ OnlyOf(wire'["server"], Asked)
      BY <2>2, <2>3, <2>4, <2>5, <3>1
    <3>2. Full(wire'["server"]) = IF f = Cut THEN Full(wire["server"]) ELSE Full(wire["server"]) + 1
      <4>1. f \in Frame
        BY <1>3
      <4>2. Full(Joined(wire["server"], f))
              = IF f = Cut THEN Full(wire["server"]) ELSE Full(wire["server"]) + 1
        BY <1>2, <4>1, JoinedFrames
      <4> QED  BY <2>5, <4>2
    <3> QED  BY <3>2, <3>3
  <2>6. /\ StartsWith(wire'["server"], Asked, k) /\ OnlyOf(wire'["server"], Asked)
        /\ Full(wire'["server"]) \in {Full(wire["server"]), Full(wire["server"]) + 1}
    BY <2>2, <2>4, <2>5
  <2>7. UnderWay'
    BY <1>1, <1>2, <1>5, <2>2, <2>6 DEF UnderWay, k
  <2>8. /\ Full(wire'["server"]) + Attempt < retry'["device"] + Faults'
        /\ Attempt + 1 < retry'["device"] + Faults' /\ Faults' >= 1
    <3>1. Full(wire'["server"]) \in Nat /\ Full(wire'["server"]) <= Full(wire["server"]) + 1
      BY <1>2, <2>6
    <3>2. Full(wire["server"]) + Attempt < retry["device"] + Faults /\ Faults >= 1
      BY <2>2
    <3> DEFINE full == Full(wire["server"])
               next == Full(wire'["server"])
               left == retry["device"]
               more == Faults'
    <3>3. /\ full \in Nat /\ next \in Nat /\ Attempt \in Nat /\ left \in Nat
          /\ Faults \in Nat /\ more \in Nat
          /\ full + Attempt < left + Faults /\ next <= full + 1 /\ Faults <= more
      BY <1>2, <3>1, <3>2
    <3>4. next + Attempt < (left + 1) + more /\ Attempt + 1 < (left + 1) + more
      <4> HIDE DEF full, next, left, more
      <4> QED  BY <3>3, OneMore
    <3> QED  BY <1>2, <3>2, <3>4
  <2>9. ToCome'
    BY <1>1, <2>2, <2>6, <2>8 DEF ToCome
  <2> QED  BY <1>1, <2>7, <2>9 DEF Repetitions
<1> QED  BY <1>4, <1>5, <1>6


(* What the device reads and drops, its acknowledgements, heartbeats and the end
   of a call. *)
DeviceRetries == MayRetry("device") /\ (NoAck("device") \/ AckTimeout("device"))
DevicePasses ==
  \/ SkipHeartbeat("device") \/ ReadOther("device") \/ ReadTimeout("device")
  \/ ~MayRetry("device") /\ (NoAck("device") \/ AckTimeout("device"))
  \/ DeviceAcked \/ ReadResponse \/ ReadGarbledResponse \/ Heartbeat

LEMMA PassesFacts ==
  ASSUME LinkInv, DevicePasses
  PROVE  /\ ServerRests
         /\ \/ /\ pc'["device"] = "ack" /\ pc["device"] = "ack" /\ sending' = sending
               /\ retry'["device"] = retry["device"] /\ wire'["server"] = wire["server"]
               /\ AckFirst(wire["device"]) => AckFirst(wire'["device"])
               /\ Silent(wire'["device"]) => Silent(wire["device"])
            \/ pc'["device"] # "ack" /\ wire'["server"] = wire["server"]
            \/ /\ pc'["device"] # "ack"
               /\ \E f \in Frame : /\ f.cmd # "data"
                                   /\ wire'["server"] = Joined(wire["server"], f)
<1> DEFINE Left(w) == w["server"] = wire["server"] /\ w \in [End -> Seq(Frame)]
           Sends == \/ wire'["server"] = wire["server"]
                    \/ \E f \in Frame : /\ f.cmd # "data"
                                        /\ wire'["server"] = Joined(wire["server"], f)
<1>1. /\ wire \in [End -> Seq(Frame)] /\ Places /\ retry \in [End -> 0..RetryMax]
      /\ cuts \in 0..MaxCuts /\ Cut \in Frame /\ Cut.cmd # "data"
  BY NumberFacts, InvFacts, FrameFacts DEF Counters
<1>2. Left(Dropped("device")) /\ (wire["device"] # <<>> => Left(Taken("device")))
  BY <1>1, WiresTaken, WiresDropped, EndFacts DEF Dropped, Taken, Wires
<1>3. ASSUME NEW w, Left(w), NEW f \in Frame, f.cmd # "data", Sent(w, "device", f) PROVE Sends
  BY <1>1, <1>3, SentOrFault, EndFacts
<1> HIDE DEF Left
<1>4. CASE SkipHeartbeat("device")
  <2>1. /\ pc["device"] \in {"ack", "read"} /\ wire["device"] # <<>>
        /\ Head(wire["device"]).cmd = "heartbeat" /\ wire' = Taken("device")
        /\ UNCHANGED <<pc, retry, sending, request, received, unanswered>>
    BY <1>4 DEF SkipHeartbeat, Skipped, app
  <2>2. wire'["device"] = Tail(wire["device"]) /\ wire["device"] \in Seq(Frame)
    BY <1>1, <2>1, EndFacts DEF Taken
  <2>3. /\ AckFirst(wire["device"]) => AckFirst(wire'["device"])
        /\ Silent(wire'["device"]) => Silent(wire["device"])
    BY <2>1, <2>2, DeviceTail
  <2> QED  BY <1>2, <2>1, <2>3 DEF ServerRests, Left
<1>5. CASE ReadOther("device") \/ ReadTimeout("device")
  <2>1. PICK w : Left(w) /\ NoMessage("device", w) /\ pc["device"] = "read"
    BY <1>2, <1>5 DEF ReadOther, ReadTimeout, Reads, TimesOut
  <2>2. ReadAgain("device", w) \/ DeviceGivesUp(w)
    BY <2>1, EndFacts DEF NoMessage
  <2>3. /\ wire' = w /\ UNCHANGED <<request, received, unanswered>> /\ pc'["device"] # "ack"
        /\ pc'["server"] = pc["server"] /\ retry'["server"] = retry["server"]
    BY <1>1, <2>1, <2>2, EndFacts DEF ReadAgain, DeviceGivesUp, app, Places
  <2> QED  BY <2>1, <2>3 DEF ServerRests, Left
<1>6. CASE ~MayRetry("device") /\ (NoAck("device") \/ AckTimeout("device"))
  <2>1. PICK w : Left(w) /\ SendAgain("device", w) /\ pc["device"] = "ack"
    BY <1>2, <1>6 DEF NoAck, AckTimeout, Reads, TimesOut, Discarded
  <2>2. /\ wire' = w /\ UNCHANGED <<request, received, unanswered>> /\ pc'["device"] = "idle"
        /\ pc'["server"] = pc["server"] /\ retry' = retry
    BY <1>1, <1>6, <2>1, EndFacts DEF SendAgain, app, Places
  <2> QED  BY <2>1, <2>2 DEF ServerRests, Left
<1>7. CASE DeviceAcked
  <2>1. /\ wire' = Taken("device") /\ wire["device"] # <<>> /\ UNCHANGED <<request, received, unanswered>>
        /\ pc'["device"] = "read" /\ pc'["server"] = pc["server"]
        /\ retry'["server"] = retry["server"]
    BY <1>1, <1>7, EndFacts DEF DeviceAcked, Reads, app, Places
  <2> QED  BY <1>2, <2>1 DEF ServerRests, Left
<1>8. CASE ReadResponse \/ ReadGarbledResponse
  <2>1. /\ wire["device"] # <<>> /\ UNCHANGED <<request, received, unanswered, retry>>
        /\ pc'["device"] = "idle" /\ pc'["server"] = pc["server"]
    BY <1>1, <1>8, EndFacts DEF ReadResponse, ReadGarbledResponse, Reads, app, Places
  <2>2. PICK f \in Frame : f.cmd # "data" /\ Sent(Taken("device"), "device", f)
    BY <1>8, FrameFacts DEF ReadResponse, ReadGarbledResponse, Cmd
  <2>3. Sends
    BY <1>2, <1>3, <2>1, <2>2
  <2> QED  BY <2>1, <2>3 DEF ServerRests
<1>9. CASE Heartbeat
  <2>1. /\ UNCHANGED <<request, received, unanswered, retry, pc>> /\ pc["device"] = "idle"
        /\ Sent(wire, "device", Header("heartbeat"))
    BY <1>9 DEF Heartbeat, app
  <2>2. Header("heartbeat") \in Frame /\ Header("heartbeat").cmd # "data" /\ Left(wire)
    BY <1>1, FrameFacts DEF Cmd, Left
  <2>3. Sends
    BY <1>3, <2>1, <2>2
  <2> QED  BY <2>1, <2>3 DEF ServerRests
<1> QED  BY <1>4, <1>5, <1>6, <1>7, <1>8, <1>9 DEF DevicePasses

LEMMA PassesKeep ==
  ASSUME LinkInv, BlocksKept, DevicePasses, Faults' \in Nat, Faults <= Faults'
  PROVE  BlocksKept' /\ (Repetitions => Repetitions')
<1>1. ServerRests
  BY PassesFacts
<1>2. CASE /\ pc'["device"] = "ack" /\ pc["device"] = "ack" /\ sending' = sending
           /\ retry'["device"] = retry["device"] /\ wire'["server"] = wire["server"]
           /\ AckFirst(wire["device"]) => AckFirst(wire'["device"])
           /\ Silent(wire'["device"]) => Silent(wire["device"])
  <2>1. BlocksKept'
    BY <1>2, BlocksRead
  <2>2. MayRepeat' => MayRepeat
    BY <1>1, <1>2 DEF MayRepeat, ServerRests, LastReceived, Asked
  <2> QED  BY <1>1, <1>2, <2>1, <2>2, DeviceAside
<1>3. CASE pc'["device"] # "ack" /\ wire'["server"] = wire["server"]
  <2>1. BlocksKept'
    BY <1>3, BlocksRead
  <2>2. ~MayRepeat'
    BY <1>3 DEF MayRepeat
  <2> QED  BY <1>1, <1>3, <2>1, <2>2, DeviceAside
<1>4. ASSUME pc'["device"] # "ack", NEW f \in Frame, f.cmd # "data",
             wire'["server"] = Joined(wire["server"], f)
      PROVE  BlocksKept' /\ (Repetitions => Repetitions')
  <2>1. BlocksKept'
    BY <1>4, BlocksOther
  <2>2. ~MayRepeat' /\ ~IsData(f, LastReceived)
    BY <1>4 DEF MayRepeat, IsData
  <2> QED  BY <1>1, <1>4, <2>1, <2>2, DeviceAside
<1> QED  BY <1>2, <1>3, <1>4, PassesFacts


LEMMA RetriesKeep ==
  ASSUME LinkInv, BlocksKept, DeviceRetries, Faults' \in Nat, late \in Nat, late' \in Nat,
         late <= late'
  PROVE  BlocksKept' /\ (Repetitions => Repetitions')
<1>1. /\ wire \in [End -> Seq(Frame)] /\ Places /\ retry \in [End -> 0..RetryMax]
      /\ cuts \in 0..MaxCuts /\ cuts \in Nat /\ Asked \in Message /\ Data(Asked) \in Frame
      /\ retry["device"] \in Nat /\ retry["device"] < RetryMax /\ wire["device"] \in Seq(Frame)
  <2>1. MayRetry("device") /\ Asked \in Message
    BY NumberFacts DEF DeviceRetries
  <2> QED  BY <2>1, NumberFacts, InvFacts, FrameFacts DEF Counters, MayRetry
<1>2. PICK w : /\ SendAgain("device", w) /\ pc["device"] = "ack" /\ ~AckFirst(wire["device"])
               /\ w["server"] = wire["server"] /\ w \in [End -> Seq(Frame)]
  <2>1. CASE NoAck("device")
    <3>1. /\ wire["device"] # <<>> /\ Head(wire["device"]).cmd \notin {"heartbeat", "ack"}
          /\ pc["device"] = "ack" /\ SendAgain("device", Taken("device"))
      BY <2>1 DEF NoAck, Reads, Skipped, Discarded
    <3>2. ~AckFirst(wire["device"])
      BY <1>1, <3>1, DeviceTail
    <3> QED  BY <1>1, <3>1, <3>2, WiresTaken, EndFacts DEF Taken, Wires
  <2>2. CASE AckTimeout("device")
    <3>1. /\ wire["device"] \in {<<>>, <<Cut>>} /\ pc["device"] = "ack"
          /\ SendAgain("device", Dropped("device"))
      BY <2>2 DEF AckTimeout, TimesOut
    <3>2. ~AckFirst(wire["device"])
      BY <3>1, NothingOf
    <3> QED  BY <1>1, <3>1, <3>2, WiresDropped, EndFacts DEF Dropped, Wires
  <2> QED  BY <2>1, <2>2 DEF DeviceRetries
<1>3. /\ Sent(w, "device", Data(Asked)) /\ retry' = [retry EXCEPT !["device"] = retry["device"] + 1]
      /\ pc' = pc /\ UNCHANGED <<sending, request, received, unanswered>>
  BY <1>2 DEF SendAgain, DeviceRetries, app, Asked
<1>4. /\ \/ wire'["server"] = Joined(wire["server"], Data(Asked)) /\ cuts' = cuts
         \/ /\ wire'["server"] \in {wire["server"], Joined(wire["server"], Cut)}
            /\ cuts' = cuts + 1
      /\ Faults <= Faults'
  <2>1. \/ wire'["server"] = Joined(wire["server"], Data(Asked)) /\ cuts' = cuts
        \/ /\ wire'["server"] \in {wire["server"], Joined(wire["server"], Cut)}
           /\ cuts' = cuts + 1
    BY <1>1, <1>2, <1>3, SentOrFault, EndFacts
  <2> QED  BY <1>1, <2>1 DEF Faults
<1>5. /\ ServerRests /\ retry'["device"] = retry["device"] + 1 /\ MayRetry("device")
      /\ sending'["device"] = Asked /\ sending'["device"] = sending["device"]
  BY <1>1, <1>3, EndFacts DEF ServerRests, Asked, DeviceRetries
<1>6. BlocksKept'
  <2>1. Blocks(wire["server"]) /\ EndsIn(wire["server"], Asked, retry["device"])
    BY <1>2 DEF BlocksKept, LastBlock
  <2> QED  BY <1>1, <1>4, <1>5, <2>1, BlocksSent
<1>7. Repetitions => Repetitions'
  BY <1>2, <1>4, <1>5, DeviceRepeats
<1> QED  BY <1>6, <1>7

LEMMA CallBlocks ==
  ASSUME LinkInv, BlocksKept, Call, Faults' \in Nat
  PROVE  BlocksKept' /\ (Repetitions => Repetitions')
<1> DEFINE m == Asked + 1
<1>1. /\ wire \in [End -> Seq(Frame)] /\ Places /\ retry \in [End -> 0..RetryMax]
      /\ cuts \in 0..MaxCuts /\ cuts \in Nat /\ Asked \in Nat /\ late \in Nat
      /\ LastReceived \in Nat /\ LastReceived <= Asked /\ 0 < RetryMax
      /\ wire["server"] \in Seq(Frame) /\ sending \in [End -> Message]
  BY NumberFacts, InvFacts DEF Counters
<1>2. /\ pc["device"] = "idle" /\ Asked < MaxRequests /\ Sent(wire, "device", Data(m))
      /\ sending' = [sending EXCEPT !["device"] = m]
      /\ retry' = [retry EXCEPT !["device"] = 1] /\ pc' = [pc EXCEPT !["device"] = "ack"]
      /\ UNCHANGED <<request, received, unanswered, late>>
  BY DEF Call, SendFirst, app, Asked
<1>3. m \in Message /\ Data(m) \in Frame /\ Data(m).msg = m /\ Cut \in Frame /\ Cut.cmd # "data"
  BY <1>1, <1>2, ConstantFacts, FrameFacts
<1>4. /\ \/ wire'["server"] = Joined(wire["server"], Data(m)) /\ cuts' = cuts
         \/ /\ wire'["server"] \in {wire["server"], Joined(wire["server"], Cut)}
            /\ cuts' = cuts + 1
      /\ Faults <= Faults'
  <2>1. \/ wire'["server"] = Joined(wire["server"], Data(m)) /\ cuts' = cuts
        \/ /\ wire'["server"] \in {wire["server"], Joined(wire["server"], Cut)}
           /\ cuts' = cuts + 1
    BY <1>1, <1>2, <1>3, SentOrFault, EndFacts
  <2> QED  BY <1>1, <1>2, <2>1 DEF Faults
<1>5. /\ ServerRests /\ retry'["device"] = 0 + 1 /\ sending'["device"] = m /\ Asked' = m
      /\ LastReceived' = LastReceived
  BY <1>1, <1>2, EndFacts DEF ServerRests, Asked, Places, LastReceived
<1>6. NoneOf(wire["server"], m)
  <2>1. RequestsOn(wire["server"]) /\ Asked = sending["device"]
    BY DEF LinkInv, Asked
  <2>2. \A i \in 1..Len(wire["server"]) :
          wire["server"][i].cmd = "data" =>
            wire["server"][i].msg \in Request /\ (wire["server"][i].msg # Garbage => wire["server"][i].msg <= Asked)
    BY <2>1 DEF RequestsOn, GoodFrames
  <2> QED  BY <1>1, <2>2, ConstantFacts DEF NoneOf, IsData
<1>7. BlocksKept'
  <2>1. Blocks(wire["server"]) /\ EndsIn(wire["server"], m, 0)
    BY <1>6, Monotone DEF BlocksKept
  <2> HIDE DEF m
  <2> QED  BY <1>1, <1>3, <1>4, <1>5, <2>1, BlocksSent
<1>8. ASSUME Repetitions PROVE Repetitions'
  <2>1. ~MayRepeat'
    BY <1>1, <1>5 DEF MayRepeat
  <2>2. ~IsData(Data(m), LastReceived) /\ ~IsData(Cut, LastReceived)
    BY <1>1, <1>3 DEF IsData
  <2> QED  BY <1>3, <1>4, <1>5, <1>8, <2>1, <2>2, DeviceAside
<1> QED  BY <1>7, <1>8



-----------------------------------------------------------------------------
(* Steps of the server. *)

DeviceRests ==
  /\ sending'["device"] = sending["device"] /\ retry'["device"] = retry["device"]
  /\ pc'["device"] = pc["device"]

(* What becomes of the requests under way. *)
ServerTakes ==
  /\ wire["server"] # <<>> /\ Head(wire["server"]).cmd # "cut"
  /\ wire'["server"] = Tail(wire["server"])
ServerReads == wire'["server"] \in {wire["server"], <<>>} \/ ServerTakes

LEMMA ServerBlocks ==
  ASSUME LinkInv, BlocksKept, DeviceRests, ServerReads
  PROVE  BlocksKept'
BY BlocksRead DEF DeviceRests, ServerReads, ServerTakes

LEMMA ClearStays ==
  ASSUME LinkInv, Clear \/ LastReceived \in unanswered', Once, received' = received,
         unanswered \subseteq unanswered', DeviceRests, ServerReads,
         AckFirst(wire["device"]) => AckFirst(wire'["device"])
  PROVE  Repetitions'
<1>1. LastReceived' = LastReceived /\ Once' /\ Asked' = Asked /\ wire["server"] \in Seq(Frame)
  BY NumberFacts DEF LastReceived, Once, DeviceRests, Asked
<1>2. ~MayArrive'
  <2>1. NoneOf(wire["server"], LastReceived) => NoneOf(wire'["server"], LastReceived)
    BY <1>1, NothingOf, TailOf DEF ServerReads, ServerTakes
  <2> QED  BY <1>1, <2>1 DEF Clear, MayArrive
<1>3. ~MayRepeat'
  BY <1>1 DEF DeviceRests, MayRepeat, Clear
<1> QED  BY <1>1, <1>2, <1>3 DEF Repetitions, UnderWay, ToCome

(* Nothing is to be feared when the handler waits for a request, or when an
   acknowledgement or a heartbeat comes first. *)
LEMMA ClearWhen ==
  ASSUME LinkInv, Repetitions,
         \/ pc["server"] \notin {"handle", "ack"}
         \/ /\ wire["server"] # <<>>
            /\ Head(wire["server"]).cmd \notin {"data", "garbled", "cut"}
         \/ pc["server"] = "handle" /\ request = Garbage
  PROVE  Clear
<1>1. /\ wire["server"] \in Seq(Frame) /\ RequestsOn(wire["server"]) /\ Asked \in Nat
      /\ LastReceived \in Nat /\ LastReceived <= Asked
      /\ pc["device"] = "ack" => Asked \in Request /\ Asked # Garbage
  BY NumberFacts, CallFacts DEF LinkInv
<1>2. CASE pc["server"] \notin {"handle", "ack"}
  BY <1>2 DEF Repetitions, UnderWay, ToCome, Occupied, Clear
<1>3. CASE /\ wire["server"] # <<>>
           /\ Head(wire["server"]).cmd \notin {"data", "garbled", "cut"}
  <2>1. \A m : ~SentAs(Head(wire["server"]), m)
    BY <1>3 DEF SentAs, IsData
  <2>2. \A m : ~OnlyOf(wire["server"], m)
    BY <1>1, <1>3, <2>1, TailOf
  <2>3. \A m, n : StartsWith(wire["server"], m, n) => NoneOf(wire["server"], m)
    BY <1>1, <1>3, <2>1, TailOf
  <2> QED  BY <2>2, <2>3 DEF Repetitions, UnderWay, ToCome, Clear, MayArrive
<1>4. CASE pc["server"] = "handle" /\ request = Garbage
  <2>1. CASE LastReceived = Garbage
    <3>1. NoneOf(wire["server"], Garbage)
      BY <1>1, ConstantFacts DEF RequestsOn, GoodFrames, NoneOf, IsData
    <3> QED  BY <1>1, <2>1, <3>1 DEF Clear, MayArrive, MayRepeat
  <2>2. CASE LastReceived # Garbage
    BY <1>4, <2>2 DEF Repetitions, UnderWay, ToCome, Occupied, Clear
  <2> QED  BY <2>1, <2>2
<1> QED  BY <1>2, <1>3, <1>4

(* The next attempt of the response. *)
ServerTries ==
  /\ pc["server"] = "ack" /\ pc'["server"] = "ack"
  /\ retry'["server"] = retry["server"] + 1 /\ UNCHANGED <<received, unanswered>>
  /\ AckFirst(wire["device"]) => AckFirst(wire'["device"])

LEMMA OneLess ==
  \A r, a, f, g \in Nat : f <= g =>
    /\ r + f - a \in Int /\ (r + f - a) - 1 \in Int /\ r + g - (a + 1) \in Int
    /\ (r + f - a) - 1 <= r + g - (a + 1)
OBVIOUS

(* The handler drops a frame and sends its response again: one repetition less is
   under way. *)
LEMMA ServerDrops ==
  ASSUME LinkInv, Repetitions, DeviceRests, Faults' \in Nat, Faults <= Faults',
         ServerTries,
         ~Silent(wire'["device"]) \/ Faults + 1 <= Faults', ServerTakes
  PROVE  Repetitions'
<1>1. /\ LastReceived' = LastReceived /\ Once' = Once /\ Asked' = Asked
      /\ Occupied' /\ Attempt = retry["server"] /\ Attempt' = Attempt + 1
  BY DEF LastReceived, Once, DeviceRests, Asked, Occupied, Attempt, ServerTries
<1>2. /\ wire["server"] \in Seq(Frame) /\ Faults \in Nat /\ Attempt \in Nat /\ RetryMax \in Nat
      /\ retry["device"] \in Nat /\ Full(wire["server"]) \in Nat
  BY NumberFacts
<1>3. /\ wire'["server"] \in Seq(Frame) /\ Full(wire["server"]) >= 1
      /\ Full(wire'["server"]) = Full(wire["server"]) - 1
  BY <1>2, TailFrames DEF ServerTakes
<1>4. UnderWay'
  <2> SUFFICES ASSUME ~NoneOf(wire'["server"], LastReceived), LastReceived \notin unanswered
               PROVE  /\ Faults' >= 1
                      /\ StartsWith(wire'["server"], LastReceived, RetryMax + Faults' - (Attempt + 1))
    BY <1>1 DEF UnderWay, MayArrive, ServerTries
  <2>1. ~NoneOf(wire["server"], LastReceived)
    BY <1>2, TailOf DEF ServerTakes
  <2>2. StartsWith(wire["server"], LastReceived, RetryMax + Faults - Attempt) /\ Faults >= 1
    BY <2>1 DEF Repetitions, UnderWay, MayArrive
  <2>3. /\ RetryMax + Faults - Attempt \in Int /\ Faults' >= 1
        /\ (RetryMax + Faults - Attempt) - 1 \in Int
        /\ RetryMax + Faults' - (Attempt + 1) \in Int
        /\ (RetryMax + Faults - Attempt) - 1 <= RetryMax + Faults' - (Attempt + 1)
    <3>1. RetryMax \in Nat /\ Faults \in Nat /\ Faults' \in Nat /\ Attempt \in Nat /\ Faults' >= 1
      BY <1>2, <2>2
    <3> QED  BY <3>1, OneLess
  <2> DEFINE o == RetryMax + Faults - Attempt
             n == o - 1
             k == RetryMax + Faults' - (Attempt + 1)
  <2>4. StartsWith(wire'["server"], LastReceived, n)
    <3>1. o \in Int /\ StartsWith(wire["server"], LastReceived, o)
      BY <2>2, <2>3
    <3> HIDE DEF o
    <3> QED  BY <1>2, <3>1, TailOf DEF ServerTakes
  <2>5. n \in Int /\ k \in Int /\ n <= k /\ StartsWith(wire'["server"], LastReceived, n)
    BY <2>3, <2>4
  <2>6. StartsWith(wire'["server"], LastReceived, k)
    <3> HIDE DEF n, k
    <3> QED  BY <1>3, <2>5, Monotone
  <2> QED  BY <2>3, <2>6
<1>5. ToCome'
  <2> SUFFICES ASSUME MayRepeat'
               PROVE  /\ Faults' >= 1 /\ OnlyOf(wire'["server"], Asked)
                      /\ Full(wire'["server"]) + Attempt' < retry["device"] + Faults'
                      /\ Stuck' => Attempt' + 1 < retry["device"] + Faults'
    BY <1>1 DEF ToCome, DeviceRests
  <2>1. MayRepeat
    BY <1>1 DEF MayRepeat, DeviceRests, ServerTries
  <2>2. /\ Faults >= 1 /\ OnlyOf(wire["server"], Asked)
        /\ Full(wire["server"]) + Attempt < retry["device"] + Faults
    BY <2>1 DEF Repetitions, ToCome
  <2>3. OnlyOf(wire'["server"], Asked)
    BY <1>2, <2>2, TailOf DEF ServerTakes
  <2>4. Stuck' => Faults + 1 <= Faults'
    BY DEF Stuck
  <2>5. Attempt' \in Nat /\ Attempt' = Attempt + 1 /\ Faults' >= 1
    BY <1>1, <1>2, <2>2
  <2>6. /\ Full(wire'["server"]) + Attempt' = Full(wire["server"]) + Attempt
        /\ Full(wire'["server"]) \in Nat
    BY <1>2, <1>3, <2>5
  <2>7. Full(wire'["server"]) + Attempt' < retry["device"] + Faults'
    BY <1>2, <2>2, <2>5, <2>6
  <2>8. Stuck' => Attempt' + 1 < retry["device"] + Faults'
    BY <1>2, <1>3, <2>2, <2>4, <2>5
  <2> QED  BY <2>3, <2>5, <2>7, <2>8
<1> QED  BY <1>1, <1>4, <1>5 DEF Repetitions

(* It waits in vain, for an acknowledgement that is late or that nobody sends. *)
LEMMA ServerWaits ==
  ASSUME LinkInv, Repetitions, DeviceRests, Faults' \in Nat,
         ServerTries,
         wire["server"] \in {<<>>, <<Cut>>}, wire'["server"] = <<>>,
         NEW f \in Nat, Faults <= f, f <= Faults',
         Faults + 1 <= f \/ (pc["device"] = "ack" => Silent(wire["device"])),
         ~Silent(wire'["device"]) \/ f + 1 <= Faults'
  PROVE  Repetitions'
<1>1. /\ LastReceived' = LastReceived /\ Once' = Once /\ Asked' = Asked
      /\ Occupied' /\ Attempt = retry["server"] /\ Attempt' = Attempt + 1
  BY DEF LastReceived, Once, DeviceRests, Asked, Occupied, Attempt, ServerTries
<1>2. /\ Faults \in Nat /\ Attempt \in Nat /\ RetryMax \in Nat /\ retry["device"] \in Nat
      /\ Full(wire["server"]) = 0 /\ Full(wire'["server"]) = 0
  <2>1. Full(<<Cut>>) = 0
    BY DEF Full, Last
  <2> QED  BY <2>1, NumberFacts, NothingOf
<1>3. UnderWay'
  BY <1>1, NothingOf DEF UnderWay, MayArrive
<1>4. ToCome'
  <2> SUFFICES ASSUME MayRepeat'
               PROVE  /\ Faults' >= 1
                      /\ Full(wire'["server"]) + Attempt' < retry["device"] + Faults'
                      /\ Stuck' => Attempt' + 1 < retry["device"] + Faults'
    BY <1>1, NothingOf DEF ToCome, DeviceRests
  <2>1. MayRepeat /\ pc["device"] = "ack"
    BY <1>1 DEF MayRepeat, DeviceRests, ServerTries
  <2>2. /\ Faults >= 1 /\ Attempt < retry["device"] + Faults
        /\ Stuck => Attempt + 1 < retry["device"] + Faults
    BY <1>2, <2>1 DEF Repetitions, ToCome
  <2>3. Attempt + 1 < retry["device"] + f
    BY <1>2, <2>1, <2>2 DEF Stuck, ServerTries
  <2>4. Stuck' => f + 1 <= Faults'
    BY DEF Stuck
  <2>5. Attempt' \in Nat /\ Attempt' < retry["device"] + f /\ Faults' >= 1
    BY <1>1, <1>2, <2>2, <2>3
  <2>6. Full(wire'["server"]) + Attempt' < retry["device"] + Faults'
    BY <1>1, <1>2, <2>3
  <2>7. Stuck' => Attempt' + 1 < retry["device"] + Faults'
    BY <1>2, <2>4, <2>5
  <2> QED  BY <2>5, <2>6, <2>7
<1> QED  BY <1>1, <1>3, <1>4 DEF Repetitions

(* When it gives up after two faults at most there is no repetition left. *)
LEMMA ServerQuits ==
  ASSUME LinkInv, Repetitions, DeviceRests, Faults <= 2, UNCHANGED <<received, unanswered>>,
         pc["server"] = "ack", retry["server"] = RetryMax, wire'["device"] = wire["device"],
         \/ ServerTakes
         \/ /\ wire["server"] \in {<<>>, <<Cut>>} /\ wire'["server"] = <<>>
            /\ Faults + 1 <= 2 \/ (pc["device"] = "ack" => Silent(wire["device"]))
  PROVE  Repetitions'
<1>1. /\ LastReceived' = LastReceived /\ Once' = Once /\ Asked' = Asked /\ Attempt = RetryMax
  BY DEF LastReceived, Once, DeviceRests, Asked, Attempt
<1>2. /\ wire["server"] \in Seq(Frame) /\ Faults \in Nat /\ RetryMax \in Nat
      /\ retry["device"] \in Nat /\ Full(wire["server"]) \in Nat
  BY NumberFacts
<1>3. ~MayArrive'
  <2>1. CASE wire'["server"] = <<>>
    BY <2>1, NothingOf DEF MayArrive
  <2>2. CASE ServerTakes
    <3> SUFFICES ASSUME ~NoneOf(wire'["server"], LastReceived), LastReceived \notin unanswered
                 PROVE  FALSE
      BY <1>1 DEF MayArrive
    <3>1. PICK j \in 1..Len(wire'["server"]) : IsData(wire'["server"][j], LastReceived)
      BY DEF NoneOf
    <3>2. /\ Len(wire'["server"]) = Len(wire["server"]) - 1 /\ Len(wire["server"]) \in Nat
          /\ \A i \in 1..(Len(wire["server"]) - 1) :
               i + 1 \in 1..Len(wire["server"]) /\ wire'["server"][i] = wire["server"][i + 1]
      BY <1>2, <2>2, TailFrames DEF ServerTakes
    <3>3. j + 1 \in 1..Len(wire["server"]) /\ IsData(wire["server"][j + 1], LastReceived)
      BY <3>1, <3>2
    <3>4. StartsWith(wire["server"], LastReceived, RetryMax + Faults - RetryMax)
      BY <1>1, <3>3 DEF Repetitions, UnderWay, MayArrive, NoneOf
    <3>5. j + 1 < Faults
      BY <1>2, <3>3, <3>4 DEF StartsWith
    <3> QED  BY <1>2, <3>2, <3>5
  <2> QED  BY <2>1, <2>2
<1>4. ~MayRepeat'
  <2> SUFFICES ASSUME MayRepeat' PROVE FALSE
    OBVIOUS
  <2>1. MayRepeat
    BY <1>1 DEF MayRepeat, DeviceRests
  <2>2. /\ pc["device"] = "ack" /\ retry["device"] < RetryMax
        /\ Full(wire["server"]) + RetryMax < retry["device"] + Faults
        /\ Stuck => RetryMax + 1 < retry["device"] + Faults
    BY <1>1, <2>1 DEF MayRepeat, Repetitions, ToCome
  <2>3. Full(wire["server"]) = 0 /\ Faults = 2
    BY <1>2, <2>2
  <2>4. wire["server"] \in {<<>>, <<Cut>>} /\ Silent(wire["device"])
    BY <1>2, <2>2, <2>3, TailFrames DEF ServerTakes
  <2>5. Stuck
    BY <2>3, <2>4 DEF Stuck
  <2> QED  BY <1>2, <2>2, <2>5
<1> QED  BY <1>1, <1>3, <1>4 DEF Repetitions, UnderWay, ToCome


(* What the handler reads and drops outside its own call. *)
ServerPasses ==
  \/ SkipHeartbeat("server") \/ ReadOther("server") \/ ReadTimeout("server")
  \/ ServerAcked \/ Wake \/ ReadGarbledRequest \/ LeaveUnanswered

LEMMA ServerPassesFacts ==
  ASSUME LinkInv, ServerPasses
  PROVE  /\ DeviceRests /\ ServerReads /\ received' = received
         /\ unanswered \subseteq unanswered'
         /\ AckFirst(wire["device"]) => AckFirst(wire'["device"])
         /\ \/ pc["server"] \notin {"handle", "ack"}
            \/ /\ wire["server"] # <<>>
               /\ Head(wire["server"]).cmd \notin {"data", "garbled", "cut"}
            \/ pc["server"] = "handle" /\ request = Garbage
            \/ LastReceived \in unanswered'
<1> DEFINE Left(w) == /\ w \in [End -> Seq(Frame)] /\ w["device"] = wire["device"]
                      /\ \/ w["server"] \in {wire["server"], <<>>}
                         \/ /\ wire["server"] # <<>> /\ Head(wire["server"]).cmd # "cut"
                            /\ w["server"] = Tail(wire["server"])
           Result == ServerReads /\ (AckFirst(wire["device"]) => AckFirst(wire'["device"]))
<1>1. /\ wire \in [End -> Seq(Frame)] /\ Places /\ retry \in [End -> 0..RetryMax]
      /\ cuts \in 0..MaxCuts /\ Cut \in Frame /\ sending \in [End -> Message]
      /\ wire["device"] \in Seq(Frame)
  BY NumberFacts, InvFacts, FrameFacts DEF Counters
<1>2. /\ Left(wire) /\ Left(Dropped("server"))
      /\ wire["server"] # <<>> /\ Head(wire["server"]).cmd # "cut" => Left(Taken("server"))
  BY <1>1, WiresTaken, WiresDropped, EndFacts DEF Dropped, Taken, Wires
<1>3. ASSUME NEW w, Left(w), wire' = w PROVE Result
  BY <1>3 DEF ServerReads, ServerTakes
<1>4. ASSUME NEW w, Left(w), NEW f \in Frame, Sent(w, "server", f) PROVE Result
  <2>1. /\ wire'["server"] = w["server"]
        /\ wire'["device"] \in {wire["device"], Joined(wire["device"], f), Joined(wire["device"], Cut)}
    BY <1>1, <1>4, SentOrFault, EndFacts
  <2>2. AckFirst(wire["device"]) => AckFirst(wire'["device"])
    BY <1>1, <2>1, JoinedOther
  <2> QED  BY <1>4, <2>1, <2>2 DEF ServerReads, ServerTakes
<1> HIDE DEF Left, Result
<1>5. CASE SkipHeartbeat("server") \/ ServerAcked
  <2>1. /\ wire["server"] # <<>> /\ Head(wire["server"]).cmd \in {"heartbeat", "ack"}
        /\ wire' = Taken("server") /\ UNCHANGED <<retry, sending, received, unanswered>>
        /\ pc'["device"] = pc["device"]
    BY <1>1, <1>5, EndFacts DEF SkipHeartbeat, Skipped, ServerAcked, Reads, app, Places
  <2>2. Result
    BY <1>2, <1>3, <2>1
  <2> QED  BY <2>1, <2>2 DEF Result, DeviceRests
<1>6. CASE Wake
  <2>1. /\ wire' = wire /\ UNCHANGED <<sending, received, unanswered>> /\ pc["server"] = "idle"
        /\ retry'["device"] = retry["device"] /\ pc'["device"] = pc["device"]
    BY <1>1, <1>6, EndFacts DEF Wake, app, Places
  <2>2. Result
    BY <1>2, <1>3, <2>1
  <2> QED  BY <2>1, <2>2 DEF Result, DeviceRests
<1>9. CASE LeaveUnanswered
  <2>1. /\ wire' = wire /\ UNCHANGED <<sending, retry, received>> /\ pc["server"] = "handle"
        /\ unanswered' = unanswered \cup {request} /\ pc'["device"] = pc["device"]
    BY <1>1, <1>9, EndFacts DEF LeaveUnanswered, Places
  <2>2. Result
    BY <1>2, <1>3, <2>1
  <2>3. request \in {Garbage, LastReceived}
    BY InvFacts DEF ServerKnows
  <2> QED  BY <2>1, <2>2, <2>3 DEF Result, DeviceRests
<1>7. CASE ReadGarbledRequest
  <2>1. /\ pc["server"] = "read" /\ wire["server"] # <<>>
        /\ Head(wire["server"]).cmd # "cut" /\ UNCHANGED <<retry, sending, received, unanswered>>
        /\ Sent(Taken("server"), "server", Header("nack")) /\ pc'["device"] = pc["device"]
    BY <1>1, <1>7, EndFacts DEF ReadGarbledRequest, Reads, Places
  <2>2. Header("nack") \in Frame
    BY FrameFacts DEF Cmd
  <2>3. Result
    BY <1>2, <1>4, <2>1, <2>2
  <2> QED  BY <2>1, <2>3 DEF Result, DeviceRests
<1>8. CASE ReadOther("server") \/ ReadTimeout("server")
  <2>1. PICK w : Left(w) /\ NoMessage("server", w) /\ pc["server"] = "read"
    BY <1>2, <1>8 DEF ReadOther, ReadTimeout, Reads, TimesOut
  <2>2. /\ UNCHANGED <<sending, received, unanswered>> /\ retry'["device"] = retry["device"]
        /\ pc'["device"] = pc["device"]
        /\ wire' = w \/ Sent(w, "server", Header("heartbeat"))
    BY <1>1, <2>1, EndFacts DEF NoMessage, ReadAgain, ServerGivesUp, Sent, app, Places
  <2>3. Header("heartbeat") \in Frame
    BY FrameFacts DEF Cmd
  <2>4. Result
    BY <1>3, <1>4, <2>1, <2>2, <2>3
  <2> QED  BY <2>1, <2>2, <2>4 DEF Result, DeviceRests
<1> QED  BY <1>5, <1>6, <1>7, <1>8, <1>9 DEF ServerPasses

LEMMA ServerPassesKeep ==
  ASSUME LinkInv, BlocksKept, ServerPasses
  PROVE  BlocksKept' /\ (Repetitions => Repetitions')
<1>1. /\ DeviceRests /\ ServerReads /\ received' = received /\ unanswered \subseteq unanswered'
      /\ AckFirst(wire["device"]) => AckFirst(wire'["device"])
      /\ Repetitions => Clear \/ LastReceived \in unanswered'
  BY ServerPassesFacts, ClearWhen
<1>2. BlocksKept'
  BY <1>1, ServerBlocks
<1>3. Repetitions => Repetitions'
  BY <1>1, ClearStays DEF Repetitions
<1> QED  BY <1>2, <1>3

LEMMA FaultSums ==
  \A l, c \in Nat : \A m \in {l, l + 1}, d \in {c, c + 1} :
    /\ m + c \in Nat /\ l + c <= m + c /\ (m = l + 1 => l + c + 1 <= m + c)
    /\ m + c <= m + d /\ (d = c + 1 => m + c + 1 <= m + d)
OBVIOUS

LEMMA ServerAgain ==
  ASSUME LinkInv, BlocksKept, NoAck("server") \/ AckTimeout("server"), Faults' \in Nat,
         late' \in {late, late + 1}
  PROVE  BlocksKept' /\ (Faults' <= 2 /\ Repetitions => Repetitions')
<1> DEFINE Takes(w) == /\ w["server"] = Tail(wire["server"]) /\ late' = late
                       /\ wire["server"] # <<>> /\ Head(wire["server"]).cmd # "cut"
           Drops(w) == /\ wire["server"] \in {<<>>, <<Cut>>} /\ w["server"] = <<>>
                       /\ \/ late' = late /\ (pc["device"] = "ack" => Silent(wire["device"]))
                          \/ late' = late + 1
<1>1. /\ wire \in [End -> Seq(Frame)] /\ Places /\ retry \in [End -> 0..RetryMax]
      /\ cuts \in 0..MaxCuts /\ Cut \in Frame /\ late \in Nat /\ cuts \in Nat
      /\ sending["server"] \in Message /\ Data(sending["server"]) \in Frame
      /\ Data(sending["server"]).cmd = "data" /\ wire["device"] \in Seq(Frame)
      /\ retry["server"] \in Nat /\ retry["server"] <= RetryMax /\ RetryMax \in Nat
  BY NumberFacts, InvFacts, FrameFacts, EndFacts DEF Counters
<1>2. PICK w : /\ SendAgain("server", w) /\ pc["server"] = "ack" /\ w \in [End -> Seq(Frame)]
               /\ w["device"] = wire["device"] /\ (Takes(w) \/ Drops(w))
  <2>1. CASE NoAck("server")
    <3>1. /\ wire["server"] # <<>> /\ Head(wire["server"]).cmd # "cut" /\ late' = late
          /\ pc["server"] = "ack" /\ SendAgain("server", Taken("server"))
      BY <2>1 DEF NoAck, Reads, Discarded
    <3>2. Taken("server") \in [End -> Seq(Frame)]
      BY <3>1, WiresTaken, EndFacts DEF Wires
    <3>3. /\ Taken("server")["server"] = Tail(wire["server"])
          /\ Taken("server")["device"] = wire["device"]
      BY <1>1, EndFacts DEF Taken
    <3>4. Takes(Taken("server"))
      BY <3>1, <3>3
    <3> HIDE DEF Takes, Drops
    <3> QED  BY <3>1, <3>2, <3>3, <3>4
  <2>2. CASE AckTimeout("server")
    <3>1. /\ wire["server"] \in {<<>>, <<Cut>>} /\ pc["server"] = "ack"
          /\ SendAgain("server", Dropped("server"))
          /\ (Quiet("device") /\ late' = late) \/ late' = late + 1
      BY <2>2, EndFacts DEF AckTimeout, TimesOut
    <3>2. Silent(<<>>) /\ Silent(<<Cut>>)
      BY FrameFacts DEF Silent
    <3>3. Quiet("device") => (pc["device"] = "ack" => Silent(wire["device"]))
      BY <3>2 DEF Quiet
    <3>4. Dropped("server") \in [End -> Seq(Frame)]
      BY WiresDropped, EndFacts DEF Wires
    <3>5. Dropped("server")["server"] = <<>> /\ Dropped("server")["device"] = wire["device"]
      BY <1>1, EndFacts DEF Dropped
    <3>6. Drops(Dropped("server"))
      BY <3>1, <3>3, <3>5
    <3> HIDE DEF Takes, Drops
    <3> QED  BY <3>1, <3>4, <3>5, <3>6
  <2> QED  BY <2>1, <2>2
<1>3. CASE /\ MayRetry("server") /\ Sent(w, "server", Data(sending["server"]))
           /\ retry' = [retry EXCEPT !["server"] = @ + 1] /\ UNCHANGED pc
           /\ UNCHANGED <<sending, app, beats>>
  <2>1. /\ wire'["server"] = w["server"]
        /\ \/ wire'["device"] = Joined(wire["device"], Data(sending["server"])) /\ cuts' = cuts
           \/ /\ wire'["device"] \in {wire["device"], Joined(wire["device"], Cut)}
              /\ cuts' = cuts + 1
    BY <1>1, <1>2, <1>3, SentOrFault, EndFacts
  <2>2. /\ AckFirst(wire["device"]) => AckFirst(wire'["device"])
        /\ (~Silent(wire'["device"]) /\ cuts' = cuts) \/ cuts' = cuts + 1
    BY <1>1, <2>1, JoinedOther
  <2>3. DeviceRests /\ ServerTries
    BY <1>1, <1>2, <1>3, <2>2, EndFacts DEF DeviceRests, ServerTries, app
  <2>4. CASE Takes(w)
    <3>1. ServerTakes
      BY <2>1, <2>4 DEF ServerTakes
    <3>2. Faults <= Faults' /\ (~Silent(wire'["device"]) \/ Faults + 1 <= Faults')
      BY <1>1, <2>2, <2>4 DEF Faults
    <3>3. BlocksKept'
      BY <2>3, <3>1, ServerBlocks DEF ServerReads
    <3> QED  BY <2>3, <3>1, <3>2, <3>3, ServerDrops
  <2>5. CASE Drops(w)
    <3> DEFINE f == late' + cuts
    <3>1. /\ f \in Nat /\ Faults <= f /\ f <= Faults'
          /\ Faults + 1 <= f \/ (pc["device"] = "ack" => Silent(wire["device"]))
          /\ ~Silent(wire'["device"]) \/ f + 1 <= Faults'
      <4>1. /\ late' \in Nat /\ cuts \in Nat /\ late \in Nat /\ Faults = late + cuts
            /\ Faults' = late' + cuts'
        BY <1>1 DEF Faults
      <4>2. cuts' \in {cuts, cuts + 1}
        BY <2>2
      <4>3. /\ f \in Nat /\ Faults <= f /\ (late' = late + 1 => Faults + 1 <= f)
            /\ f <= Faults' /\ (cuts' = cuts + 1 => f + 1 <= Faults')
        BY <4>1, <4>2, FaultSums
      <4>4. Drops(w)
        BY <2>5
      <4> HIDE DEF f
      <4> QED  BY <2>2, <4>3, <4>4
    <3> HIDE DEF f
    <3>2. wire["server"] \in {<<>>, <<Cut>>} /\ wire'["server"] = <<>>
      BY <2>1, <2>5
    <3>3. BlocksKept'
      BY <2>3, <3>2, ServerBlocks DEF ServerReads
    <3> QED  BY <2>3, <3>1, <3>2, <3>3, ServerWaits
  <2> QED  BY <1>2, <2>4, <2>5
<1>4. CASE /\ ~MayRetry("server") /\ wire' = w /\ pc' = [pc EXCEPT !["server"] = "idle"]
           /\ UNCHANGED <<cuts, retry>> /\ UNCHANGED <<sending, app, beats>>
  <2>1. /\ DeviceRests /\ UNCHANGED <<received, unanswered>> /\ retry["server"] = RetryMax
        /\ wire'["device"] = wire["device"] /\ wire'["server"] = w["server"] /\ cuts' = cuts
    BY <1>1, <1>2, <1>4, EndFacts DEF DeviceRests, app, MayRetry, Places
  <2>2. ServerReads
    BY <1>2, <2>1 DEF ServerReads, ServerTakes
  <2>3. BlocksKept'
    BY <2>1, <2>2, ServerBlocks
  <2>4. ASSUME Faults' <= 2 PROVE Faults <= 2 /\ (late' = late + 1 => Faults + 1 <= 2)
    <3>1. late' + cuts <= 2 /\ late \in Nat /\ cuts \in Nat /\ Faults = late + cuts
      BY <1>1, <2>1, <2>4 DEF Faults
    <3>2. CASE late' = late
      BY <3>1, <3>2
    <3>3. CASE late' = late + 1
      <4>1. (late + 1) + cuts <= 2
        BY <3>1, <3>3
      <4>2. late + cuts + 1 <= 2
        BY <3>1, <4>1
      <4> QED  BY <3>1, <4>2
    <3> QED  BY <3>2, <3>3
  <2>5. Takes(w) => ServerTakes
    BY <2>1 DEF ServerTakes
  <2> QED  BY <1>2, <2>1, <2>3, <2>4, <2>5, ServerQuits
<1> QED  BY <1>2, <1>3, <1>4 DEF SendAgain


LEMMA RespondRepeats ==
  ASSUME LinkInv, BlocksKept, Respond, Faults' \in Nat
  PROVE  BlocksKept' /\ (Repetitions => Repetitions')
<1>1. /\ wire \in [End -> Seq(Frame)] /\ Places /\ retry \in [End -> 0..RetryMax]
      /\ cuts \in 0..MaxCuts /\ cuts \in Nat /\ late \in Nat /\ sending \in [End -> Message]
      /\ request \in Message /\ Data(request) \in Frame /\ Data(request).cmd = "data"
      /\ wire["device"] \in Seq(Frame) /\ wire["server"] \in Seq(Frame)
      /\ Full(wire["server"]) \in Nat /\ retry["device"] \in Nat /\ RetryMax \in Nat
  BY NumberFacts, InvFacts, FrameFacts, EndFacts DEF Counters
<1>2. /\ pc["server"] = "handle" /\ Sent(wire, "server", Data(request))
      /\ sending' = [sending EXCEPT !["server"] = request]
      /\ retry' = [retry EXCEPT !["server"] = 1] /\ pc' = [pc EXCEPT !["server"] = "ack"]
      /\ UNCHANGED <<received, unanswered>> /\ late' = late
  BY DEF Respond, SendFirst
<1>3. /\ wire'["server"] = wire["server"]
      /\ \/ wire'["device"] = Joined(wire["device"], Data(request)) /\ cuts' = cuts
         \/ /\ wire'["device"] \in {wire["device"], Joined(wire["device"], Cut)}
            /\ cuts' = cuts + 1
  BY <1>1, <1>2, SentOrFault, EndFacts
<1>4. /\ AckFirst(wire["device"]) => AckFirst(wire'["device"])
      /\ (~Silent(wire'["device"]) /\ cuts' = cuts) \/ cuts' = cuts + 1
  BY <1>1, <1>3, JoinedOther, FrameFacts
<1>5. /\ DeviceRests /\ pc'["server"] = "ack" /\ retry'["server"] = 1
      /\ LastReceived' = LastReceived /\ Once' = Once /\ Asked' = Asked
  BY <1>1, <1>2, EndFacts DEF DeviceRests, Places, LastReceived, Once, Asked
<1>6. Occupied' /\ Attempt = 1 /\ Attempt' = 1
  BY <1>2, <1>5 DEF Occupied, Attempt
<1>7. BlocksKept'
  BY <1>3, <1>5, ServerBlocks DEF ServerReads
<1>8. ASSUME Repetitions PROVE Repetitions'
  <2>1. /\ Faults = late + cuts /\ Faults' = late + cuts' /\ Faults \in Nat
        /\ Faults' \in {Faults, Faults + 1} /\ (cuts' = cuts + 1 => Faults' = Faults + 1)
    BY <1>1, <1>2, <1>4 DEF Faults
  <2>2. UnderWay'
    <3> SUFFICES ASSUME ~NoneOf(wire["server"], LastReceived), LastReceived \notin unanswered
                 PROVE  /\ Faults' >= 1
                        /\ StartsWith(wire["server"], LastReceived, RetryMax + Faults' - 1)
      BY <1>2, <1>3, <1>5, <1>6 DEF UnderWay, MayArrive
    <3>1. Faults >= 1 /\ StartsWith(wire["server"], LastReceived, RetryMax + Faults - 1)
      BY <1>6, <1>8 DEF Repetitions, UnderWay, MayArrive
    <3>2. /\ RetryMax + Faults - 1 \in Int /\ RetryMax + Faults' - 1 \in Int /\ Faults' >= 1
          /\ RetryMax + Faults - 1 <= RetryMax + Faults' - 1
      <4>1. \A n, f \in Nat : \A g \in {f, f + 1} :
              f >= 1 => /\ n + f - 1 \in Int /\ n + g - 1 \in Int /\ g >= 1
                        /\ n + f - 1 <= n + g - 1
        OBVIOUS
      <4> QED  BY <1>1, <2>1, <3>1, <4>1
    <3> QED  BY <1>1, <3>1, <3>2, Monotone
  <2>3. ToCome'
    <3> SUFFICES ASSUME MayRepeat'
                 PROVE  /\ Faults' >= 1 /\ OnlyOf(wire["server"], Asked)
                        /\ Full(wire["server"]) + 1 < retry["device"] + Faults'
                        /\ Stuck' => 1 + 1 < retry["device"] + Faults'
      BY <1>3, <1>5, <1>6 DEF ToCome, DeviceRests
    <3>1. MayRepeat
      BY <1>2, <1>4, <1>5 DEF MayRepeat, DeviceRests
    <3>2. /\ Faults >= 1 /\ OnlyOf(wire["server"], Asked)
          /\ Full(wire["server"]) + 1 < retry["device"] + Faults
      BY <1>6, <1>8, <3>1 DEF Repetitions, ToCome
    <3>3. Stuck' => Faults' = Faults + 1
      BY <1>4, <2>1 DEF Stuck
    <3> QED  BY <1>1, <2>1, <3>2, <3>3
  <2> QED  BY <1>5, <1>8, <2>2, <2>3 DEF Repetitions
<1> QED  BY <1>7, <1>8

(* Without a fault the request that is read was sent once. *)
LEMMA CarriedOnly ==
  ASSUME NEW s \in Seq(Frame)
  PROVE  /\ \A m : Carries(s, <<>>) => NoneOf(s, m)
         /\ Carries(s, <<Ack>>) => AckFirst(s)
<1>1. ASSUME Carries(s, <<>>), NEW m PROVE NoneOf(s, m)
  <2>1. PICK at : Marks(at, s, <<>>)
    BY <1>1 DEF Carries
  <2>2. \A i \in 1..Len(s) : s[i].cmd = "heartbeat"
    BY <2>1 DEF Marks
  <2> QED  BY <2>2 DEF NoneOf, IsData
<1>2. ASSUME Carries(s, <<Ack>>) PROVE AckFirst(s)
  <2>1. PICK at : Marks(at, s, <<Ack>>)
    BY <1>2 DEF Carries
  <2>2. Len(<<Ack>>) = 1 /\ <<Ack>>[1] = Ack /\ 1 \in 1..1 /\ \A k \in 1..1 : k = 1
    OBVIOUS
  <2>3. /\ at[1] \in 1..Len(s) /\ s[at[1]] = Ack
        /\ \A i \in 1..Len(s) : s[i].cmd # "heartbeat" => i = at[1]
    BY <2>1, <2>2 DEF Marks
  <2>4. Ack.cmd = "ack"
    BY FrameFacts DEF Ack, Cmd
  <2>5. \A l \in 1..(at[1] - 1) : s[l].cmd = "heartbeat"
    <3>1. \A l \in 1..(at[1] - 1) : l \in 1..Len(s) /\ l # at[1]
      BY <2>3
    <3> QED  BY <2>3, <3>1
  <2> QED  BY <2>3, <2>4, <2>5 DEF AckFirst
<1> QED  BY <1>1, <1>2


LEMMA FirstRead ==
  ASSUME LinkInv, Faultless, [Next]_vars, ReadRequest, Faults' = 0
  PROVE  /\ \A m : NoneOf(wire'["server"], m)
         /\ pc["device"] = "ack" => AckFirst(wire'["device"])
<1>1. late = 0 /\ cuts = 0 /\ late' = 0 /\ cuts' = 0
  BY FaultsGrow DEF Faults
<1>2. Smooth
  BY <1>1 DEF Smooth, Faultless
<1>3. Staged'
  BY <1>1, <1>2, SmoothStep DEF Kept
<1>4. LinkInv'
  BY LinkNext
<1>5. /\ pc'["server"] = "handle" /\ pc'["device"] = pc["device"]
      /\ wire'["server"] \in Seq(Frame) /\ wire'["device"] \in Seq(Frame)
  BY <1>4, NumberFacts, InvFacts, EndFacts DEF ReadRequest, Places, LinkInv, TypeOK, End
<1>6. Accepted' \/ Awaiting'
  BY <1>3, <1>5
     DEF Staged, Resting, Acking, Asking, AskingEarly, Responded, Answering, Unheeded,
                   InVain, Gone, Stage
<1>7. /\ Carries(wire'["server"], <<>>)
      /\ pc["device"] = "ack" => Carries(wire'["device"], <<Ack>>)
  BY <1>5, <1>6 DEF Accepted, Awaiting, Stage, Ack
<1> QED  BY <1>5, <1>7, CarriedOnly

LEMMA ReadRequestRepeats ==
  ASSUME LinkInv, Faultless, BlocksKept, [Next]_vars, ReadRequest, Faults' \in Nat
  PROVE  BlocksKept' /\ (Repetitions => Repetitions')
<1> DEFINE s == wire["server"]
           m == Head(s).msg
<1>1. /\ wire \in [End -> Seq(Frame)] /\ Places /\ cuts \in 0..MaxCuts
      /\ s \in Seq(Frame) /\ wire["device"] \in Seq(Frame) /\ received \in Seq(Request)
      /\ Full(s) \in Nat /\ retry["device"] \in Nat /\ RetryMax \in Nat
      /\ Ack \in Frame /\ LastReceived \in Nat /\ RequestsOn(s)
  BY NumberFacts, InvFacts, CallFacts DEF Counters, LinkInv
<1>2. /\ pc["server"] = "read" /\ s # <<>> /\ Head(s).cmd = "data"
      /\ Sent(Taken("server"), "server", Ack) /\ request' = m
      /\ received' = Append(received, m) /\ pc' = [pc EXCEPT !["server"] = "handle"]
      /\ UNCHANGED <<retry, sending, unanswered>>
  BY DEF ReadRequest, Reads, Ack
<1>3. /\ Taken("server") \in [End -> Seq(Frame)] /\ Taken("server")["server"] = Tail(s)
      /\ Taken("server")["device"] = wire["device"]
  BY <1>1, <1>2, WiresTaken, EndFacts DEF Taken, Wires
<1>4. wire'["server"] = Tail(s) /\ wire' \in [End -> Seq(Frame)]
  BY <1>1, <1>2, <1>3, SentOrFault, EndFacts
<1>5. /\ DeviceRests /\ pc'["server"] = "handle" /\ pc'["device"] = pc["device"]
      /\ Asked' = Asked /\ retry'["device"] = retry["device"]
  BY <1>1, <1>2, EndFacts DEF DeviceRests, Places, Asked
<1>6. BlocksKept'
  BY <1>2, <1>4, <1>5, ServerBlocks DEF ServerReads, ServerTakes
<1>7. /\ m \in Request /\ m # Garbage /\ LastReceived <= m /\ m \in Nat
      /\ IsData(Head(s), m)
  <2>1. /\ sending["device"] \in Nat
        /\ GoodFrames(s, Request, LastReceived, sending["device"])
    BY <1>1, InvFacts DEF RequestsOn
  <2>2. m \in Request /\ (m # Garbage => LastReceived <= m)
    BY <1>1, <1>2, <2>1, GoodTail
  <2>3. m # Garbage /\ m \in Nat
    BY <2>2, ConstantFacts
  <2> QED  BY <1>2, <2>2, <2>3 DEF IsData
<1>8. /\ Len(s) \in Nat /\ Len(s) > 0 /\ Head(s) = s[1] /\ 1 \in 1..Len(s)
      /\ wire'["server"] \in Seq(Frame) /\ Len(wire'["server"]) = Len(s) - 1
      /\ \A i \in 1..(Len(s) - 1) : i + 1 \in 1..Len(s) /\ wire'["server"][i] = s[i + 1]
      /\ Full(s) >= 1 /\ Full(wire'["server"]) = Full(s) - 1
  <2>1. Len(s) \in Nat /\ Len(s) > 0 /\ 1 \in 1..Len(s)
    BY <1>1, <1>2, TailFrames
  <2> QED  BY <1>1, <1>2, <1>4, <2>1, TailFrames
<1>9. /\ received' \in Seq(Request) /\ Len(received') = Len(received) + 1
      /\ Len(received) \in Nat /\ received'[Len(received) + 1] = m
      /\ \A i \in 1..Len(received) : received'[i] = received[i] /\ received[i] \in Nat
      /\ LastReceived' = m
  <2>1. /\ Append(received, m) \in Seq(Request) /\ Len(Append(received, m)) = Len(received) + 1
        /\ Append(received, m)[Len(received) + 1] = m /\ Len(received) \in Nat
        /\ \A i \in 1..Len(received) :
             Append(received, m)[i] = received[i] /\ received[i] \in Request
    BY <1>1, <1>7
  <2>2. received' # <<>>
    BY <1>2, <2>1
  <2> QED  BY <1>2, <2>1, <2>2, ConstantFacts DEF LastReceived
<1>10. Occupied' /\ Attempt' = 1
  BY <1>2, <1>5, <1>9 DEF Occupied, Attempt
<1> HIDE DEF m, s
<1>11. ASSUME Repetitions PROVE Once'
  <2>1. NoneOf(s, LastReceived) \/ LastReceived \in unanswered
    BY <1>2, <1>11, ClearWhen DEF Clear, MayArrive, s
  <2>2. LastReceived < m \/ (LastReceived = m /\ LastReceived \in unanswered)
    BY <1>1, <1>7, <1>8, <2>1 DEF NoneOf
  <2>3. \A i \in 1..Len(received) :
          received[i] < m \/ (received[i] = m /\ received[i] \in unanswered)
    <3> SUFFICES ASSUME NEW i \in 1..Len(received)
                 PROVE  received[i] < m \/ (received[i] = m /\ received[i] \in unanswered)
      OBVIOUS
    <3>1. LastReceived = received[Len(received)] /\ Len(received) \in 1..Len(received)
      BY <1>1, <1>9 DEF LastReceived
    <3>2. \/ i = Len(received) \/ received[i] < received[Len(received)]
          \/ received[i] = received[Len(received)]
      BY <1>9, <1>11, <3>1 DEF Repetitions, Once
    <3> QED  BY <1>1, <1>7, <1>9, <2>2, <3>1, <3>2
  <2> SUFFICES ASSUME NEW i \in 1..Len(received'), NEW j \in 1..Len(received'), i < j
               PROVE  \/ received'[i] < received'[j]
                      \/ received'[i] = received'[j] /\ received'[i] \in unanswered
    BY <1>2 DEF Once
  <2>4. i \in 1..Len(received) /\ (j \in 1..Len(received) \/ j = Len(received) + 1)
    BY <1>9
  <2>5. CASE j \in 1..Len(received)
    BY <1>9, <1>11, <2>4, <2>5 DEF Repetitions, Once
  <2>6. CASE j = Len(received) + 1
    BY <1>9, <2>3, <2>4, <2>6
  <2> QED  BY <2>4, <2>5, <2>6
<1>12. UnderWay'
  <2> SUFFICES ASSUME ~NoneOf(wire'["server"], m)
               PROVE  /\ Faults' >= 1
                      /\ StartsWith(wire'["server"], m, RetryMax + Faults' - 1)
    BY <1>9, <1>10 DEF UnderWay, MayArrive
  <2>1. Faults' >= 1
    BY FirstRead
  <2>2. ASSUME NEW j \in 1..Len(wire'["server"]), IsData(wire'["server"][j], m)
        PROVE  j < RetryMax + Faults' - 1 /\ \A l \in 1..j : SentAs(wire'["server"][l], m)
    <3>1. /\ j + 1 \in 1..Len(s) /\ IsData(s[j + 1], m) /\ 1 <= j + 1
          /\ s[1].cmd = "data" /\ s[1].msg = m
      BY <1>7, <1>8, <2>2 DEF IsData
    <3>2. (j + 1) - 1 < RetryMax /\ \A l \in 1..(j + 1) : SentAs(s[l], m)
      BY <1>8, <3>1 DEF BlocksKept, Blocks, s
    <3>3. j < RetryMax + Faults' - 1
      <4>1. j \in Nat /\ RetryMax \in Nat /\ Faults' >= 1 /\ j < RetryMax
        BY <1>1, <1>8, <2>1, <3>2
      <4>2. \A i, r, f \in Nat : i < r /\ f >= 1 => i < r + f - 1
        OBVIOUS
      <4> QED  BY <4>1, <4>2
    <3>4. ASSUME NEW l \in 1..j PROVE SentAs(wire'["server"][l], m)
      <4>1. l \in 1..(Len(s) - 1) /\ l + 1 \in 1..(j + 1)
        BY <1>8
      <4> QED  BY <1>8, <3>2, <4>1
    <3> QED  BY <3>3, <3>4
  <2> QED  BY <2>1, <2>2 DEF StartsWith
<1>13. ToCome'
  <2> SUFFICES ASSUME MayRepeat'
               PROVE  /\ Faults' >= 1 /\ OnlyOf(wire'["server"], Asked)
                      /\ Full(wire'["server"]) + 1 < retry["device"] + Faults'
    BY <1>5, <1>10 DEF ToCome, Stuck
  <2>1. pc["device"] = "ack" /\ ~AckFirst(wire'["device"]) /\ m = Asked
    BY <1>5, <1>9 DEF MayRepeat
  <2>2. Faults' >= 1
    BY <2>1, FirstRead
  <2>3. Full(s) - 1 < retry["device"] /\ \A l \in 1..Len(s) : SentAs(s[l], Asked)
    BY <1>7, <1>8, <2>1 DEF BlocksKept, LastBlock, EndsIn, s
  <2>4. OnlyOf(wire'["server"], Asked)
    BY <1>8, <2>3 DEF OnlyOf
  <2>5. Full(wire'["server"]) + 1 < retry["device"] + Faults'
    BY <1>1, <1>8, <2>2, <2>3
  <2> QED  BY <2>2, <2>4, <2>5
<1> QED  BY <1>6, <1>11, <1>12, <1>13 DEF Repetitions


-----------------------------------------------------------------------------
(* The theorem. *)

LEMMA FaultInit == Init => FaultInv
<1> SUFFICES ASSUME Init PROVE FaultInv
  OBVIOUS
<1>1. LinkInv /\ Faultless
  BY LinkInit, FaultlessInit
<1>2. /\ wire["server"] = <<>> /\ pc["device"] = "idle" /\ received = <<>>
      /\ pc["server"] = "idle"
  BY EndFacts DEF Init
<1>3. BlocksKept
  BY <1>2, NothingOf DEF BlocksKept, LastBlock
<1>4. Repetitions
  BY <1>2, NothingOf DEF Repetitions, UnderWay, ToCome, MayArrive, MayRepeat, Once
<1> QED  BY <1>1, <1>3, <1>4 DEF FaultInv

LEMMA FaultNext == FaultInv /\ [Next]_vars => FaultInv'
<1> SUFFICES ASSUME FaultInv, [Next]_vars PROVE FaultInv'
  OBVIOUS
<1>1. LinkInv /\ Faultless /\ BlocksKept
  BY DEF FaultInv
<1>2. /\ late \in Nat /\ cuts \in Nat /\ late' \in {late, late + 1} /\ cuts' \in {cuts, cuts + 1}
      /\ late' \in Nat /\ late <= late' /\ Faults \in Nat /\ Faults' \in Nat /\ Faults <= Faults'
  BY <1>1, FaultsGrow DEF Faults
<1>3. LinkInv' /\ Faultless'
  BY <1>1, LinkNext, FaultlessNext
<1> DEFINE Goal == BlocksKept' /\ (Faults' <= 2 /\ Repetitions => Repetitions')
<1>4. ASSUME UNCHANGED vars PROVE Goal
  <2>1. ServerRests /\ DeviceRests /\ wire' = wire
    BY <1>4 DEF vars, app, ServerRests, DeviceRests
  <2>2. BlocksKept'
    BY <1>1, <2>1, ServerBlocks DEF ServerReads
  <2>3. MayRepeat' => MayRepeat
    BY <1>4 DEF vars, app, MayRepeat, LastReceived, Asked
  <2>4. Repetitions => Repetitions'
    BY <1>1, <1>2, <2>1, <2>3, DeviceAside DEF DeviceRests
  <2> QED  BY <2>2, <2>4
<1>5. ASSUME Device PROVE Goal
  <2>1. DevicePasses \/ DeviceRetries
    BY <1>5 DEF Device, Link, DevicePasses, DeviceRetries
  <2> QED  BY <1>1, <1>2, <2>1, PassesKeep, RetriesKeep
<1>6. ASSUME Server PROVE Goal
  <2>1. \/ ServerPasses \/ NoAck("server") \/ AckTimeout("server")
        \/ Respond \/ ReadRequest
    BY <1>6 DEF Server, Link, ServerPasses
  <2> QED  BY <1>1, <1>2, <2>1, ServerPassesKeep, ServerAgain, RespondRepeats, ReadRequestRepeats
<1>7. ASSUME Call PROVE Goal
  BY <1>1, <1>2, <1>7, CallBlocks
<1>8. ASSUME Heartbeat PROVE Goal
  BY <1>1, <1>2, <1>8, PassesKeep DEF DevicePasses
<1>9. Goal
  BY <1>4, <1>5, <1>6, <1>7, <1>8 DEF Next
<1>10. Faults' <= 2 => Repetitions
  BY <1>2 DEF FaultInv
<1> QED  BY <1>3, <1>9, <1>10 DEF FaultInv

(* For any number of calls, attempts and heartbeats, and wherever they happen: two
   frames cut or answers late are never enough to make the handler read again a
   request that it answers (linkSendRetry(), readAck()). *)
THEOREM AnsweredOnceOnly == Spec => []AnsweredReadOnce
<1>1. FaultInv => AnsweredReadOnce
  <2> SUFFICES ASSUME FaultInv, late + cuts <= 2,
                      NEW i \in DOMAIN received, NEW j \in DOMAIN received,
                      received[i] = received[j], received[i] \notin unanswered
               PROVE  i = j
    BY DEF AnsweredReadOnce
  <2>1. received \in Seq(Request) /\ Once
    BY NumberFacts DEF FaultInv, Repetitions, Faults
  <2>2. i \in 1..Len(received) /\ j \in 1..Len(received) /\ Len(received) \in Nat
    BY <2>1
  <2>3. received[i] \in Nat
    <3>1. received[i] \in Request
      BY <2>1
    <3> QED  BY <3>1, ConstantFacts
  <2>4. ~(i < j) /\ ~(j < i)
    BY <2>1, <2>2, <2>3 DEF Once
  <2> QED  BY <2>2, <2>4
<1> QED  BY <1>1, FaultInit, FaultNext, PTL DEF Spec
=============================================================================
