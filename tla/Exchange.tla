------------------------------ MODULE Exchange ------------------------------
(***************************************************************************)
(* What the link promises whatever the faults: requests are received in    *)
(* the order in which they were asked, one again at most before the next   *)
(* is received; what is handled is the request received last or nothing    *)
(* that was ever asked; and a call ends without response or with one that  *)
(* the server has made, not older than those read before.                  *)
(***************************************************************************)
EXTENDS Integers, Sequences

CONSTANTS
  Request,  \* the requests, in the order of the calls: 1, 2, ...
  Unasked   \* a message nobody has sent

VARIABLES
  asked,     \* the number of calls made
  waiting,   \* whether the last of them has not yet returned
  received,  \* the requests as they arrive
  handled,   \* what the server handles, and responds to
  result     \* the response each call has read

vars == <<asked, waiting, received, handled, result>>

Newest == IF received = <<>> THEN Unasked ELSE received[Len(received)]

Init ==
  /\ asked = 0
  /\ waiting = FALSE
  /\ received = <<>>
  /\ handled = <<>>
  /\ result = [m \in Request |-> Unasked]

Ask ==
  /\ ~waiting
  /\ asked + 1 \in Request
  /\ asked' = asked + 1
  /\ waiting' = TRUE
  /\ UNCHANGED <<received, handled, result>>

Receive(m) ==
  /\ m <= asked
  /\ received = <<>> \/ Newest <= m
  /\ received' = Append(received, m)
  /\ UNCHANGED <<asked, waiting, handled, result>>

Handle ==
  /\ \E m \in {Newest, Unasked} : handled' = Append(handled, m)
  /\ UNCHANGED <<asked, waiting, received, result>>

Fail ==
  /\ waiting
  /\ waiting' = FALSE
  /\ UNCHANGED <<asked, received, handled, result>>

Answer(i) ==
  /\ waiting
  /\ waiting' = FALSE
  /\ handled[i] = Unasked \/ \A m \in Request : result[m] = Unasked \/ result[m] <= handled[i]
  /\ result' = [result EXCEPT ![asked] = handled[i]]
  /\ UNCHANGED <<asked, received, handled>>

Next ==
  \/ Ask \/ Handle \/ Fail
  \/ \E m \in Request : Receive(m)
  \/ \E i \in DOMAIN handled : Answer(i)

Spec == Init /\ [][Next]_vars
=============================================================================
