---------------------------- MODULE LendingPool ----------------------------
(***************************************************************************)
(* What a pool of connections promises to its clients: a connection is     *)
(* lent to one client at a time, and only one that lies idle in the pool.  *)
(* A connection found broken, idle or brought back, may be thrown away,    *)
(* and a new one put in; validity and waiting do not appear.               *)
(***************************************************************************)
CONSTANTS Client, Conn

VARIABLES
  idle,  \* the connections in the pool
  lent   \* the connections each client has: none or one

vars == <<idle, lent>>

Init ==
  /\ idle \subseteq Conn
  /\ lent = [c \in Client |-> {}]

Lend(c, x) ==
  /\ x \in idle
  /\ lent[c] = {}
  /\ idle' = idle \ {x}
  /\ lent' = [lent EXCEPT ![c] = {x}]

Return(c) ==
  /\ lent[c] # {}
  /\ idle' = idle \cup lent[c]
  /\ lent' = [lent EXCEPT ![c] = {}]

BringBackBroken(c) ==
  /\ lent[c] # {}
  /\ idle' = idle
  /\ lent' = [lent EXCEPT ![c] = {}]

ThrowAway(x) ==
  /\ x \in idle
  /\ idle' = idle \ {x}
  /\ lent' = lent

PutNew(x) ==
  /\ x \notin idle
  /\ \A c \in Client : x \notin lent[c]
  /\ idle' = idle \cup {x}
  /\ lent' = lent

Next ==
  \/ \E c \in Client : Return(c) \/ BringBackBroken(c) \/ \E x \in Conn : Lend(c, x)
  \/ \E x \in Conn : ThrowAway(x) \/ PutNew(x)

Spec == Init /\ [][Next]_vars
=============================================================================
