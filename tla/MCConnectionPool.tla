-------------------------- MODULE MCConnectionPool --------------------------
(* Small instances of ConnectionPool for TLC. *)
EXTENDS ConnectionPool

CONSTANTS h1, h2, x1, x2, x3

TwoHandlers == {h1, h2}
ThreeConns == {x1, x2, x3}
TwoConns == {x1, x2}
Full1 == {1}
AnyUpTo2 == {0, 1, 2}
=============================================================================
