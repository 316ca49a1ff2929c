--------------------------- MODULE MCEpollServer ---------------------------
(* Small instances of EpollServer for TLC. *)
EXTENDS EpollServer

CONSTANTS c1, c2

OneClient == {c1}
TwoClients == {c1, c2}
=============================================================================
