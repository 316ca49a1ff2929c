------------------------------ MODULE TaskPool ------------------------------
(***************************************************************************)
(* What a worker pool promises to the one who submits tasks: an accepted   *)
(* task is started once, in the order of acceptance, and finished once; a  *)
(* closed pool accepts nothing and still works off what it has accepted.   *)
(* Threads, sleeping and waking do not appear.                             *)
(***************************************************************************)
EXTENDS Sequences, FiniteSets

CONSTANT Task

VARIABLES
  pending,    \* accepted, in order
  executing,  \* started
  finished,
  refused,    \* submitted after closing
  closed

vars == <<pending, executing, finished, refused, closed>>

Pending == {pending[i] : i \in DOMAIN pending}
Fresh(t) == t \notin Pending \cup executing \cup finished \cup refused

Init ==
  /\ pending = <<>>
  /\ executing = {}
  /\ finished = {}
  /\ refused = {}
  /\ closed = FALSE

Submit(t) ==
  /\ Fresh(t)
  /\ ~closed
  /\ pending' = Append(pending, t)
  /\ UNCHANGED <<executing, finished, refused, closed>>

Refuse(t) ==
  /\ Fresh(t)
  /\ closed
  /\ refused' = refused \cup {t}
  /\ UNCHANGED <<pending, executing, finished, closed>>

Start ==
  /\ pending # <<>>
  /\ pending' = Tail(pending)
  /\ executing' = executing \cup {Head(pending)}
  /\ UNCHANGED <<finished, refused, closed>>

Finish(t) ==
  /\ t \in executing
  /\ executing' = executing \ {t}
  /\ finished' = finished \cup {t}
  /\ UNCHANGED <<pending, refused, closed>>

Close ==
  /\ closed' = TRUE
  /\ UNCHANGED <<pending, executing, finished, refused>>

Next ==
  \/ \E t \in Task : Submit(t) \/ Refuse(t) \/ Finish(t)
  \/ Start
  \/ Close

Spec == Init /\ [][Next]_vars
=============================================================================
