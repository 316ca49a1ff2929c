---------------------------- MODULE MCThreadPool ----------------------------
(* Small instances of ThreadPool for TLC. *)
EXTENDS ThreadPool

CONSTANTS t1, t2, s1, s2, w1, p1, r1, stopper

TwoTasks == {t1, t2}
OneSubmitter == {s1}
TwoSubmitters == {s1, s2}
OneWaiter == {w1}
OnePauser == {p1}
OneResizer == {r1}
Nobody == {}

OneToThree == {1, 3}
ShrinkTo1 == {1}
NoSize == {}
=============================================================================
