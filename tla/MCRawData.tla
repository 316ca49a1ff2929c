----------------------------- MODULE MCRawData -----------------------------
(* A small instance of RawData for TLC. *)
EXTENDS RawData, TLC

CONSTANTS h1, h2, d1, m1, m2

TwoHandlers == {h1, h2}
OneDevice == {d1}
TwoMeasurements == {m1, m2}

TwoBlocks == [m \in Measurement |-> 2]

HandlerMeasurementSymmetry == Permutations(Handler) \cup Permutations(Measurement)
=============================================================================
