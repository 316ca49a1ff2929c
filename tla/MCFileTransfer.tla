--------------------------- MODULE MCFileTransfer ---------------------------
(* Small instances of FileTransfer for TLC. *)
EXTENDS FileTransfer

CONSTANTS h1, h2

TwoHandlers == {h1, h2}

Doc(v, s) == [version |-> v, state |-> s]
(* One file; a newer one beside it whose entries are incomplete; a file with
   the number 0 and one that does not parse after it.  Between the firmware files the loop meets its last chunk full,
   short, or no chunk at all. *)
ThreeLibraries ==
  {[algos |-> <<Doc(1, "good")>>, dfu |-> 3],
   [algos |-> <<Doc(1, "good"), Doc(2, "bad entry")>>, dfu |-> 4],
   [algos |-> <<Doc(0, "good"), Doc(1, "broken")>>, dfu |-> 0]}
TextSizes == {2, 3}
DeviceVersions == {1, 2}
=============================================================================
