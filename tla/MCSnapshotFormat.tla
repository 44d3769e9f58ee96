--------------------------- MODULE MCSnapshotFormat ---------------------------
(***************************************************************************)
(* SnapshotFormat for TLC: byte strings of different lengths.              *)
(***************************************************************************)
EXTENDS SnapshotFormat

MCKeys == {<< >>, <<7>>}
MCValues == {<< >>, <<1, 2>>}
=============================================================================
