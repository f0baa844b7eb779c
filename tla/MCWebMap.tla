------------------------------ MODULE MCWebMap ------------------------------
(***************************************************************************)
(* Instance of WebMap for TLC: two intervals that end at different         *)
(* snapshots, and two answers.                                             *)
(***************************************************************************)
EXTENDS WebMap

MCSnapshotB == [c \in {1, 2} |-> <<"snapshot", c>>]
=============================================================================
