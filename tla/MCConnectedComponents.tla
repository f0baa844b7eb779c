----------------------- MODULE MCConnectedComponents -----------------------
(***************************************************************************)
(* Instance of ConnectedComponents for TLC: every candidate graph over     *)
(* three leftover features on each side (512 graphs), so splits, merges,   *)
(* paths of length five and complete tangles are all among them.           *)
(***************************************************************************)
EXTENDS ConnectedComponents

CONSTANTS a1, a2, a3, b1, b2, b3

MCOnlyA == {a1, a2, a3}
MCOnlyB == {b1, b2, b3}
=============================================================================
