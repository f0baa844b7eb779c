-------------------------- MODULE MCBuildChangeset --------------------------
(***************************************************************************)
(* Instance of BuildChangeset for TLC: one shared id and two leftovers on  *)
(* each side, every overlap between them at or around the two thresholds.  *)
(* The group shapes (1,1), (1,2), (2,1), (2,2) and their combinations with *)
(* lone features all occur, at both sides of each threshold.               *)
(***************************************************************************)
EXTENDS ChangeLayer

\* Interleaved ranks: neither side sorts wholly before the other.
MCFeaturesA == {1, 3, 5}
MCFeaturesB == {2, 3, 4}

\* Tags only matter to the classification of a pair: one id match and one
\* cross-id pair that may be retagged reach every case of it.
MCMayRetag == {<<3, 3>>, <<1, 2>>}
=============================================================================
