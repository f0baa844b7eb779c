----------------------------- MODULE MCSession -----------------------------
(***************************************************************************)
(* Instance of Session for TLC: an interval of five years and one of a     *)
(* month, two buildings, two clicks.                                       *)
(***************************************************************************)
EXTENDS Session

MCChangesets == [c \in {1, 2} |-> IF c = 1 THEN 31 ELSE 1826]

Gone == [classification |-> "removed", osm_ids_a |-> {"x"}, osm_ids_b |-> {}]
Split == [classification |-> "ambiguous", osm_ids_a |-> {"x"}, osm_ids_b |-> {"x", "y"}]

MCLayerContents == {{Gone}, {Split}}
=============================================================================
