---------------------------- MODULE MCIngestion ----------------------------
(***************************************************************************)
(* Instance of Ingestion for TLC: two elements, one second before the      *)
(* instant, the instant, and the second the query range ends with.         *)
(***************************************************************************)
EXTENDS Ingestion

\* A figure of eight becomes two polygons, a spike a polygon and a line, and a
\* footprint without area a line, or lines and points.
MCRepaired ==
    [s \in {"eight", "spike", "flat", "dust"} |->
        CASE s = "eight" -> {"MultiPolygon"}
          [] s = "spike" -> {"Polygon", "LineString"}
          [] s = "flat" -> {"LineString"}
          [] s = "dust" -> {"LineString", "Point"}]

\* Every shape at the instant, built at it or before, and then kept, redrawn or
\* demolished in the last second of the range.
MCHistories ==
    { <<before, at, after>> :
        before \in {Absent, "house"}, at \in Shapes \cup {Absent},
        after \in {Absent, "house", "spike"} }

\* The same as functions over 0..2.
MCHistoryFunctions == { [t \in 0..2 |-> h[t + 1]] : h \in MCHistories }
=============================================================================
