---------------------------- MODULE ChangeLayer ----------------------------
(***************************************************************************)
(* What becomes of the records of build_changeset: the change layer        *)
(* (src/src/matching/render.py), the counts of the changeset's row         *)
(* (src/src/matching/pipeline.py), the rows publish_change_features writes *)
(* (src/src/publish/postgis.py) and the total the API adds up from the     *)
(* counts (src/api/main.py).  Each is a function of the records returned.  *)
(*                                                                         *)
(* A geometry is told by the footprints it is the union of, <<side, id>>;  *)
(* the metrics of a candidate by the pair they were computed for.          *)
(***************************************************************************)
EXTENDS BuildChangeset, FiniteSets

\* The loaded snapshots are dictionaries.
ASSUME FeaturesFinite == IsFiniteSet(FeaturesA) /\ IsFiniteSet(FeaturesB)

-----------------------------------------------------------------------------
(* render_change_layer. *)

Before(ids) == { <<"A", id>> : id \in ids }
After(ids) == { <<"B", id>> : id \in ids }

\* Draws the first footprint only.
Faulty_record_geometry(r) ==
    LET geoms == IF r.osm_ids_b = {} THEN Before(r.osm_ids_a) ELSE After(r.osm_ids_b)
    IN  { f \in geoms : \A g \in geoms : f[2] <= g[2] }

\* The footprints of B, and those of A if there are none.
_record_geometry(r) ==
    After(r.osm_ids_b) \cup (IF r.osm_ids_b = {} THEN Before(r.osm_ids_a) ELSE {})

\* The order of pairs of ids in two nested sorted loops.
PairLess(p, q) == p[1] < q[1] \/ (p[1] = q[1] /\ p[2] < q[2])

\* Iterates the frozensets themselves.
FaultyCandidateArrays(r) ==
    Bijection(1..Cardinality(r.pair_metrics), r.pair_metrics)

\* The `candidates` arrays a process may write for a record: pair_metrics was
\* filled by two nested loops over sorted ids, and dictionaries keep the order.
CandidateArrays(r) ==
    { s \in Bijection(1..Cardinality(r.pair_metrics), r.pair_metrics) :
        \A i, j \in DOMAIN s : i < j => PairLess(s[i], s[j]) }

\* The GeoJSON features a process may write for a record.
Rendered(r) ==
    { [classification |-> r.classification,
       osm_ids_a |-> r.osm_ids_a, osm_ids_b |-> r.osm_ids_b,
       geometry |-> _record_geometry(r), candidates |-> array] :
        array \in CandidateArrays(r) }

-----------------------------------------------------------------------------
(* build_changeset_result and _changeset_payload. *)

Having(classification) ==
    { i \in DOMAIN records : records[i].classification = classification }

counts == [c \in {"unchanged", "modified_geometry", "modified_attributes",
                  "modified_geometry_and_attributes", "added", "removed",
                  "ambiguous"} |-> Cardinality(Having(c))]

\* Leaves the ambiguous records out of the sum.
Faulty_changed_count ==
    counts["modified_geometry"] + counts["modified_attributes"]
        + counts["modified_geometry_and_attributes"]
        + counts["added"] + counts["removed"]

changed_count ==
    counts["modified_geometry"] + counts["modified_attributes"]
        + counts["modified_geometry_and_attributes"]
        + counts["added"] + counts["removed"] + counts["ambiguous"]

-----------------------------------------------------------------------------
(* publish_change_features, of the layer a build has written. *)

NoMetrics == << >>

\* Promotes the first candidate, however many there are.
FaultyMetrics(feature) ==
    IF feature.candidates = << >> THEN NoMetrics ELSE feature.candidates[1]

\* The pair whose metrics become the row's own columns.
Metrics(feature) ==
    IF Len(feature.candidates) = 1 THEN feature.candidates[1] ELSE NoMetrics

\* The records that get a row, in the order of the layer.
Published == { i \in DOMAIN records : records[i].classification # "unchanged" }

\* The footprints that may be degenerate, those validate_and_repair found no
\* polygonal content in: they have no area, so nothing was measured to overlap
\* them.  Which of them are is not known to build_changeset.
WithoutArea ==
    { <<"A", a>> : a \in { x \in FeaturesA : \A p \in Pairs : p[1] = x => iou[p] = 0 } }
      \cup { <<"B", b>> : b \in { x \in FeaturesB : \A p \in Pairs : p[2] = x => iou[p] = 0 } }

\* What _as_multipolygon accepts, and geom_render_3857 stores: a union of
\* polygons.  It raises on a geometry with a degenerate part.
IsPolygonal(geometry, degenerate) ==
    geometry # {} /\ geometry \cap degenerate = {}

\* What a row needs besides the published snapshots: a polygonal geometry (the
\* column is NOT NULL), and for an `added` or `removed` record an id by which
\* the geometry of that side is joined.
Insertable(feature, degenerate) ==
    /\ IsPolygonal(feature.geometry, degenerate)
    /\ feature.classification = "added" => feature.osm_ids_b # {}
    /\ feature.classification = "removed" => feature.osm_ids_a # {}

\* The rows are inserted together: one that raises fails the whole load.
LayerInsertable(degenerate) ==
    \A i \in Published : \A f \in Rendered(records[i]) : Insertable(f, degenerate)

-----------------------------------------------------------------------------
\* The API announces for a changeset the number of changes from the counts of
\* its metadata row, and the map draws the rows of change_features: two
\* artifacts of one build that must agree ("unchanged has no rows in
\* change_features by design; the count comes from the metadata table").
ChangedCountIsRowCount ==
    pc = "done" => changed_count = Cardinality(Published)

\* The same inputs give the same file in every process ("deterministic output
\* ordering is part of the contract"): no record leaves a choice of array.
ExportDeterministic ==
    pc = "done" => \A i \in DOMAIN records : \E f \in Rendered(records[i]) :
        Rendered(records[i]) = {f}

\* What publish_change_features can load of what a build exports, whichever
\* footprints are degenerate ("a GeometryCollection here would mean that
\* invariant broke and must not pass silently"): the whole layer, unless a
\* current footprint or that of a removed building is degenerate, and then
\* nothing.  It loads over a degenerate old footprint of a building that is
\* still there, which is drawn as it is now; and no group has a degenerate
\* member.  And a row's metric columns are never those of one candidate of
\* several, nor of a pair other than the row's own ("leave these NULL rather
\* than picking one to promote").
RowsPublishable ==
    pc = "done" =>
        /\ \A degenerate \in SUBSET WithoutArea :
             LayerInsertable(degenerate) <=> degenerate \subseteq Before(shared_ids)
        /\ \A i \in Published : \A f \in Rendered(records[i]) :
             Metrics(f) # NoMetrics =>
               f.osm_ids_a = {Metrics(f)[1]} /\ f.osm_ids_b = {Metrics(f)[2]}

\* An ambiguous record can be found on the map ("still locates the record"),
\* although its geometry is not "the union of every involved footprint" that
\* the docstring promises: the footprints of A are not drawn, but each of them
\* has area in common with one that is.
GroupsLocated ==
    pc = "done" =>
        \A i \in Having("ambiguous") : \A f \in Rendered(records[i]) :
            /\ \A b \in f.osm_ids_b : <<"B", b>> \in f.geometry
            /\ \A a \in f.osm_ids_a : \E b \in f.osm_ids_b :
                 <<"B", b>> \in f.geometry /\ iou[<<a, b>>] > 0
=============================================================================
