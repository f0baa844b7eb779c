----------------------------- MODULE Ingestion -----------------------------
(***************************************************************************)
(* One snapshot from the history of OpenStreetMap to its two consumers:    *)
(* the fetch, the selection of the versions valid at the instant, their    *)
(* validation and repair (src/src/ingestion), then load_features, which    *)
(* every build starts with, and the rows publish_snapshot_features stages. *)
(*                                                                         *)
(* Time is counted in seconds, OSM's own resolution.  A geometry is told   *)
(* by the shape that was mapped, whether make_valid has been applied, and  *)
(* the types of its parts.  Tags do not decide anything here.              *)
(***************************************************************************)
EXTENDS Naturals, FiniteSets

CONSTANTS
    Elements,           \* osm ids
    Absent,             \* not a building, or not there
    requested_time,
    RANGE_WIDTH,
    ValidShapes,        \* the mapped shapes that are valid polygons
    Repaired,           \* invalid shape -> the types of the parts make_valid gives
    Histories           \* what an element may have been: functions over Times

Times == 0..(requested_time + RANGE_WIDTH)
InvalidShapes == DOMAIN Repaired
Shapes == ValidShapes \cup InvalidShapes

POLYGONAL_TYPES == {"Polygon", "MultiPolygon"}

ASSUME IngestionAssumption ==
    /\ IsFiniteSet(Elements)
    /\ requested_time \in Nat /\ RANGE_WIDTH \in Nat
    /\ ValidShapes \cap InvalidShapes = {}
    /\ Absent \notin Shapes
    /\ Histories \subseteq [Times -> Shapes \cup {Absent}]
    /\ \A s \in InvalidShapes : Repaired[s] # {}

VARIABLES
    osm,            \* the input: element -> its history
    raw,            \* the features of the response
    todo,           \* selected features the loop has not reached
    processed,      \* the features of the processed GeoJSON
    counts,         \* [feature, invalid, repaired] as the loop counts them
    pc,             \* of the ingestion: "fetch", "normalize", "stored", "raised"
    loaded, loader, \* load_features: ids loaded so far, and how it stands
    staged, publisher,  \* the rows copied so far, and how the publish stands
    published       \* ids in snapshot_features

ingestion == <<raw, todo, processed, counts, pc>>
vars == <<osm, ingestion, loaded, loader, staged, publisher, published>>

-----------------------------------------------------------------------------
(* ohsome's elementsFullHistory: one row for each version that touches the *)
(* range, with @validFrom clipped to it.                                   *)

Response ==
    { [osm_id |-> v[1], validFrom |-> v[2], shape |-> osm[v[1]][v[2]]] :
        v \in { et \in Elements \X (requested_time..(requested_time + RANGE_WIDTH)) :
                  /\ osm[et[1]][et[2]] # Absent
                  /\ \/ et[2] = requested_time
                     \/ osm[et[1]][et[2]] # osm[et[1]][et[2] - 1] } }

\* Keeps every version that touches the range.
Faulty_select_features_valid_at(features) == features

_select_features_valid_at(features) ==
    { f \in features : f.validFrom = requested_time }

-----------------------------------------------------------------------------
(* validate_and_repair. *)

\* The types of parts: a geometry with several parts of different types is a
\* GeometryCollection.
Original(shape) == [shape |-> shape, made_valid |-> FALSE, parts |-> {"Polygon"}]
MakeValid(shape) == [shape |-> shape, made_valid |-> TRUE, parts |-> Repaired[shape]]

IsPolygonal(g) == \E type \in POLYGONAL_TYPES : g.parts = {type}

\* The types of the polygonal content; of a collection, that of the union of its
\* polygons (which of the two polygonal types it is makes no difference).
_extract_polygonal(g) ==
    IF IsPolygonal(g) THEN g.parts
    ELSE IF g.parts \cap POLYGONAL_TYPES = {} THEN {} ELSE {"MultiPolygon"}

Validated(g, method) == [geometry |-> g, repair_method |-> method]

\* The extraction of the polygons is not recorded.
Faulty_validate_and_repair(shape) ==
    IF shape \in ValidShapes
    THEN Validated(Original(shape), "None")
    ELSE LET repaired == MakeValid(shape)
             polygonal == _extract_polygonal(repaired)
         IN  IF polygonal \in {{}, repaired.parts}
             THEN Validated(repaired, "make_valid")
             ELSE Validated([repaired EXCEPT !.parts = polygonal], "None")

\* Hands the repair back as it is.
FaultyKeep_validate_and_repair(shape) ==
    IF shape \in ValidShapes
    THEN Validated(Original(shape), "None")
    ELSE Validated(MakeValid(shape), "make_valid")

validate_and_repair(shape) ==
    IF shape \in ValidShapes
    THEN Validated(Original(shape), "None")
    ELSE LET repaired == MakeValid(shape)
             polygonal == _extract_polygonal(repaired)
         IN  IF polygonal \in {{}, repaired.parts}
             THEN Validated(repaired, "make_valid")
             ELSE Validated([repaired EXCEPT !.parts = polygonal],
                            "make_valid+extract_polygons")

normalize_feature(f) ==
    LET result == validate_and_repair(f.shape)
    IN  [osm_id |-> f.osm_id, geometry |-> result.geometry,
         original_geometry |-> Original(f.shape),
         original_valid |-> f.shape \in ValidShapes,
         repair_method |-> result.repair_method]

-----------------------------------------------------------------------------
Init ==
    /\ osm \in [Elements -> Histories]
    /\ raw = {} /\ todo = {} /\ processed = {}
    /\ counts = [feature |-> 0, invalid |-> 0, repaired |-> 0]
    /\ pc = "fetch"
    /\ loaded = {} /\ loader = "waiting"
    /\ staged = {} /\ publisher = "waiting"
    /\ published = {}

\* The response is not kept.
FaultyFetch ==
    /\ pc = "fetch"
    /\ raw' = {}
    /\ todo' = _select_features_valid_at(Response)
    /\ pc' = "normalize"
    /\ UNCHANGED <<osm, processed, counts, loaded, loader, staged, publisher, published>>

\* fetch_building_geometries, and the selection.
Fetch ==
    /\ pc = "fetch"
    /\ raw' = Response
    /\ todo' = _select_features_valid_at(Response)
    /\ pc' = "normalize"
    /\ UNCHANGED <<osm, processed, counts, loaded, loader, staged, publisher, published>>

\* raise_for_status, or the timeout.
FetchFails ==
    /\ pc = "fetch"
    /\ pc' = "raised"
    /\ UNCHANGED <<osm, raw, todo, processed, counts,
                   loaded, loader, staged, publisher, published>>

\* One turn of the loop of build_snapshot_from_raw.
Normalize(f) ==
    LET feature == normalize_feature(f)
    IN  /\ pc = "normalize"
        /\ f \in todo
        /\ todo' = todo \ {f}
        /\ processed' = processed \cup {feature}
        /\ counts' = [feature |-> counts.feature + 1,
                      invalid |-> counts.invalid + IF feature.original_valid THEN 0 ELSE 1,
                      repaired |-> counts.repaired
                                     + IF feature.repair_method = "None" THEN 0 ELSE 1]
        /\ UNCHANGED <<osm, raw, pc, loaded, loader, staged, publisher, published>>

\* The snapshot is returned, and persisted with its counts.
Store ==
    /\ pc = "normalize"
    /\ todo = {}
    /\ pc' = "stored"
    /\ UNCHANGED <<osm, raw, todo, processed, counts,
                   loaded, loader, staged, publisher, published>>

-----------------------------------------------------------------------------
(* load_features: a dictionary by osm_id, filled feature by feature. *)

LoadFeature(f) ==
    /\ pc = "stored" /\ loader = "waiting"
    /\ f \in processed \ loaded
    /\ IF f.osm_id \in { g.osm_id : g \in loaded }
       THEN loader' = "raised" /\ UNCHANGED loaded
       ELSE loaded' = loaded \cup {f} /\ UNCHANGED loader
    /\ UNCHANGED <<osm, ingestion, staged, publisher, published>>

LoadDone ==
    /\ pc = "stored" /\ loader = "waiting"
    /\ loaded = processed
    /\ loader' = "ok"
    /\ UNCHANGED <<osm, ingestion, loaded, staged, publisher, published>>

-----------------------------------------------------------------------------
(* publish_snapshot_features: COPY row by row, INSERT, COMMIT. *)

\* Rows are committed as they are copied.
FaultyStageRow(f) ==
    /\ pc = "stored" /\ publisher = "waiting"
    /\ f \in processed \ staged
    /\ IF IsPolygonal(f.geometry)
       THEN /\ staged' = staged \cup {f} /\ published' = published \cup {f.osm_id}
            /\ UNCHANGED publisher
       ELSE publisher' = "raised" /\ UNCHANGED <<staged, published>>
    /\ UNCHANGED <<osm, ingestion, loaded, loader>>

\* _as_multipolygon raises on anything that is not polygonal.
StageRow(f) ==
    /\ pc = "stored" /\ publisher = "waiting"
    /\ f \in processed \ staged
    /\ IF IsPolygonal(f.geometry)
       THEN staged' = staged \cup {f} /\ UNCHANGED publisher
       ELSE publisher' = "raised" /\ UNCHANGED staged
    /\ UNCHANGED <<osm, ingestion, loaded, loader, published>>

\* UNIQUE (snapshot_id, osm_id).
InsertRows ==
    /\ pc = "stored" /\ publisher = "waiting"
    /\ staged = processed
    /\ IF \A f, g \in staged : f.osm_id = g.osm_id => f = g
       THEN publisher' = "ok" /\ published' = { f.osm_id : f \in staged }
       ELSE publisher' = "raised" /\ UNCHANGED published
    /\ UNCHANGED <<osm, ingestion, loaded, loader, staged>>

Next ==
    \/ Fetch \/ FetchFails
    \/ \E f \in todo : Normalize(f)
    \/ Store
    \/ \E f \in processed : LoadFeature(f) \/ StageRow(f)
    \/ LoadDone \/ InsertRows

Spec == Init /\ [][Next]_vars

-----------------------------------------------------------------------------
Geometry ==
    [shape : Shapes, made_valid : BOOLEAN,
     parts : SUBSET (POLYGONAL_TYPES \cup UNION { Repaired[s] : s \in InvalidShapes })]

Feature ==
    [osm_id : Elements, geometry : Geometry, original_geometry : Geometry,
     original_valid : BOOLEAN,
     repair_method : {"None", "make_valid", "make_valid+extract_polygons"}]

RawFeature == [osm_id : Elements, validFrom : Times, shape : Shapes]

TypeOK ==
    /\ osm \in [Elements -> Histories]
    /\ raw \subseteq RawFeature /\ todo \subseteq raw
    /\ processed \subseteq Feature
    /\ counts \in [feature : Nat, invalid : Nat, repaired : Nat]
    /\ pc \in {"fetch", "normalize", "stored", "raised"}
    /\ loaded \subseteq processed /\ staged \subseteq processed
    /\ loader \in {"waiting", "ok", "raised"}
    /\ publisher \in {"waiting", "ok", "raised"}
    /\ published \subseteq Elements

\* The elements that are a building at the instant, with what was mapped then.
StateAt(t) == { <<e, osm[e][t]>> : e \in { x \in Elements : osm[x][t] # Absent } }

\* "reconstructs the same state at T": from a response that holds every version
\* touching the range, edits made in its last second included, the snapshot
\* keeps each building of the instant once, as it was mapped then, no other.
SnapshotIsStateAtInstant ==
    pc = "stored" =>
        { <<f.osm_id, f.original_geometry.shape>> : f \in processed }
          = StateAt(requested_time)

\* "Repair is never silent": a geometry that is not the mapped one says by which
\* method it was repaired, and the counts of the row, which is all that is left
\* once the objects are gone, are those of the instant's buildings.
RepairRecorded ==
    pc = "stored" =>
        /\ \A f \in processed :
             f.geometry # f.original_geometry => f.repair_method # "None"
        /\ counts.feature = Cardinality(StateAt(requested_time))
        /\ counts.invalid = counts.repaired
        /\ counts.invalid =
             Cardinality({ es \in StateAt(requested_time) : es[2] \in InvalidShapes })

\* Shapes whose repair leaves no polygon at all.
Degenerate == { s \in InvalidShapes : Repaired[s] \cap POLYGONAL_TYPES = {} }

\* A snapshot that was ingested can be used: every build can load it, and it can
\* be published, unless a building of the instant is degenerate; then every
\* publish raises and the table keeps nothing of it.
UsableUnlessDegenerate ==
    /\ loader # "raised"
    /\ publisher = "raised" =>
         /\ \E es \in StateAt(requested_time) : es[2] \in Degenerate
         /\ published = {}
    /\ publisher = "ok" =>
         { <<e, osm[e][requested_time]>> : e \in published } = StateAt(requested_time)
=============================================================================
