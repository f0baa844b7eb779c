--------------------------- MODULE IngestionProofs ---------------------------
(***************************************************************************)
(* Safety of the ingestion and of its two consumers, for any elements, any *)
(* histories, and any shapes and repairs.                                  *)
(*                                                                         *)
(* What the snapshot must hold is a function of the history, so the loop   *)
(* is related to the elements themselves: Covered says which of them the   *)
(* loop has been through, and Accounted that the features written and the  *)
(* three counts are those of exactly these elements.                       *)
(***************************************************************************)
EXTENDS Ingestion, FiniteSetTheorems, TLAPS

\* What is mapped of an element at the instant.
ShapeNow(e) == osm[e][requested_time]

\* The elements that are a building at the instant.
Present == { e \in Elements : ShapeNow(e) # Absent }

\* The version the selection keeps of an element, and the feature made of it.
Chosen(e) == [osm_id |-> e, validFrom |-> requested_time, shape |-> ShapeNow(e)]
FeatureOf(e) == normalize_feature(Chosen(e))

Covered == IF pc \in {"fetch", "raised"} THEN {} ELSE { e \in Present : Chosen(e) \notin todo }

IsInvalid(e) == ShapeNow(e) \in InvalidShapes

Accounted ==
    /\ pc \notin {"fetch", "raised"} => todo \subseteq { Chosen(e) : e \in Present }
    /\ pc \in {"fetch", "stored"} => todo = {}
    /\ processed = { FeatureOf(e) : e \in Covered }
    /\ counts = [feature |-> Cardinality(Covered),
                 invalid |-> Cardinality({ e \in Covered : IsInvalid(e) }),
                 repaired |-> Cardinality({ e \in Covered : IsInvalid(e) })]

\* The consumers start from a stored snapshot, and stop at a feature that
\* cannot be published.
Consumed ==
    /\ loader # "raised"
    /\ loaded \subseteq processed /\ staged \subseteq processed
    /\ publisher # "waiting" => pc = "stored"
    /\ publisher # "ok" => published = {}
    /\ publisher = "raised" => \E f \in processed : ~IsPolygonal(f.geometry)
    /\ publisher = "ok" => published = { f.osm_id : f \in processed }

IInv == TypeOK /\ Accounted /\ Consumed

-----------------------------------------------------------------------------
(* Validation and repair. *)

\* A valid shape is handed on as it is and recorded as "None"; an invalid one is
\* recorded under one of the two methods, and comes out polygonal unless its
\* repair leaves no polygon at all.
LEMMA RepairResult ==
    ASSUME NEW s \in Shapes
    PROVE  /\ validate_and_repair(s).repair_method = "None" <=> s \in ValidShapes
           /\ s \in ValidShapes => validate_and_repair(s).geometry = Original(s)
           /\ validate_and_repair(s).geometry \in Geometry
           /\ validate_and_repair(s).repair_method
                \in {"None", "make_valid", "make_valid+extract_polygons"}
           /\ ~IsPolygonal(validate_and_repair(s).geometry) => s \in Degenerate
<1> USE IngestionAssumption DEF Validated
<1>1. /\ Original(s) \in Geometry /\ IsPolygonal(Original(s))
    BY DEF Original, Geometry, IsPolygonal, POLYGONAL_TYPES
<1>2. CASE s \in ValidShapes
    BY <1>1, <1>2 DEF validate_and_repair
<1>3. CASE s \notin ValidShapes
    <2> DEFINE g == MakeValid(s)
               cut == [g EXCEPT !.parts = _extract_polygonal(g)]
    <2>1. s \in InvalidShapes
        BY <1>3 DEF Shapes
    <2>2. g \in Geometry /\ g.parts = Repaired[s] /\ g.parts # {}
        BY <2>1 DEF MakeValid, Geometry, Shapes
    <2>3. _extract_polygonal(g) \in SUBSET POLYGONAL_TYPES
        BY DEF _extract_polygonal, IsPolygonal, POLYGONAL_TYPES
    <2>4. cut \in Geometry /\ cut.parts = _extract_polygonal(g)
        BY <2>2, <2>3 DEF Geometry
    <2>5. IsPolygonal(g) => _extract_polygonal(g) = g.parts
        BY DEF _extract_polygonal
    <2>6. ~IsPolygonal(g) /\ g.parts \cap POLYGONAL_TYPES # {} => IsPolygonal(cut)
        BY <2>4 DEF _extract_polygonal, IsPolygonal, POLYGONAL_TYPES
    <2>7. ~IsPolygonal(g) /\ g.parts \cap POLYGONAL_TYPES # {}
            => _extract_polygonal(g) # {} /\ _extract_polygonal(g) # g.parts
        BY DEF _extract_polygonal, IsPolygonal, POLYGONAL_TYPES
    <2>8. g.parts \cap POLYGONAL_TYPES = {} => s \in Degenerate
        BY <2>1, <2>2 DEF Degenerate
    <2>9. validate_and_repair(s) =
            IF _extract_polygonal(g) \in {{}, g.parts}
            THEN Validated(g, "make_valid")
            ELSE Validated(cut, "make_valid+extract_polygons")
        BY <1>3 DEF validate_and_repair
    <2> HIDE DEF g, cut
    <2> QED BY <1>3, <2>2, <2>4, <2>5, <2>6, <2>7, <2>8, <2>9
<1> QED BY <1>2, <1>3

\* The feature of an element present at the instant.
LEMMA FeatureShape ==
    ASSUME TypeOK, NEW e \in Present
    PROVE  /\ Chosen(e) \in RawFeature /\ FeatureOf(e) \in Feature
           /\ FeatureOf(e).osm_id = e
           /\ FeatureOf(e).original_geometry.shape = ShapeNow(e)
           /\ FeatureOf(e).original_valid <=> ~IsInvalid(e)
           /\ FeatureOf(e).repair_method = "None" <=> ~IsInvalid(e)
           /\ FeatureOf(e).geometry # FeatureOf(e).original_geometry
                => FeatureOf(e).repair_method # "None"
           /\ ~IsPolygonal(FeatureOf(e).geometry) => ShapeNow(e) \in Degenerate
           /\ ShapeNow(e) \in Shapes
<1> DEFINE s == ShapeNow(e)
<1>1. s \in Shapes
    BY IngestionAssumption DEF TypeOK, Present, ShapeNow, Times
<1>2. s \in InvalidShapes <=> s \notin ValidShapes
    BY <1>1, IngestionAssumption DEF Shapes
<1>3. Original(s) \in Geometry /\ Original(s).shape = s
    BY <1>1 DEF Original, Geometry, POLYGONAL_TYPES
<1>4. requested_time \in Times
    BY IngestionAssumption DEF Times
<1>5. e \in Elements
    BY DEF Present
<1>6. FeatureOf(e) =
        [osm_id |-> e, geometry |-> validate_and_repair(s).geometry,
         original_geometry |-> Original(s), original_valid |-> s \in ValidShapes,
         repair_method |-> validate_and_repair(s).repair_method]
    BY DEF FeatureOf, normalize_feature, Chosen
<1>7. Chosen(e) = [osm_id |-> e, validFrom |-> requested_time, shape |-> s]
    BY DEF Chosen
<1>8. Chosen(e) \in RawFeature
    BY <1>1, <1>4, <1>5, <1>7 DEF RawFeature
<1>9. IsInvalid(e) <=> s \notin ValidShapes
    BY <1>2 DEF IsInvalid
<1> HIDE DEF s
<1>10. FeatureOf(e) \in Feature
    BY <1>1, <1>3, <1>5, <1>6, RepairResult DEF Feature
<1>11. /\ FeatureOf(e).osm_id = e
       /\ FeatureOf(e).original_geometry.shape = s
       /\ FeatureOf(e).original_valid = (s \in ValidShapes)
       /\ FeatureOf(e).repair_method = validate_and_repair(s).repair_method
       /\ ~IsPolygonal(FeatureOf(e).geometry) => s \in Degenerate
    BY <1>1, <1>3, <1>6, RepairResult
<1>13. FeatureOf(e).repair_method = "None" <=> s \in ValidShapes
    BY <1>1, <1>11, RepairResult
<1>12. FeatureOf(e).geometry # FeatureOf(e).original_geometry
         => FeatureOf(e).repair_method # "None"
    BY <1>1, <1>6, RepairResult
<1> QED BY <1>1, <1>8, <1>9, <1>10, <1>11, <1>12, <1>13 DEF s

-----------------------------------------------------------------------------
(* The response and the selection. *)

\* Of a response that holds every version touching the range, the selection
\* keeps one version of each element present at the instant, and nothing else.
LEMMA SelectionIsPresent ==
    _select_features_valid_at(Response) = { Chosen(e) : e \in Present }
<1> DEFINE V == { et \in Elements \X (requested_time..(requested_time + RANGE_WIDTH)) :
                    /\ osm[et[1]][et[2]] # Absent
                    /\ \/ et[2] = requested_time
                       \/ osm[et[1]][et[2]] # osm[et[1]][et[2] - 1] }
           F(v) == [osm_id |-> v[1], validFrom |-> v[2], shape |-> osm[v[1]][v[2]]]
<1>1. Response = { F(v) : v \in V }
    BY DEF Response
<1>2. \A v \in V : F(v).validFrom = requested_time
                     => v[1] \in Present /\ F(v) = Chosen(v[1])
    BY DEF Present, Chosen, ShapeNow
<1>3. \A e \in Present : <<e, requested_time>> \in V /\ F(<<e, requested_time>>) = Chosen(e)
    BY IngestionAssumption DEF Present, Chosen, ShapeNow
<1>4. \A e : Chosen(e).validFrom = requested_time
    BY DEF Chosen
<1> HIDE DEF V, F
<1>5. { f \in Response : f.validFrom = requested_time }
         \subseteq { Chosen(e) : e \in Present }
    BY <1>1, <1>2
<1>6. { Chosen(e) : e \in Present }
         \subseteq { f \in Response : f.validFrom = requested_time }
    BY <1>1, <1>3, <1>4
<1> QED BY <1>5, <1>6 DEF _select_features_valid_at

LEMMA ResponseType == ASSUME TypeOK PROVE Response \subseteq RawFeature
BY IngestionAssumption DEF TypeOK, Response, RawFeature, Times

LEMMA CoveredFinite ==
    /\ IsFiniteSet(Covered) /\ Covered \subseteq Elements
    /\ IsFiniteSet({ e \in Covered : IsInvalid(e) })
<1>1. Covered \subseteq Elements /\ { e \in Covered : IsInvalid(e) } \subseteq Elements
    BY DEF Covered, Present
<1> QED BY <1>1, IngestionAssumption, FS_Subset

\* Elements are told apart by their id, whatever was mapped of them.
LEMMA AsMany ==
    ASSUME NEW S \in SUBSET Elements
    PROVE  /\ IsFiniteSet(S)
           /\ Cardinality({ <<e, ShapeNow(e)>> : e \in S }) = Cardinality(S)
<1> DEFINE T == { <<e, ShapeNow(e)>> : e \in S }
           f == [e \in S |-> <<e, ShapeNow(e)>>]
<1>1. IsFiniteSet(S)
    BY IngestionAssumption, FS_Subset
<1>2. f \in Bijection(S, T)
    BY DEF Bijection, Injection, Surjection, IsInjective
<1>3. ExistsBijection(S, T)
    BY <1>2 DEF ExistsBijection
<1> QED BY <1>1, <1>3, FS_Bijection

-----------------------------------------------------------------------------
(* The steps. *)

LEMMA InitInv == Init => IInv
<1> SUFFICES ASSUME Init PROVE IInv
    OBVIOUS
<1>1. Covered = {} /\ { e \in Covered : IsInvalid(e) } = {}
    BY DEF Init, Covered
<1>2. Accounted
    BY <1>1, FS_EmptySet DEF Init, Accounted
<1> QED BY <1>2 DEF Init, IInv, TypeOK, Consumed

\* What is computed from the history alone stays as it was.
LEMMA SameHistory ==
    ASSUME osm' = osm
    PROVE  /\ Present' = Present
           /\ \A e : /\ Chosen(e)' = Chosen(e) /\ FeatureOf(e)' = FeatureOf(e)
                     /\ IsInvalid(e)' = IsInvalid(e)
BY DEF Present, Chosen, FeatureOf, IsInvalid, ShapeNow

LEMMA FetchInv == ASSUME IInv, Fetch PROVE IInv'
<1>1. TypeOK'
    BY ResponseType DEF IInv, TypeOK, Fetch, _select_features_valid_at
<1>2. todo' = { Chosen(e) : e \in Present }
    BY SelectionIsPresent DEF Fetch
<1>3. Covered = {} /\ Covered' = {}
    BY <1>2, SameHistory DEF Fetch, Covered
<1>4. Accounted'
    BY <1>2, <1>3, SameHistory DEF IInv, Accounted, Fetch
<1>5. Consumed'
    BY DEF IInv, Consumed, Fetch
<1> QED BY <1>1, <1>4, <1>5 DEF IInv

LEMMA FetchFailsInv == ASSUME IInv, FetchFails PROVE IInv'
<1>1. TypeOK' /\ Consumed'
    BY DEF IInv, TypeOK, Consumed, FetchFails
<1>2. Covered = {} /\ Covered' = {}
    BY DEF FetchFails, Covered
<1>3. Accounted'
    BY <1>2, SameHistory DEF IInv, Accounted, FetchFails
<1> QED BY <1>1, <1>3 DEF IInv

\* One turn of the loop covers one more element.
LEMMA NormalizeInv ==
    ASSUME IInv, NEW f \in todo, Normalize(f)
    PROVE  IInv'
<1>1. PICK e \in Present : f = Chosen(e)
    BY DEF IInv, Accounted, Normalize
<1>2. \A d : Chosen(d) = Chosen(e) => d = e
    BY DEF Chosen
<1>3. Covered' = Covered \cup {e} /\ e \notin Covered
    BY <1>1, <1>2, SameHistory DEF Normalize, Covered
<1>4. normalize_feature(f) = FeatureOf(e)
    BY <1>1 DEF FeatureOf
<1>5. processed' = { FeatureOf(d) : d \in Covered' }
    BY <1>3, <1>4 DEF IInv, Accounted, Normalize
<1>6. /\ IsFiniteSet(Covered) /\ IsFiniteSet({ d \in Covered : IsInvalid(d) })
      /\ Cardinality(Covered) \in Nat
      /\ Cardinality({ d \in Covered : IsInvalid(d) }) \in Nat
    BY CoveredFinite, FS_CardinalityType
<1>7. Cardinality(Covered') = Cardinality(Covered) + 1
    BY <1>3, <1>6, FS_AddElement
<1>8. Cardinality({ d \in Covered' : IsInvalid(d) })
        = Cardinality({ d \in Covered : IsInvalid(d) }) + IF IsInvalid(e) THEN 1 ELSE 0
    <2>1. CASE IsInvalid(e)
        <3>1. { d \in Covered' : IsInvalid(d) } = { d \in Covered : IsInvalid(d) } \cup {e}
            BY <1>3, <2>1
        <3> QED BY <1>3, <1>6, <2>1, <3>1, FS_AddElement
    <2>2. CASE ~IsInvalid(e)
        <3>1. { d \in Covered' : IsInvalid(d) } = { d \in Covered : IsInvalid(d) }
            BY <1>3, <2>2
        <3> QED BY <1>6, <2>2, <3>1
    <2> QED BY <2>1, <2>2
<1>9. /\ FeatureOf(e).original_valid <=> ~IsInvalid(e)
      /\ FeatureOf(e).repair_method = "None" <=> ~IsInvalid(e)
      /\ FeatureOf(e) \in Feature
    BY FeatureShape DEF IInv
<1>10. counts' = [feature |-> counts.feature + 1,
                  invalid |-> counts.invalid + IF IsInvalid(e) THEN 1 ELSE 0,
                  repaired |-> counts.repaired + IF IsInvalid(e) THEN 1 ELSE 0]
    BY <1>4, <1>9 DEF Normalize
<1>11. counts' = [feature |-> Cardinality(Covered'),
                  invalid |-> Cardinality({ d \in Covered' : IsInvalid(d) }),
                  repaired |-> Cardinality({ d \in Covered' : IsInvalid(d) })]
    BY <1>7, <1>8, <1>10 DEF IInv, Accounted
<1>12. /\ todo' \subseteq { Chosen(d) : d \in Present } /\ pc' = "normalize"
    BY DEF IInv, Accounted, Normalize
<1>13. Accounted'
    BY <1>5, <1>11, <1>12, SameHistory DEF Accounted, Normalize
<1>14. TypeOK'
    BY <1>4, <1>9, <1>10 DEF IInv, TypeOK, Normalize
<1>15. Consumed'
    BY DEF IInv, Consumed, Normalize
<1> QED BY <1>13, <1>14, <1>15 DEF IInv

LEMMA StoreInv == ASSUME IInv, Store PROVE IInv'
<1>1. TypeOK' /\ Consumed'
    BY DEF IInv, TypeOK, Consumed, Store
<1>2. Covered' = Covered
    BY SameHistory DEF Store, Covered
<1>3. Accounted'
    BY <1>2, SameHistory DEF IInv, Accounted, Store
<1> QED BY <1>1, <1>3 DEF IInv

\* The consumers leave the snapshot alone.
LEMMA SameSnapshot ==
    ASSUME IInv, UNCHANGED <<osm, ingestion>>
    PROVE  Accounted'
<1>1. Covered' = Covered
    BY SameHistory DEF ingestion, Covered
<1> QED BY <1>1, SameHistory DEF IInv, Accounted, ingestion

\* Two features of a snapshot are of two elements.
LEMMA IdsUnique ==
    ASSUME IInv
    PROVE  /\ \A f, g \in processed : f.osm_id = g.osm_id => f = g
           /\ \A f \in processed : f.osm_id \in Elements
<1>1. \A f \in processed : \E e \in Present : f = FeatureOf(e) /\ f.osm_id = e
    BY FeatureShape DEF IInv, Accounted, Covered
<1> QED BY <1>1 DEF Present

LEMMA LoadInv ==
    ASSUME IInv, (\E f \in processed : LoadFeature(f)) \/ LoadDone
    PROVE  IInv'
<1>1. Accounted'
    BY SameSnapshot DEF LoadFeature, LoadDone
<1>2. loader' # "raised" /\ loader' \in {"waiting", "ok"} /\ loaded' \subseteq processed
    <2>1. ASSUME NEW f \in processed, LoadFeature(f)
          PROVE  f.osm_id \notin { g.osm_id : g \in loaded }
        BY <2>1, IdsUnique DEF IInv, Consumed, LoadFeature
    <2> QED BY <2>1 DEF IInv, TypeOK, Consumed, LoadFeature, LoadDone
<1>3. TypeOK' /\ Consumed'
    BY <1>2 DEF IInv, TypeOK, Consumed, LoadFeature, LoadDone, ingestion
<1> QED BY <1>1, <1>3 DEF IInv

LEMMA StageRowInv ==
    ASSUME IInv, NEW f \in processed, StageRow(f)
    PROVE  IInv'
<1>1. Accounted'
    BY SameSnapshot DEF StageRow
<1>2. TypeOK' /\ Consumed'
    BY DEF IInv, TypeOK, Consumed, StageRow, ingestion
<1> QED BY <1>1, <1>2 DEF IInv

LEMMA InsertRowsInv == ASSUME IInv, InsertRows PROVE IInv'
<1>1. Accounted'
    BY SameSnapshot DEF InsertRows
<1>2. publisher' = "ok" /\ published' = { f.osm_id : f \in processed }
    BY IdsUnique DEF InsertRows
<1>3. TypeOK' /\ Consumed'
    BY <1>2, IdsUnique DEF IInv, TypeOK, Consumed, InsertRows, ingestion
<1> QED BY <1>1, <1>3 DEF IInv

LEMMA StutterInv == ASSUME IInv, UNCHANGED vars PROVE IInv'
<1>1. Accounted'
    BY SameSnapshot DEF vars
<1> QED BY <1>1 DEF vars, ingestion, IInv, TypeOK, Consumed

LEMMA Invariance == Spec => []IInv
<1>1. IInv /\ [Next]_vars => IInv'
    BY FetchInv, FetchFailsInv, NormalizeInv, StoreInv, LoadInv, StageRowInv,
       InsertRowsInv, StutterInv DEF Next
<1> QED BY <1>1, InitInv, PTL DEF Spec

-----------------------------------------------------------------------------
(* What a stored snapshot holds. *)

LEMMA StoredCovers ==
    ASSUME IInv, pc = "stored"
    PROVE  /\ Covered = Present
           /\ StateAt(requested_time) = { <<e, ShapeNow(e)>> : e \in Present }
BY DEF IInv, Accounted, Covered, StateAt, Present, ShapeNow

LEMMA HoldsState == IInv => SnapshotIsStateAtInstant
<1> SUFFICES ASSUME IInv, pc = "stored"
             PROVE  { <<f.osm_id, f.original_geometry.shape>> : f \in processed }
                      = StateAt(requested_time)
    BY DEF SnapshotIsStateAtInstant
<1>1. processed = { FeatureOf(e) : e \in Present }
    BY StoredCovers DEF IInv, Accounted
<1>2. \A e \in Present : /\ FeatureOf(e).osm_id = e
                         /\ FeatureOf(e).original_geometry.shape = ShapeNow(e)
    BY FeatureShape DEF IInv
<1> QED BY <1>1, <1>2, StoredCovers

LEMMA CountsRepairs == IInv => RepairRecorded
<1> SUFFICES ASSUME IInv, pc = "stored"
             PROVE  /\ \A f \in processed :
                         f.geometry # f.original_geometry => f.repair_method # "None"
                    /\ counts.feature = Cardinality(StateAt(requested_time))
                    /\ counts.invalid = counts.repaired
                    /\ counts.invalid = Cardinality({ es \in StateAt(requested_time) :
                                                        es[2] \in InvalidShapes })
    BY DEF RepairRecorded
<1> DEFINE Q == { e \in Present : IsInvalid(e) }
<1>1. \A f \in processed : f.geometry # f.original_geometry => f.repair_method # "None"
    BY FeatureShape, StoredCovers DEF IInv, Accounted
<1>2. /\ counts.feature = Cardinality(Present)
      /\ counts.invalid = Cardinality(Q) /\ counts.repaired = Cardinality(Q)
    BY StoredCovers DEF IInv, Accounted
<1>3. Present \in SUBSET Elements /\ Q \in SUBSET Elements
    BY DEF Present
<1>4. { es \in StateAt(requested_time) : es[2] \in InvalidShapes }
        = { <<e, ShapeNow(e)>> : e \in Q }
    BY StoredCovers DEF IsInvalid
<1> HIDE DEF Q
<1>5. /\ Cardinality({ <<e, ShapeNow(e)>> : e \in Present }) = Cardinality(Present)
      /\ Cardinality({ <<e, ShapeNow(e)>> : e \in Q }) = Cardinality(Q)
    BY <1>3, AsMany
<1> QED BY <1>1, <1>2, <1>4, <1>5, StoredCovers

LEMMA Usable == IInv => UsableUnlessDegenerate
<1> SUFFICES ASSUME IInv PROVE UsableUnlessDegenerate
    OBVIOUS
<1>1. ASSUME publisher # "waiting"
      PROVE  /\ StateAt(requested_time) = { <<e, ShapeNow(e)>> : e \in Present }
             /\ processed = { FeatureOf(e) : e \in Present }
    BY <1>1, StoredCovers DEF IInv, Accounted, Consumed
<1>2. ASSUME publisher = "raised"
      PROVE  \E es \in StateAt(requested_time) : es[2] \in Degenerate
    <2>1. PICK e \in Present : ~IsPolygonal(FeatureOf(e).geometry)
        BY <1>1, <1>2 DEF IInv, Consumed
    <2>2. ShapeNow(e) \in Degenerate
        BY <2>1, FeatureShape DEF IInv
    <2>3. <<e, ShapeNow(e)>> \in StateAt(requested_time)
        BY <1>1, <1>2
    <2> QED BY <2>2, <2>3
<1>3. ASSUME publisher = "ok"
      PROVE  { <<e, osm[e][requested_time]>> : e \in published } = StateAt(requested_time)
    <2>1. published = { FeatureOf(e).osm_id : e \in Present }
        BY <1>1, <1>3 DEF IInv, Consumed
    <2>2. published = Present
        BY <2>1, FeatureShape DEF IInv
    <2> QED BY <1>1, <1>3, <2>2 DEF ShapeNow
<1> QED BY <1>2, <1>3 DEF IInv, Consumed, UsableUnlessDegenerate

-----------------------------------------------------------------------------
\* The loop, its counts and its two consumers have the states the code gives
\* them, at every step.
THEOREM TypeCorrect == Spec => []TypeOK
<1>1. IInv => TypeOK
    BY DEF IInv
<1> QED BY <1>1, Invariance, PTL

\* SnapshotIsStateAtInstant: what extract_features stores is the state of the
\* region at the instant: each building of it once, as it was mapped, no other.
THEOREM SnapshotHolds == Spec => []SnapshotIsStateAtInstant
BY Invariance, HoldsState, PTL

\* RepairRecorded: no geometry is changed without its method, and the counts of
\* the row are those of the buildings of the instant.
THEOREM RepairsAreRecorded == Spec => []RepairRecorded
BY Invariance, CountsRepairs, PTL

\* UsableUnlessDegenerate: every stored snapshot can be loaded by a build, and is
\* published whole, or raises, publishing nothing, for a degenerate building.
THEOREM SnapshotsAreUsable == Spec => []UsableUnlessDegenerate
BY Invariance, Usable, PTL
=============================================================================
