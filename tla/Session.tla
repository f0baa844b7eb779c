------------------------------ MODULE Session ------------------------------
(***************************************************************************)
(* One page of the web application over the API, beside publish runs that  *)
(* replace the rows it reads.                                              *)
(*                                                                         *)
(* The page renders a tile for as long as its response is fresh; a click   *)
(* on a drawn change asks for its record and then for the history of its   *)
(* building (handleSelectChange).  An awaited answer is applied when it    *)
(* arrives, whatever was clicked or selected since.  Tile and details come *)
(* through the same pool, and either request can fail.                     *)
(***************************************************************************)
EXTENDS Api, Functions

CONSTANTS
    Changesets,         \* changeset id -> the days its interval spans
    LayerContents,      \* what a publish may write for a changeset: sets of changes
    SourceQueryVersions,
    MaxClicks, MaxSwitches, MaxPublishes, MaxFailures,
    MaxDisturbances     \* bounds, the last one of the three before it together

VARIABLES
    change_features_id_seq,
    selected,           \* the interval
    tile, response,     \* the state of the map's tile, and what it draws
    change, history, loading, error,    \* the detail panel
    clicked,            \* the row drawn where the last click was, until dismissed
    overtaken,          \* the page was used while an answer was due
    republished,        \* rows were replaced since the last click
    clicks, switches, publishes, failures

tables == <<database, change_features_id_seq>>
map == <<selected, tile, response>>
panel == <<change, history, loading, error>>
noted == <<clicked, overtaken, republished>>
counters == <<clicks, switches, publishes, failures>>
vars == <<tables, api, map, panel, noted, counters>>

ASSUME SessionAssumption ==
    /\ MaxClicks \in Nat /\ Requests = 1..MaxClicks
    /\ None \notin Nat
    /\ PoolSize \in Nat \ {0}
    /\ DOMAIN Changesets # {} /\ Changesets \in [DOMAIN Changesets -> Nat]
    /\ \A content \in LayerContents :
         /\ IsFiniteSet(content)
         /\ \A c \in content :
              c.classification \in VALID_CLASSIFICATIONS /\ Ids(c) # {}
    \* None stands for null: it is no row and no history.
    /\ None \notin [id : Nat, changeset_id : DOMAIN Changesets, change : UNION LayerContents]
    /\ None \notin [osm_id : UNION { Ids(c) : c \in UNION LayerContents }, changes : SUBSET Nat]

NoResponse == [rows |-> {}, max_age |-> None]
rendered == response.rows

\* Bounds what happens beside the clicks.
Disturb == switches + publishes + failures < MaxDisturbances

Buildings == UNION { Ids(c) : c \in UNION LayerContents }

-----------------------------------------------------------------------------
\* LIST_CHANGESETS: ORDER BY the length of the interval.
First(ids) == CHOOSE c \in ids : \A d \in ids : Changesets[c] <= Changesets[d]

DefaultChangeset ==
    LET fiveYears == { c \in DOMAIN Changesets :
                         _span_label(Changesets[c]) = <<5, "year">> }
    IN  First(IF fiveYears # {} THEN fiveYears ELSE DOMAIN Changesets)

\* change_tile, with every classification switched on.
Tile(changeset_id) == ChangeTile(changeset_id, VALID_CLASSIFICATIONS)

-----------------------------------------------------------------------------
Rows(changeset_id, content, ids) ==
    { [id |-> ids[c], changeset_id |-> changeset_id, change |-> c] : c \in content }

\* The ids start again, as after TRUNCATE ... RESTART IDENTITY.
FaultyNumberings(content, last) == Bijection(content, 1..Cardinality(content))

\* BIGSERIAL numbers the new rows, in the order of the file.
Numberings(content, last) ==
    Bijection(content, (last + 1)..(last + Cardinality(content)))

\* The page has been loaded and its tile drawn, the API process has just been
\* started again.  One changeset is published, over snapshots of one version.
Init ==
    /\ ApiInit
    /\ \E content \in LayerContents : \E ids \in Numberings(content, 0) :
         /\ change_features = Rows(DefaultChangeset, content, ids)
         /\ change_features_id_seq = Cardinality(content)
    /\ \E version \in SourceQueryVersions : snapshot_features = Buildings \X {version}
    /\ selected = DefaultChangeset
    /\ tile = "loaded" /\ response = _mvt_response(Tile(selected))
    /\ change = None /\ history = None /\ loading = FALSE /\ error = FALSE
    /\ clicked = None /\ overtaken = FALSE /\ republished = FALSE
    /\ clicks = 0 /\ switches = 0 /\ publishes = 0 /\ failures = 0

\* publish_change_features: every row of the changeset is replaced.
PublishChangeset(changeset_id, content) ==
    /\ Disturb /\ publishes < MaxPublishes /\ publishes' = publishes + 1
    /\ \E ids \in Numberings(content, change_features_id_seq) :
         change_features' =
             { row \in change_features : row.changeset_id # changeset_id }
                 \cup Rows(changeset_id, content, ids)
    /\ change_features_id_seq' = change_features_id_seq + Cardinality(content)
    /\ republished' = TRUE
    /\ UNCHANGED <<snapshot_features, api, map, panel, clicked, overtaken, clicks, switches, failures>>

\* publish_snapshot_features, of a snapshot of this version that has a building
\* no other had, or lacks one that no other has.
PublishSnapshot(osm_id, version) ==
    /\ Disturb /\ publishes < MaxPublishes /\ publishes' = publishes + 1
    /\ snapshot_features' = IF <<osm_id, version>> \in snapshot_features
                            THEN snapshot_features \ {<<osm_id, version>>}
                            ELSE snapshot_features \cup {<<osm_id, version>>}
    /\ UNCHANGED <<change_features, change_features_id_seq, api, map, panel,
                   noted, clicks, switches, failures>>

-----------------------------------------------------------------------------
(* The map.  Its tile is the library's business: it asks the API for it, and  *)
(* again when the response expires.  A tile whose request failed has nothing  *)
(* to draw, and is not asked for again until the source has another URL.      *)

ShowTile ==
    /\ tile = "wanted" /\ GetTile
    /\ tile' = "loaded" /\ response' = _mvt_response(Tile(selected))
    /\ UNCHANGED <<change_features_id_seq, selected, panel, noted, counters>>

TileFails ==
    /\ tile = "wanted" /\ TileRaises
    /\ Disturb /\ failures < MaxFailures /\ failures' = failures + 1
    /\ tile' = "errored" /\ response' = NoResponse
    /\ UNCHANGED <<change_features_id_seq, selected, panel, noted, clicks, switches, publishes>>

Expire ==
    /\ tile = "loaded" /\ response.max_age # None
    /\ tile' = "wanted"
    /\ UNCHANGED <<tables, api, selected, response, panel, noted, counters>>

-----------------------------------------------------------------------------
(* The page. *)

InFlight == \E r \in Requests : ~At(r, "idle")

\* setSelectedChangesetId, the effect that clears the selection, and setTiles.
SelectInterval(changesetId) ==
    /\ Disturb /\ switches < MaxSwitches /\ switches' = switches + 1
    /\ changesetId # selected
    /\ selected' = changesetId /\ tile' = "wanted"
    /\ change' = None /\ history' = None
    /\ clicked' = None
    /\ overtaken' = (overtaken \/ InFlight)
    /\ UNCHANGED <<tables, api, response, loading, error,
                   republished, clicks, publishes, failures>>

\* A click on a drawn change: handleSelectChange until its first await.
Click(row) ==
    /\ clicks < MaxClicks /\ clicks' = clicks + 1
    /\ loading' = TRUE /\ error' = FALSE /\ history' = None
    /\ request' = [request EXCEPT ![clicks + 1] = Received("changes", row.id)]
    /\ clicked' = row
    /\ overtaken' = InFlight
    /\ republished' = FALSE
    /\ UNCHANGED <<tables, pooling, map, change, switches, publishes, failures>>

\* "A multi-candidate ambiguous group has no single subject."
HasSubject(c) == Cardinality(c.osm_ids_a) <= 1 /\ Cardinality(c.osm_ids_b) <= 1
Subject(c) == CHOOSE id \in IF c.osm_ids_b # {} THEN c.osm_ids_b ELSE c.osm_ids_a : TRUE

Status(r) == request[r].answer.status
Body(r) == request[r].answer.body

Deliver(r) ==
    /\ At(r, "answered")
    /\ UNCHANGED <<tables, pooling, map, noted, counters>>

ShowChange(r) ==
    /\ Deliver(r) /\ Status(r) = 200 /\ "change" \in DOMAIN Body(r)
    /\ change' = Body(r)
    /\ IF HasSubject(Body(r).change)
       THEN /\ request' = [request EXCEPT
                  ![r] = Received("history", Subject(Body(r).change))]
            /\ UNCHANGED loading
       ELSE request' = [request EXCEPT ![r] = Idle] /\ loading' = FALSE
    /\ UNCHANGED <<history, error>>

ShowHistory(r) ==
    /\ Deliver(r) /\ Status(r) = 200 /\ "changes" \in DOMAIN Body(r)
    /\ history' = Body(r)
    /\ loading' = FALSE
    /\ request' = [request EXCEPT ![r] = Idle]
    /\ UNCHANGED <<change, error>>

\* The reset of loading is the last line of the try.
FaultyShowError(r) ==
    /\ Deliver(r) /\ Status(r) # 200
    /\ error' = TRUE /\ change' = None
    /\ request' = [request EXCEPT ![r] = Idle]
    /\ UNCHANGED <<history, loading>>

ShowError(r) ==
    /\ Deliver(r) /\ Status(r) # 200
    /\ error' = TRUE /\ change' = None /\ loading' = FALSE
    /\ request' = [request EXCEPT ![r] = Idle]
    /\ UNCHANGED history

Fails(r) ==
    /\ Disturb /\ failures < MaxFailures /\ failures' = failures + 1
    /\ HandlerRaises(r)
    /\ UNCHANGED <<change_features_id_seq, map, panel, noted, clicks, switches, publishes>>

Serve(r) ==
    \/ Handle(r) /\ UNCHANGED <<change_features_id_seq, map, panel, noted, counters>>
    \/ ShowChange(r) \/ ShowHistory(r) \/ ShowError(r)

Next ==
    \/ \E c \in DOMAIN Changesets :
         SelectInterval(c) \/ \E content \in LayerContents : PublishChangeset(c, content)
    \/ \E osm_id \in Buildings, version \in SourceQueryVersions : PublishSnapshot(osm_id, version)
    \/ ShowTile \/ TileFails \/ Expire
    \/ \E row \in rendered : Click(row)
    \/ \E r \in Requests : Serve(r) \/ Fails(r)

\* Threads, the event loop and the browser's timers all run on; nobody has to
\* click or publish, and nothing has to fail.
Fairness ==
    /\ \A r \in Requests : WF_vars(Serve(r))
    /\ WF_vars(ShowTile \/ Expire)

Spec == Init /\ [][Next]_vars /\ Fairness

-----------------------------------------------------------------------------
TypeOK ==
    /\ \A row \in change_features :
         /\ row.id \in 1..change_features_id_seq /\ row.changeset_id \in DOMAIN Changesets
         /\ \E content \in LayerContents : row.change \in content
         /\ \A other \in change_features : row.id = other.id => row = other
    /\ _POOL \in (1..pools) \cup {None} /\ pools \in 0..(MaxClicks + 1)
    /\ \A r \in Requests :
         /\ request[r].at \in {"idle", "received", "opening", "waiting",
                               "executing", "answered"}
         /\ request[r].at \in {"waiting", "executing"} => request[r].pool \in 1..pools
    /\ selected \in DOMAIN Changesets
    /\ tile \in {"wanted", "loaded", "errored"}
    /\ loading \in BOOLEAN /\ error \in BOOLEAN
    /\ overtaken \in BOOLEAN /\ republished \in BOOLEAN

\* What the panel says is about the record that was drawn where the user
\* clicked, stale tile or not, with the history of its building, which lists
\* that very change unless rows were replaced since the click.  An error means
\* that something was published or failed, or that no snapshot of the default
\* version has the building (or is left over from before a switch); it discards
\* the record.  A page that was used while an answer was due is excepted: see
\* SelectionCleared.
DetailFollowsClick ==
    ~loading /\ ~overtaken =>
        \/ /\ error /\ change = None /\ history = None
           /\ \/ clicked = None \/ publishes + failures > 0
              \/ HasSubject(clicked.change) /\ ~HasHistory(Subject(clicked.change))
        \/ /\ ~error /\ change = clicked
           /\ IF clicked = None THEN history = None
              ELSE IF ~HasSubject(clicked.change) THEN history = None
              ELSE /\ history # None
                   /\ history.osm_id = Subject(clicked.change)
                   /\ ~republished => clicked.id \in history.changes

\* The spinner of a click goes away: its answers arrive, or its error does.
EveryClickSettles == loading ~> ~loading

\* Once nothing is published, selected or switched any more, the map comes to
\* show the rows that are there now, so that every click finds its record;
\* unless the last request for its tile failed, which leaves the map without
\* its changes until another interval is selected.
TilesConverge ==
    <>[](tile # "errored" => rendered = Tile(selected))

\* "Clear the selection when switching interval": the panel shows no record from
\* the switch until the next click.  What the code does is otherwise: the answer
\* that was awaited when the interval was switched is shown when it arrives.
SelectionCleared == clicked = None => change = None
=============================================================================
