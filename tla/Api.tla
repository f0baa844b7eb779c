-------------------------------- MODULE Api --------------------------------
(***************************************************************************)
(* The HTTP API: its handlers as they run in FastAPI's thread pool, the    *)
(* connection pool they share, and the statements they send, each of them  *)
(* a transaction of its own.  Who sends the requests, and who publishes    *)
(* what the statements read, is the module Session's part.                 *)
(***************************************************************************)
EXTENDS Integers, FiniteSets

CONSTANTS
    Requests,       \* the requests under way, one slot for each
    PoolSize,       \* max_size of a pool
    VALID_CLASSIFICATIONS,
    DEFAULT_SOURCE_QUERY_VERSION,
    None

VARIABLES
    \* the serving tables: rows [id, changeset_id, change], where a change is
    \* [classification, osm_ids_a, osm_ids_b]; of the snapshot rows, the pairs
    \* <<osm_id, source_query_version of the row's snapshot>>
    change_features, snapshot_features,
    _POOL, pools,   \* the module's global, and how many pools were opened
    out,            \* connections handed out, by pool
    request         \* [path, arg, at, pool, answer]

database == <<change_features, snapshot_features>>
pooling == <<_POOL, pools, out>>
api == <<pooling, request>>

Ids(change) == change.osm_ids_a \cup change.osm_ids_b

\* Every request may open one, and so may one tile.
PoolIds == 1..(Cardinality(Requests) + 1)

-----------------------------------------------------------------------------
(* _span_label, in whole days, as <<number, unit>>.  Neither 365.25 n nor  *)
(* 30.44 n has a half that is a whole number of days, so round() meets no  *)
(* tie, and 0.9 of a year (a month) lies between 328 and 329 days (27, 28).*)

Years(days) == (8 * days + 1461) \div 2922
Months(days) == (100 * days + 1522) \div 3044

_span_label(days) ==
    CASE days >= 329 -> <<Years(days), "year">>
      [] days < 329 /\ days >= 28 -> <<Months(days), "month">>
      [] OTHER -> <<IF days > 1 THEN days ELSE 1, "day">>

-----------------------------------------------------------------------------
(* The statements. *)

\* GET_CHANGE_FEATURE: the joins find their rows, which nobody deletes.
ChangeFeature(id) == { row \in change_features : row.id = id }

\* GET_FEATURE_CHANGE_PARTICIPATION looks at one side only.
FaultyParticipation(osm_id) ==
    { row.id : row \in { r \in change_features : osm_id \in r.change.osm_ids_b } }

\* Of all versions.
Participation(osm_id) ==
    { row.id : row \in { r \in change_features : osm_id \in Ids(r.change) } }

\* GET_FEATURE_HISTORY finds a row: the page never names another version.
HasHistory(osm_id) == <<osm_id, DEFAULT_SOURCE_QUERY_VERSION>> \in snapshot_features

ChangeTile(changeset_id, classifications) ==
    { row \in change_features :
        row.changeset_id = changeset_id /\ row.change.classification \in classifications }

\* To be kept for good.
Faulty_mvt_response(rows) == [rows |-> rows, max_age |-> None]

_mvt_response(rows) == [rows |-> rows, max_age |-> 300]

-----------------------------------------------------------------------------
(* A request is received, finds or opens the pool, waits for a connection, *)
(* executes its statement, and gives the connection back.                  *)

Idle == [path |-> None, arg |-> None, at |-> "idle", pool |-> None, answer |-> None]

Received(path, arg) == [Idle EXCEPT !.path = path, !.arg = arg, !.at = "received"]

ApiInit ==
    /\ _POOL = None /\ pools = 0
    /\ out = [p \in PoolIds |-> 0]
    /\ request = [r \in Requests |-> Idle]

At(r, where) == request[r].at = where

\* if _POOL is None
FindPool(r) ==
    /\ At(r, "received")
    /\ request' = [request EXCEPT
         ![r].at = IF _POOL = None THEN "opening" ELSE "waiting",
         ![r].pool = _POOL]
    /\ UNCHANGED <<database, pooling>>

\* Whoever saw None opens a pool, even if there is one by now.  The global is
\* read again for the return.
OpenPool(r) ==
    /\ At(r, "opening")
    /\ pools' = pools + 1
    /\ _POOL' = pools + 1
    /\ request' = [request EXCEPT ![r].at = "received"]
    /\ UNCHANGED <<database, out>>

Connect(r) ==
    /\ At(r, "waiting")
    /\ out[request[r].pool] < PoolSize
    /\ out' = [out EXCEPT ![request[r].pool] = @ + 1]
    /\ request' = [request EXCEPT ![r].at = "executing"]
    /\ UNCHANGED <<database, _POOL, pools>>

\* Gives the connection to the pool that is current now.
FaultyRelease(r) == out' = [out EXCEPT ![_POOL] = @ - 1]

Release(r) == out' = [out EXCEPT ![request[r].pool] = @ - 1]

Answered(r, status, body) ==
    request' = [request EXCEPT ![r] =
        [Idle EXCEPT !.at = "answered", !.answer = [status |-> status, body |-> body]]]

\* get_change_feature
GetChangeFeature(r) ==
    LET rows == ChangeFeature(request[r].arg)
    IN  /\ At(r, "executing") /\ request[r].path = "changes"
        /\ IF rows = {} THEN Answered(r, 404, None)
                        ELSE \E row \in rows : Answered(r, 200, row)
        /\ Release(r)
        /\ UNCHANGED <<database, _POOL, pools>>

\* get_feature_history, its first statement.
GetFeatureHistory(r) ==
    /\ At(r, "executing") /\ request[r].path = "history"
    /\ IF ~HasHistory(request[r].arg)
       THEN Answered(r, 404, None)
       ELSE request' = [request EXCEPT ![r] = Received("participation", request[r].arg)]
    /\ Release(r)
    /\ UNCHANGED <<database, _POOL, pools>>

\* Its second, on a connection of its own.
GetParticipation(r) ==
    /\ At(r, "executing") /\ request[r].path = "participation"
    /\ Answered(r, 200, [osm_id |-> request[r].arg,
                         changes |-> Participation(request[r].arg)])
    /\ Release(r)
    /\ UNCHANGED <<database, _POOL, pools>>

\* The pool's timeout, or an error of the statement: the handler raises, and
\* the context managers give back what it holds.
HandlerRaises(r) ==
    /\ At(r, "waiting") \/ At(r, "executing")
    /\ Answered(r, 500, None)
    /\ IF At(r, "executing") THEN Release(r) ELSE UNCHANGED out
    /\ UNCHANGED <<database, _POOL, pools>>

Handle(r) ==
    \/ FindPool(r) \/ OpenPool(r) \/ Connect(r)
    \/ GetChangeFeature(r) \/ GetFeatureHistory(r) \/ GetParticipation(r)

\* change_tile, in one step: the connection it needs is back when it ends.
GetPool ==
    IF _POOL = None THEN pools' = pools + 1 /\ _POOL' = pools + 1
                    ELSE UNCHANGED <<_POOL, pools>>

HasConnection == _POOL # None => out[_POOL] < PoolSize

GetTile == HasConnection /\ GetPool /\ UNCHANGED <<database, out, request>>

\* No connection in time, or an error of the statement.
TileRaises == GetPool /\ UNCHANGED <<database, out, request>>

-----------------------------------------------------------------------------
\* First requests may each open a pool.  Even then every connection goes
\* back to the pool it came from: what a pool has handed out is what handlers
\* hold of it, never more than its size, and nothing stays out.
PoolsAccounted ==
    \A p \in PoolIds :
        /\ out[p] = Cardinality({ r \in Requests :
                                    At(r, "executing") /\ request[r].pool = p })
        /\ out[p] <= PoolSize
=============================================================================
