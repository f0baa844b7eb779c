------------------------------ MODULE Pipeline ------------------------------
(***************************************************************************)
(* The three DAGs (ingest, build, publish) as concurrent task attempts     *)
(* over the object store, the metadata tables and the serving tables.      *)
(*                                                                         *)
(* A DAG run is triggered by hand with its parameters; runs may overlap,   *)
(* and the mapped tasks of one run execute in parallel.  An attempt may    *)
(* die between any two of its steps; Airflow then starts the task over     *)
(* until its retries are used up.  A step is one call that another task    *)
(* can observe: one object put, one object read, one committed statement.  *)
(*                                                                         *)
(* Data.  The content of an object is told by the source_query_version     *)
(* that produced it: Extract[v, t] is what version v extracts at instant t,*)
(* a set of <<osm_id, shape>> pairs.  A row's id is its natural key, as    *)
(* rows are never deleted.  Source, layer, AOI and algorithm version are   *)
(* the same for every run, and are left out of keys.                       *)
(***************************************************************************)
EXTENDS Naturals, FiniteSets

CONSTANTS
    Task,       \* the mapped task instances: id -> [run, kind, version, at, after]
    Extract,
    Retries,    \* by task kind
    MaxFaults,  \* bound: how many attempts die, over the whole behaviour
    None

\* `kind` is the task function, `version` the run's source_query_version, `at`
\* what the task is mapped over, <<instant>> or <<instant_a, instant_b>>, and
\* `after` the runs the operator waits for before triggering this one.
Kinds == {"ingest", "build", "publish_snapshot", "publish_changeset"}
Tasks == DOMAIN Task
Kind(k) == Task[k].kind
At(k) == Task[k].at
OfKind(kinds) == { k \in Tasks : Kind(k) \in kinds }

Versions == { Task[k].version : k \in Tasks }
Times == { At(k)[1] : k \in Tasks }
            \cup { At(k)[2] : k \in OfKind({"build", "publish_changeset"}) }
Pairs == { At(k) : k \in OfKind({"build", "publish_changeset"}) }

\* Natural keys of a snapshot and of a changeset.  The latter names the two
\* snapshot rows, which have the task's source_query_version.
SnapshotKeys == Versions \X Times
ChangesetKeys == Versions \X Pairs

\* None is neither a version nor a pair of them.
ASSUME PipelineAssumption ==
    /\ MaxFaults \in Nat
    /\ \A k \in Tasks : Kind(k) \in Kinds /\ Retries[Kind(k)] \in Nat
    /\ None \notin Versions \cup (Versions \X Versions)

VARIABLES
    \* MinIO.  A snapshot key has no source_query_version in it, nor has a
    \* change layer key: objects are indexed by instant and by pair alone.
    raw, processed,     \* instant -> version of the content, or None
    layers,             \* pair -> <<version of A, version of B>>, or None
    \* Postgres metadata: the rows of `snapshots`, by natural key; and for each
    \* changeset key what its row's counts were taken from, or None
    snapshots, changesets,
    \* PostGIS serving tables
    snapshot_features,  \* snapshot -> version of the content it holds, or None
    change_features,    \* changeset -> the set of loads whose rows it holds
    \* Airflow
    pc, tries,
    work,               \* what a running attempt has read
    faults

store == <<raw, processed, layers>>
metadata == <<snapshots, changesets>>
serving == <<snapshot_features, change_features>>
vars == <<store, metadata, serving, pc, tries, work, faults>>

Blank == [a |-> None, b |-> None, layer |-> None, visible |-> {}, beaten |-> FALSE]

Init ==
    /\ raw = [t \in Times |-> None]
    /\ processed = [t \in Times |-> None]
    /\ layers = [p \in Pairs |-> None]
    /\ snapshots = {}
    /\ changesets = [key \in ChangesetKeys |-> None]
    /\ snapshot_features = [key \in SnapshotKeys |-> None]
    /\ change_features = [key \in ChangesetKeys |-> {}]
    /\ pc = [k \in Tasks |-> "queued"]
    /\ tries = [k \in Tasks |-> 0]
    /\ work = [k \in Tasks |-> Blank]
    /\ faults = 0

-----------------------------------------------------------------------------
(* Airflow. *)

Ended(k) == pc[k] \in {"success", "failed"}

\* publish_snapshot >> publish_changeset, with the default trigger rule: every
\* mapped publish_snapshot of the run must have succeeded.
Upstream(k) == { j \in Tasks : /\ Kind(k) = "publish_changeset"
                               /\ Task[j].run = Task[k].run /\ Kind(j) = "publish_snapshot" }

\* Only the run's own order and the operator's hold a queued task back.
Runnable(k) ==
    pc[k] = "queued" =>
        /\ \A j \in Upstream(k) : pc[j] = "success"
        /\ \A j \in Tasks : Task[j].run \in Task[k].after => Ended(j)

\* The attempt goes on from one step to the next.
Advance(k, kind, from, to) ==
    /\ Kind(k) = kind
    /\ pc[k] = from
    /\ Runnable(k)
    /\ pc' = [pc EXCEPT ![k] = to]
    /\ UNCHANGED <<tries, faults>>

\* Operators named Faulty... are seeded faults, each defined before what it
\* stands in for: a run with one of them must fail (see the README).

\* One attempt too many.
FaultyGiveUp(k) ==
    /\ pc' = [pc EXCEPT ![k] = IF tries[k] <= Retries[Kind(k)] THEN "queued" ELSE "failed"]
    /\ tries' = [tries EXCEPT ![k] = IF tries[k] <= Retries[Kind(k)] THEN @ + 1 ELSE @]
    /\ work' = [work EXCEPT ![k] = Blank]
    /\ UNCHANGED <<store, metadata, serving>>

\* Attempts are not counted.
EndlessGiveUp(k) ==
    /\ pc' = [pc EXCEPT ![k] = "queued"]
    /\ work' = [work EXCEPT ![k] = Blank]
    /\ UNCHANGED <<store, metadata, serving, tries>>

\* An attempt has ended without success: what it had in memory and any
\* uncommitted transaction are gone.
GiveUp(k) ==
    /\ pc' = [pc EXCEPT ![k] = IF tries[k] < Retries[Kind(k)] THEN "queued" ELSE "failed"]
    /\ tries' = [tries EXCEPT ![k] = IF tries[k] < Retries[Kind(k)] THEN @ + 1 ELSE @]
    /\ work' = [work EXCEPT ![k] = Blank]
    /\ UNCHANGED <<store, metadata, serving>>

\* The worker dies, a service call fails, or the execution times out.
Crash(k) ==
    /\ ~Ended(k) /\ Runnable(k)
    /\ faults < MaxFaults
    /\ faults' = faults + 1
    /\ GiveUp(k)

\* The task function returns: everything it did is already durable.
Succeed(k) ==
    /\ pc[k] = "committed"
    /\ pc' = [pc EXCEPT ![k] = "success"]
    /\ work' = [work EXCEPT ![k] = Blank]
    /\ UNCHANGED <<store, metadata, serving, tries, faults>>

UpstreamFailed(k) ==
    /\ pc[k] = "queued"
    /\ \E j \in Upstream(k) : pc[j] = "failed"
    /\ pc' = [pc EXCEPT ![k] = "failed"]
    /\ UNCHANGED <<store, metadata, serving, tries, work, faults>>

-----------------------------------------------------------------------------
(* fetch_and_persist_snapshot.  load_aoi and build_snapshot touch nothing   *)
(* another task can see, so they are part of the first put.                 *)

Instant(k) == At(k)[1]
KeyOf(k, t) == <<Task[k].version, t>>

\* What a version extracts at an instant; nothing where there is no content.
FeaturesOf(version, t) == IF version = None THEN {} ELSE Extract[<<version, t>>]

PutRaw(k) ==
    /\ Advance(k, "ingest", "queued", "raw_put")
    /\ raw' = [raw EXCEPT ![Instant(k)] = Task[k].version]
    /\ UNCHANGED <<processed, layers, metadata, serving, work>>

PutProcessed(k) ==
    /\ Advance(k, "ingest", "raw_put", "processed_put")
    /\ processed' = [processed EXCEPT ![Instant(k)] = Task[k].version]
    /\ UNCHANGED <<raw, layers, metadata, serving, work>>

\* The row is committed once the raw object is put.
FaultyUpsertSnapshot(k) ==
    /\ Advance(k, "ingest", "raw_put", "committed")
    /\ snapshots' = snapshots \cup {KeyOf(k, Instant(k))}
    /\ UNCHANGED <<store, changesets, serving, work>>

\* INSERT ... ON CONFLICT DO NOTHING, else SELECT; then COMMIT.
UpsertSnapshot(k) ==
    /\ Advance(k, "ingest", "processed_put", "committed")
    /\ snapshots' = snapshots \cup {KeyOf(k, Instant(k))}
    /\ UNCHANGED <<store, changesets, serving, work>>

-----------------------------------------------------------------------------
(* build_and_persist_changeset.  Both natural keys are built from the run's *)
(* own parameters, so validate_comparable cannot fail here.                 *)

\* _fetch_snapshot: the row by natural key, then the object at its URI.
ReadA(k) ==
    /\ Advance(k, "build", "queued", "read_a")
    /\ KeyOf(k, At(k)[1]) \in snapshots
    /\ work' = [work EXCEPT ![k].a = processed[At(k)[1]]]
    /\ UNCHANGED <<store, metadata, serving>>

ReadB(k) ==
    /\ Advance(k, "build", "read_a", "read_b")
    /\ KeyOf(k, At(k)[2]) \in snapshots
    /\ work' = [work EXCEPT ![k].b = processed[At(k)[2]]]
    /\ UNCHANGED <<store, metadata, serving>>

PutLayer(k) ==
    /\ Advance(k, "build", "read_b", "layer_put")
    /\ layers' = [layers EXCEPT ![At(k)] = <<work[k].a, work[k].b>>]
    /\ UNCHANGED <<raw, processed, metadata, serving, work>>

\* ON CONFLICT DO UPDATE.
FaultyUpsertChangeset(k) ==
    /\ Advance(k, "build", "layer_put", "committed")
    /\ changesets' = [changesets EXCEPT ![KeyOf(k, At(k))] = <<work[k].a, work[k].b>>]
    /\ UNCHANGED <<store, snapshots, serving, work>>

UpsertChangeset(k) ==
    /\ Advance(k, "build", "layer_put", "committed")
    /\ changesets' = [changesets EXCEPT
         ![KeyOf(k, At(k))] = IF @ = None THEN <<work[k].a, work[k].b>> ELSE @]
    /\ UNCHANGED <<store, snapshots, serving, work>>

-----------------------------------------------------------------------------
(* publish_snapshot.  DELETE and INSERT are one transaction.                *)

ReadProcessed(k) ==
    /\ Advance(k, "publish_snapshot", "queued", "read")
    /\ KeyOf(k, Instant(k)) \in snapshots
    /\ work' = [work EXCEPT ![k].a = processed[Instant(k)]]
    /\ UNCHANGED <<store, metadata, serving>>

\* DELETE sees the rows committed before it started (READ COMMITTED).
DeleteFeatures(k) ==
    /\ Advance(k, "publish_snapshot", "read", "deleting")
    /\ UNCHANGED <<store, metadata, serving, work>>

\* The publish_snapshot attempts whose DELETE has not seen the rows k inserts.
Overtaken(k) ==
    { j \in OfKind({"publish_snapshot"}) \ {k} :
        /\ pc[j] = "deleting" /\ KeyOf(j, Instant(j)) = KeyOf(k, Instant(k))
        /\ FeaturesOf(work[k].a, Instant(k)) # {} }

\* UNIQUE (snapshot_id, osm_id): two loads of a snapshot that have rows share an
\* osm_id.
Collides(k) == work[k].beaten /\ FeaturesOf(work[k].a, Instant(k)) # {}

\* Returns without committing.
FaultyInsertFeatures(k) ==
    /\ Advance(k, "publish_snapshot", "deleting", "committed")
    /\ UNCHANGED <<store, metadata, serving, work>>

\* INSERT ... SELECT, and COMMIT: the rows are replaced as a whole.  Beside rows
\* its DELETE has not seen, only a load without rows can be inserted.
InsertFeatures(k) ==
    /\ Advance(k, "publish_snapshot", "deleting", "committed")
    /\ ~Collides(k)
    /\ snapshot_features' = [snapshot_features EXCEPT
         ![KeyOf(k, Instant(k))] = IF work[k].beaten THEN @ ELSE work[k].a]
    /\ work' = [j \in Tasks |->
                  IF j \in Overtaken(k) THEN [work[j] EXCEPT !.beaten = TRUE] ELSE work[j]]
    /\ UNCHANGED <<store, metadata, change_features>>

-----------------------------------------------------------------------------
(* publish_changeset. *)

IdsOf(features) == { f[1] : f \in features }

\* The ids on each side of the records that are written: those of the layer's
\* features that are not the same in both snapshots (`unchanged` is skipped).
ChangedA(l, p) == IdsOf(Extract[<<l[1], p[1]>>] \ Extract[<<l[2], p[2]>>])
ChangedB(l, p) == IdsOf(Extract[<<l[2], p[2]>>] \ Extract[<<l[1], p[1]>>])

\* The ids whose before / after geometry the join to snapshot_features does
\* not find: ST_Union over no rows is NULL.
NullA(load, p) == ChangedA(load.layer, p) \ IdsOf(FeaturesOf(load.geom[1], p[1]))
NullB(load, p) == ChangedB(load.layer, p) \ IdsOf(FeaturesOf(load.geom[2], p[2]))

\* change_features_removed_has_a and change_features_added_has_b.
ChecksHold(load, p) ==
    /\ NullA(load, p) \subseteq ChangedB(load.layer, p)
    /\ NullB(load, p) \subseteq ChangedA(load.layer, p)

HasRows(k) ==
    /\ \A i \in {1, 2} : KeyOf(k, At(k)[i]) \in snapshots
    /\ changesets[KeyOf(k, At(k))] # None

\* A snapshot has rows (it can have been loaded and have none).
HasFeatures(key) == FeaturesOf(snapshot_features[key], key[2]) # {}

\* Only the later snapshot is required.
FaultySnapshotsPublished(k) == HasFeatures(KeyOf(k, At(k)[2]))

\* A load is enough, with or without rows.
LooseSnapshotsPublished(k) ==
    \A i \in {1, 2} : snapshot_features[KeyOf(k, At(k)[i])] # None

\* _require_published_snapshot, for both sides.
SnapshotsPublished(k) == \A i \in {1, 2} : HasFeatures(KeyOf(k, At(k)[i]))

\* What this attempt inserts: the layer it read, joined to the snapshot rows
\* as they are when the INSERT runs.
Load(k) ==
    [run |-> Task[k].run, layer |-> work[k].layer,
     geom |-> <<snapshot_features[KeyOf(k, At(k)[1])],
                snapshot_features[KeyOf(k, At(k)[2])]>>]

ReadLayer(k) ==
    /\ Advance(k, "publish_changeset", "queued", "read")
    /\ HasRows(k)
    /\ work' = [work EXCEPT ![k].layer = layers[At(k)]]
    /\ UNCHANGED <<store, metadata, serving>>

\* The delete is a transaction of its own.
FaultyDeleteRows(k) ==
    /\ Advance(k, "publish_changeset", "read", "deleting")
    /\ SnapshotsPublished(k)
    /\ change_features' = [change_features EXCEPT ![KeyOf(k, At(k))] = {}]
    /\ UNCHANGED <<store, metadata, snapshot_features, work>>

\* DELETE sees the rows committed before it started (READ COMMITTED).  If it
\* has to wait for another transaction's delete of the same rows, it goes on
\* without them and still does not see what that transaction inserted: the
\* rows it leaves are the same, so the wait is not modelled.
DeleteRows(k) ==
    /\ Advance(k, "publish_changeset", "read", "deleting")
    /\ SnapshotsPublished(k)
    /\ work' = [work EXCEPT ![k].visible = change_features[KeyOf(k, At(k))]]
    /\ UNCHANGED <<store, metadata, serving>>

\* INSERT ... SELECT, and COMMIT.
InsertRows(k) ==
    /\ Advance(k, "publish_changeset", "deleting", "committed")
    /\ ChecksHold(Load(k), At(k))
    /\ change_features' = [change_features EXCEPT
         ![KeyOf(k, At(k))] = (@ \ work[k].visible) \cup {Load(k)}]
    /\ UNCHANGED <<store, metadata, snapshot_features, work>>

-----------------------------------------------------------------------------
\* The code's own exceptions: a prerequisite is missing or a constraint fails.
MustRaise(k) ==
    \/ Kind(k) = "build" /\ pc[k] = "queued" /\ KeyOf(k, At(k)[1]) \notin snapshots
    \/ Kind(k) = "build" /\ pc[k] = "read_a" /\ KeyOf(k, At(k)[2]) \notin snapshots
    \/ /\ Kind(k) = "publish_snapshot" /\ pc[k] = "queued"
       /\ KeyOf(k, Instant(k)) \notin snapshots
    \/ Kind(k) = "publish_snapshot" /\ pc[k] = "deleting" /\ Collides(k)
    \/ Kind(k) = "publish_changeset" /\ pc[k] = "queued" /\ ~HasRows(k)
    \/ Kind(k) = "publish_changeset" /\ pc[k] = "read" /\ ~SnapshotsPublished(k)
    \/ Kind(k) = "publish_changeset" /\ pc[k] = "deleting" /\ ~ChecksHold(Load(k), At(k))

Raise(k) == MustRaise(k) /\ Runnable(k) /\ GiveUp(k) /\ UNCHANGED faults

Step(k) ==
    \/ PutRaw(k) \/ PutProcessed(k) \/ UpsertSnapshot(k)
    \/ ReadA(k) \/ ReadB(k) \/ PutLayer(k) \/ UpsertChangeset(k)
    \/ ReadProcessed(k) \/ DeleteFeatures(k) \/ InsertFeatures(k)
    \/ ReadLayer(k) \/ DeleteRows(k) \/ InsertRows(k)
    \/ Succeed(k) \/ UpstreamFailed(k) \/ Raise(k)

\* Every triggered run is over.  (A deadlock is then a task nothing can move.)
Over == (\A k \in Tasks : Ended(k)) /\ UNCHANGED vars

Next == (\E k \in Tasks : Step(k) \/ Crash(k)) \/ Over

\* Airflow's executor does not stop while some task can go on.  Crashes are
\* never required to happen, and no task is favoured over another.
Spec == Init /\ [][Next]_vars /\ WF_vars(\E k \in Tasks : Step(k))

-----------------------------------------------------------------------------
Label == Versions \cup {None}
Layer == (Versions \X Versions) \cup {None}
LoadRecord == [run : { Task[k].run : k \in Tasks }, layer : Versions \X Versions,
               geom : Versions \X Versions]
WorkRecord == [a : Label, b : Label, layer : Layer,
               visible : SUBSET LoadRecord, beaten : BOOLEAN]

TypeOK ==
    /\ raw \in [Times -> Label] /\ processed \in [Times -> Label]
    /\ layers \in [Pairs -> Layer]
    /\ snapshots \subseteq SnapshotKeys
    /\ changesets \in [ChangesetKeys -> Layer]
    /\ snapshot_features \in [SnapshotKeys -> Label]
    /\ change_features \in [ChangesetKeys -> SUBSET LoadRecord]
    /\ pc \in [Tasks -> {"queued", "raw_put", "processed_put", "read_a", "read_b",
                         "layer_put", "read", "deleting", "committed",
                         "success", "failed"}]
    /\ tries \in [Tasks -> Nat] /\ \A k \in Tasks : tries[k] <= Retries[Kind(k)]
    /\ work \in [Tasks -> WorkRecord]
    /\ faults \in 0..MaxFaults

\* A row is only written after the objects its URIs name, so nothing that
\* finds a row (build, publish) fails to find its object, even when attempts
\* die between the puts and the upsert.
NoDanglingRows ==
    /\ \A key \in snapshots : raw[key[2]] # None /\ processed[key[2]] # None
    /\ \A key \in ChangesetKeys : changesets[key] # None =>
         layers[key[2]] # None /\ \A i \in {1, 2} : <<key[1], key[2][i]>> \in snapshots

\* Rows are append-only under retries and overlapping runs: the first attempt
\* to commit a natural key decides the row ("never a duplicate insert",
\* docs/architecture.md section 3; ON CONFLICT DO NOTHING).
RowsPermanent ==
    [][ /\ snapshots \subseteq snapshots'
        /\ \A key \in ChangesetKeys :
             changesets[key] # None => changesets'[key] = changesets[key] ]_vars

\* The instants at which some version extracts nothing: a republish can replace
\* the features of such a snapshot by none.
Emptiable == { key \in SnapshotKeys : \E v \in Versions : Extract[<<v, key[2]>>] = {} }

\* A snapshot is loaded, and with features unless a version extracts none.
Served(key) ==
    /\ snapshot_features[key] # None
    /\ key \notin Emptiable => HasFeatures(key)

Sides(key) == { <<key[1], key[2][1]>>, <<key[1], key[2][2]>> }

\* The serving tables are derived: whatever they hold has its metadata rows, and
\* change rows lie over the features of two snapshots.  Only those of a snapshot
\* that some version finds empty may be gone again: the prerequisite is asked
\* for once, and a later publish of that snapshot withdraws them.
ServingIsDerived ==
    /\ \A key \in SnapshotKeys : snapshot_features[key] # None => key \in snapshots
    /\ \A key \in ChangesetKeys : change_features[key] # {} =>
         /\ changesets[key] # None
         /\ \A s \in Sides(key) : Served(s)

\* A task Airflow shows as successful has left what it promises, whatever ran
\* or died since: later runs are told they can rely on it.  For a snapshot
\* without buildings that is less than publish_changeset asks for: success means
\* a load, not features.
SuccessIsDurable ==
    \A k \in Tasks : pc[k] = "success" =>
        CASE Kind(k) = "ingest" -> KeyOf(k, Instant(k)) \in snapshots
          [] Kind(k) = "build" -> changesets[KeyOf(k, At(k))] # None
          [] Kind(k) = "publish_snapshot" -> Served(KeyOf(k, Instant(k)))
          [] Kind(k) = "publish_changeset" -> change_features[KeyOf(k, At(k))] # {}

\* "A failure anywhere leaves the previous rows untouched" (_load_via_staging):
\* wherever a publish attempt dies, a snapshot with features keeps some for the
\* readers of the serving tables, unless a version extracts none of it and was
\* published; and a changeset that was loaded is never found without a load.
NeverUnpublished ==
    [][ /\ \A key \in SnapshotKeys : Served(key) => Served(key)'
        /\ \A key \in ChangesetKeys :
             change_features[key] # {} => change_features'[key] # {} ]_vars

\* The changesets some attempt has checked the prerequisites of, and not yet
\* inserted the rows of.
Approved == { KeyOf(k, At(k)) : k \in { j \in Tasks : Kind(j) = "publish_changeset"
                                                    /\ pc[j] = "deleting" } }

\* What readers may rely on (Publication), wherever attempts die and however
\* runs overlap: nothing is built before it is ingested, or loaded before it is
\* built and both of its snapshots were seen with features; and a snapshot only
\* ever loses its features if a version extracts none.
Promise == INSTANCE Publication WITH
    ingested <- snapshots,
    built <- { key \in ChangesetKeys : changesets[key] # None },
    shown <- { key \in SnapshotKeys : HasFeatures(key) },
    approved <- Approved,
    loaded <- { key \in ChangesetKeys : change_features[key] # {} }

ImplementsPublication == Promise!Spec

\* Retries are bounded: every task ends, in success or in failure.
EveryTaskEnds == <>(\A k \in Tasks : Ended(k))

-----------------------------------------------------------------------------
(* What the documentation says of the pipeline; see the README. *)

\* docs/architecture.md section 1: "Nothing overwrites it; a new algorithm
\* version or re-ingestion creates a new object, never replaces one in place."
\* Stated of the objects it matters for: the processed ones that a row names.
ObjectsImmutable ==
    [][ \A key \in snapshots : processed'[key[2]] = processed[key[2]] ]_vars

\* validate_comparable's docstring: both snapshots of a change layer must share
\* their source_query_version.
LayersComparable ==
    \A p \in Pairs : layers[p] # None => layers[p][1] = layers[p][2]

\* "Publishing is idempotent (atomic delete-then-insert scoped to one
\* snapshot/changeset)": a changeset's rows are those of a single load.
OneLoadPerChangeset ==
    \A key \in ChangesetKeys : Cardinality(change_features[key]) <= 1

\* "raises rather than writing NULL geometry": no record written lacks the
\* geometry of a side it has.
NoNullGeometry ==
    \A key \in ChangesetKeys : \A load \in change_features[key] :
        NullA(load, key[2]) = {} /\ NullB(load, key[2]) = {}
=============================================================================
