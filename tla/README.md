# Verification of the building change pipeline

TLA+ models of the system in this repository: dated snapshots of OSM buildings
are ingested into an object store, matched pairwise into change layers, published
into PostGIS, and served to a web map. The modules are checked by TLC on small
instances and, where it says so below, proved with TLAPS for every instance.

Paths are those of the repository; module names are those of this directory.

## 1. The system

| component | state it keeps | operations | talks to |
|---|---|---|---|
| ingestion (`src/ingestion`) | none | fetch from ohsome, select the versions valid at the instant, validate and repair, count | called by the ingest DAG |
| matching (`src/matching`) | none | load, match ids, find candidates, group, resolve, classify, render, count | called by the build DAG |
| object store (`src/storage`) | JSON objects by key | put, get | written by ingest and build, read by build and publish |
| metadata (`src/db`, `sql/001`, `sql/002`) | `snapshots`, `changesets` rows by natural key | upsert, lookup | written by ingest and build, read by all DAGs and the API |
| serving tables (`src/publish`, `sql/003`) | `snapshot_features`, `change_features` | replace one snapshot, replace one changeset | written by publish, read by the API |
| DAGs (`dags`) | Airflow's task states | three manually triggered DAGs of mapped tasks | everything above |
| API (`api`) | a connection pool; responses cached by browsers | lists, details, history, two kinds of tile | reads metadata and serving tables |
| web application (`web/src/App.tsx`) | changesets, selection, filter, detail, history | load, select, switch interval, toggle | calls the API |
| web map (`web/src/components/map`) | the MapLibre style, sources and layers | create, swap the style, build layers, retarget, overlay | driven by the application's props and MapLibre's events |
| deployment (`docker-compose.yml`, images, `Makefile`) | - | - | - |

**What is hard.** Runs are triggered by hand and may overlap; the mapped tasks of
one run execute in parallel; an attempt may die after any external call and is
retried from its beginning. Three stores are written without a common
transaction. Object keys carry fewer parameters than row keys. Publishing deletes
and inserts under READ COMMITTED. The matching code iterates over Python sets,
whose order differs from process to process. The web application has requests in
flight while the selection changes, and a map style that reloads asynchronously
under the layers drawn on it.

**What makes each component correct.**
- *Matching*: every feature of both snapshots in exactly one record; no candidate
  dropped; no ambiguous group silently resolved; the same output in every process.
- *Object store and metadata*: a row never points at a missing object; rows are
  permanent; a natural key has one row; content is what its row says.
- *Publishing*: replacement is atomic and idempotent; changes are only published
  over published snapshots; no geometry is lost.
- *DAGs*: a task that succeeded has left its result; every task ends.
- *API*: one answer describes one state of the database.
- *Web*: what is shown belongs to what is selected; after every style reload the
  layers come back.

`PROJECT.json` lists the hazards one by one, with their lines and the properties
that cover them.

## 2. Modules

| module | models | status |
|---|---|---|
| `CandidateGraph` | the bipartite graph of candidates; the reference definition of a component | |
| `ConnectedComponents` | `_connected_components` | checked, safety proved |
| `BuildChangeset` | `build_changeset` with `generate_candidates` | checked, safety proved |
| `ChangeLayer` | what becomes of its records: `render.py`, the counts, the published rows, the API's total | checked, safety proved |
| `Ingestion` | one snapshot from OSM's history to `load_features` and the staged rows | checked, safety proved |
| `Publication` | abstract: what the pipeline promises to the readers of its tables | implemented by `Pipeline` |
| `Pipeline` | the four tasks of the three DAGs, object store, tables, Airflow | checked, safety and refinement proved |
| `Api` | the handlers behind the page, their pool and statements | part of `Session`; labels proved |
| `Session` | one page over the API, beside publish runs | checked, safety proved |
| `WebMap` | the hooks of the map over MapLibre | checked, safety proved |
| `CandidateGraphTheorems`, `ConnectedComponentsProofs`, `BuildChangesetProofs`, `ChangeLayerProofs`, `PipelineProofs`, `IngestionProofs`, `SessionProofs`, `WebMapProofs` | proofs | |
| `MC...` | instances, one for each of the modules that is run | |

`ChangeLayer` extends `BuildChangeset`, so that its properties are about every
record list `build_changeset` returns. `Session` extends `Api`. `Pipeline` and
`Publication` are joined by the refinement `Promise`. `Ingestion` refines the
first put of `Pipeline` (`Extract` is what it computes), `ChangeLayer` its
`PutLayer`, without a formal link: the pipeline only needs to know which version a
content came from.

### ConnectedComponents
`candidates` is the function's argument, every dictionary `generate_candidates`
can return. `todo` is what `for start in neighbours` has not reached; `seen`,
`queue`, `members`, `components` are the code's variables. `Skip` and `Begin` are
the two sides of `if start in seen`, `Visit` is one turn of `while queue`, `Emit`
appends the component, `Return` returns. Starts and neighbours are visited in any
order and any element of the queue is popped; the code's order is one of these.

### BuildChangeset
The inputs are ids and, per pair that is ever measured, the IoU in hundredths and
whether significant tags differ. Ids are natural numbers, the rank of an `osm_id`
among the strings, so that tuples of ids sort as they do in the code. `MatchId`
is Stage 1, `FindCandidates` Stage 2, `ResolveGroup` Stages 3 to 5 for one group,
`EmitRemoved` and `EmitAdded` the leftovers, `Return` the final sort. The group
list is `Components(candidates)`, which is what `ConnectedComponentsProofs` shows
the walk to return. `involves_repaired_geometry`, `touches_aoi_boundary` and the
metrics that no stage tests are left out.

### Pipeline
One process per mapped task instance; `Task` gives each its run, its function, its
`source_query_version`, what it is mapped over, and the runs the operator waits
for before triggering. A step is one call another task can observe.

| task | steps |
|---|---|
| `fetch_and_persist_snapshot` | `PutRaw`, `PutProcessed`, `UpsertSnapshot` |
| `build_and_persist_changeset` | `ReadA`, `ReadB`, `PutLayer`, `UpsertChangeset` |
| `publish_snapshot` | `ReadProcessed`, `DeleteFeatures`, `InsertFeatures` |
| `publish_changeset` | `ReadLayer`, `DeleteRows`, `InsertRows` |
| all | `Succeed`, `Raise`, `Crash`, `UpstreamFailed` |

The content of an object is told by the version that produced it; a change layer's
by the two versions it was computed from. `raw`, `processed` and `layers` are
indexed by instant and pair only, as the object keys are; the tables by version
too, as the natural keys are. Rows of a changeset are kept per load, because under
READ COMMITTED a delete removes only what it saw. A snapshot whose extraction is
empty is loaded but has no rows, which `_require_published_snapshot` cannot tell
from unpublished (`HasFeatures`). `Overtaken` are the publishes whose delete has not
seen a load; `Collides` is the unique key of `snapshot_features` that then makes
theirs fail, on the understanding that two loads of one snapshot that have rows
share an `osm_id`; `ChecksHold` the two CHECK constraints of `change_features`;
`NullA` and `NullB` the ids whose geometry the join does not find. A load is one
element of `change_features` even when it has no rows to write.

Two readings of the code are worth a note. The lookups of a task before its first
object read are one step: rows are never deleted, so when each of them runs does
not matter (`RowsPermanent`). And `validate_comparable` compares the parameters a
run was given with themselves, so it never fails here.

### Publication
Snapshots ingested, changesets built, snapshots shown, changesets approved and
loaded. A snapshot is shown while it has features to serve (`HasFeatures`, what
`_require_published_snapshot` asks); an attempt that has found both snapshots of its
changeset shown holds an approval until it commits (`Load`) or dies (`Abandon`).
Nothing is lost by readers, with one exception: a snapshot of which some version
extracts no building (`Emptiable`) may be published again without features
(`Withdraw`), under change rows that stay. `Promise` in `Pipeline` reads all of it off
the tables and the attempts. What the abstract specification leaves out is what the
pipeline does not keep: which content is shown (see `one_load`, `no_null_geometry`,
`layers_comparable`).

### Ingestion
`osm` is the input: for every element what it was in each second. `Response` is
ohsome's answer, modelled from how `ohsome_client.py` asks for it and
`snapshot.py` reads it: one row per version that touches the one-second range, its
`@validFrom` clipped. `Fetch`, `Normalize` (a turn of the loop), `Store` are
`build_snapshot`; `LoadFeature` and `LoadDone` are `load_features`; `StageRow` and
`InsertRows` are `publish_snapshot_features`. A geometry is the shape mapped,
whether `make_valid` was applied, and the types of its parts; `Repaired` is
shapely's `make_valid`. A fully degenerate footprint keeps its non-polygonal
repair, as `validate.py:77` does; the comment at `postgis.py:38`, by which
ingestion guarantees polygons, does not hold then, and the publish raises
(`UsableUnlessDegenerate`).

### ChangeLayer
`_record_geometry`, the `candidates` array (`CandidateArrays` is every order a
process may write), `counts` and `changed_count`, and of the published row the
promoted metrics (`Metrics`) and what it needs that does not depend on the published
snapshots (`Insertable`): the ids of its side, and a polygonal geometry, without which
`_as_multipolygon` raises and the whole load fails (`LayerInsertable`). Which
footprints are degenerate is not an input of `build_changeset`; `RowsPublishable` is
about every set of footprints that overlap nothing, which the degenerate ones do
(`WithoutArea`). The geometry of an ambiguous group is that of its B side only, as
the code has it; the docstring at `render.py:38` speaks of both sides.
`GroupsLocated` says what holds instead: each A footprint overlaps one that is drawn.

### Api and Session
A request is received, finds or opens the pool (`FindPool`, `OpenPool`: `get_pool`
has no lock), takes a connection, executes one statement and gives the connection
back. `GetFeatureHistory` and `GetParticipation` are the two statements of one
request, each on a connection of its own; the first looks at snapshots of the
default `source_query_version` only, since the page never names one (`HasHistory`).
`HandlerRaises` is the pool's timeout or a statement's error. `GetTile` and
`TileRaises` are `change_tile`: one step, which needs a free connection of the pool
and opens the pool if nobody has.

`Session` is the page: `ShowTile`, `TileFails` and `Expire` are the library with the
browser's cache (five minutes), `Click` is `handleSelectChange` up to its first await,
`ShowChange`, `ShowHistory`, `ShowError` what follows each answer, whenever it
comes. `PublishChangeset` renumbers all rows of a changeset, `PublishSnapshot`
takes a building away from the snapshots of a version or brings it back. A tile whose
request failed stays errored, and draws nothing, until the interval changes. Three
auxiliary variables serve the properties only: `clicked`, `overtaken`, `republished`.
The map is one tile; as its request is one step, a tile and a detail request do not
race for opening the pool (two detail requests do). A response of an interval already
left, which the browser could still hold when the user comes back, is not modelled.

### WebMap
State of React (`due`, `committed`, `styleReady`, ...) and of the library (`loaded`,
`waiting`, `sources`). `Commit` runs the effects in the order of `MapView`'s hooks:
`useMapInstance` (`MustSwap`, `SetStyle`, `AfterSwap`, `Ready`), `useChangeLayers`
(`WithLayers`, `Retargeted`), `useSelectionOverlay` (`WithOverlay`, `Overlaid`),
then `App`'s own. `Init` is the page after its first commit. Two variables are history
for `MapShowsSelection`: the interval first shown over the style in use, and whether
the selection is older than that style. Every answer is an object of its own, so
clicking the same record again draws its outline again. Unmounting and the
double mount of StrictMode happen within one synchronous step and are left out, as
is a style that never loads.

## 3. Checks

Passing runs. Deadlock is checked in the two pipeline runs. It is off where the system
may stop: the functions of the matching and ingestion runs return, `web_map` comes to
rest after its events, and in `session` nothing is left to do once a tile is errored,
all answers are shown and the bounds are used up.

| run | instance | properties | shows |
|---|---|---|---|
| `connected_components` | all graphs up to 3 x 3 | `TypeOK`, `ComponentsDisjoint`, `ComponentsExact`, `ReturnsAllComponents`, `Terminates` | the walk returns exactly the partition, in any order |
| `build_changeset` | 3 + 3 features, one id shared, IoU 0, .49, .50, .99 | `TypeOK`, `NoFeatureTwice`, `NoFeatureLost`, `NoCandidateLost`, `MatchesUnrivalled`, `DeterministicOutput` | exactly one record per feature; nothing dropped, nothing resolved silently; one output |
| | | `ExportDeterministic`, `ChangedCountIsRowCount`, `RowsPublishable`, `GroupsLocated` | one file, in every process; the number the API announces is the number of rows of the same build; which layers a publish can load, given what is degenerate, and no row promotes one candidate of several; a group can be found on the map |
| `pipeline` | ingest v1 of two instants, v2 of one, build both versions, all at once; one crash, one retry | `TypeOK`, `NoDanglingRows`, `RowsPermanent`, `EveryTaskEnds` | rows never dangle or change; every task ends |
| `publish` | ingest, build, then two publish runs beside a re-ingestion that extracts nothing; one crash | `ServingIsDerived`, `SuccessIsDurable`, `NeverUnpublished`, `ImplementsPublication` | the serving tables rest on what they are derived from, replacement is atomic, and readers lose nothing but the features of a snapshot that a version finds empty |
| `ingestion` | two elements, every history over three seconds, four kinds of invalid shape | `TypeOK`, `SnapshotIsStateAtInstant`, `RepairRecorded`, `UsableUnlessDegenerate` | the snapshot is the state at the instant; no repair is silent; a stored snapshot loads, and publishes unless degenerate |
| `session` | two intervals, two buildings, two versions, two clicks, a pool of one connection; one switch, one publish, one failure, two of them together | `TypeOK`, `PoolsAccounted`, `DetailFollowsClick`, `EveryClickSettles`, `TilesConverge` | no connection is lost to the pool race; the panel is about the drawn record that was clicked; the spinner stops; stale tiles go away, unless a tile's last request failed |
| `web_map` | four styles, two intervals, two classifications, two answers, five events | `TypeOK`, `MapShowsSelection`, `LayersComeBack` | nothing is added to a loading style; the map shows the selected interval and filter; the layers come back after every swap |

Some properties say less than a reader may expect, because the code does.
`DetailFollowsClick` excepts a page used while an answer was due (`overtaken`); what
happens then is `selection_cleared`. It allows an error for a building in no snapshot
of the default version: the changesets of every version are listed, and a click on a
record of another one then discards it with a 404 (`main.py:168`). `TilesConverge`
excepts a tile whose request failed. `MapShowsSelection` says when the outline of the
selected record is missing, namely when a style was loaded since its answer came
(`useSelectionOverlay.ts:105`), and which context is drawn, namely that of the
interval first shown over the style rather than of the selected one
(`useChangeLayers.ts:69`; `docs/architecture.md:193` has the interval's after
snapshot). With no classification switched on the filter is left out of the URL and
all of them are asked for (`client.ts:26`). `ServingIsDerived`, `SuccessIsDurable` and
`NeverUnpublished` except the features of a snapshot that some version finds empty:
its publish succeeds without a row, after which changesets over it cannot be published
and those that are published stay (`postgis.py:193`). `RowsPublishable` is refuted as
a promise that every layer loads: a degenerate footprint that is current or removed
fails it (`postgis.py:38` says that none exists).

Runs that refute what the repository says of itself:

| run | says | the code |
|---|---|---|
| `selection_cleared` | `web/src/App.tsx:85`, a switch clears the selection, which would be misattributed | the answer awaited at the switch is shown after it |
| `objects_immutable` | `docs/architecture.md:27`, nothing overwrites an object | the key has no `source_query_version`: v2's content is put over the processed object a v1 row names |
| `layers_comparable` | `src/matching/pipeline.py:51`, both sides share the version, or a hard error | only parameters are compared, not what the object holds |
| `one_load` | `src/publish/postgis.py:8`, idempotent by atomic replacement | two overlapping runs leave both loads |
| `no_null_geometry` | `src/publish/postgis.py:16`, raises rather than writing NULL geometry | a `modified` record whose building is not in the published snapshot gets NULL |

Not a run, but met on the way: an id match stores its IoU as `match_score`
(`changeset.py:91`), where `docs/matching-spec.md:98` says 1.0.

**Bounds.** Three features a side give every shape of group the code tells apart:
(1,1), (1,N), (N,1), (N,M), several groups at once and chains through three nodes.
In `build_changeset` two leftovers a side give the same shapes and the IoU values
lie on both sides of both thresholds and on them. In `Pipeline`, `MaxFaults` bounds
how many attempts die and `Retries` is 1 or 0 where the code has 2 or 3: one retry
already repeats everything, one failure already reaches every later task. Two
instants and one pair are the least a build needs; two versions are what the
overlap of runs needs. The `publish` instance orders the first ingestion and build
before everything else (`after`), so that its states are spent on what overlaps;
the `pipeline` instance orders nothing. Its version `v2` extracts nothing at one
instant, so that a publish meets a snapshot that has a load and no rows.

In `ingestion`, one second before the instant, the instant and the last second of
the range are all the code tells apart; two elements make the counts and the unique
ids matter. In `session`, two clicks are needed for one answer to overtake another
and for two first requests to race for the pool, one publish for a stale tile, and
one connection for a request to have to wait; any two of switch, publish and failure
meet in every order. Five events in `web_map` let a second
swap come before the first has loaded, with a selection and an interval or filter
change around it; two values of each of them are what a change needs.
`Max...` constants bound clicks, switches, publishes, failures and events only.

**Fairness.** The walk of `ConnectedComponents` runs to its return: `WF_vars(Next)`.
`BuildChangeset` is for-loops over finite sets and has no liveness property. For the
pipeline,
`WF_vars(\E k \in Tasks : Step(k))`: Airflow's executor does not stop while a task
can go on. No task is favoured, and crashes are never required. It is the weakest
assumption under which anything ends at all, and enough because attempts are
bounded. In `session`, every thread of the API and every continuation of the page
goes on (`WF` of `Serve` for each request: a queued connection is given to somebody
as long as others finish), and the library asks for a tile it wants and again when
the response expires (`WF` of `ShowTile \/ Expire`: such a request is answered if it
does not fail); clicks, publishes and failures are never required. In `web_map`, React
commits what is due and a requested style loads. Ingestion has no liveness property
and no fairness.

**Seeded faults.** Operators named `Faulty...`, `Endless...`, `Silent...`, `Loose...` and `Blank...` are
plausible bugs in the definition they precede. `PROJECT.json` pairs each property
with one, and putting it in place makes the run fail.

## 4. Proofs

Every safety property that a passing run checks is proved, and the refinement; the
liveness properties are model-checked only. For each module the proof gives one
inductive invariant (`IInv`; `PageInv` in `SessionProofs`) as a conjunction of named
parts, which TLC checked on the run's instance before it was proved.

`CandidateGraphTheorems` has the facts about graphs: neighbours are symmetric; the
complement of a closed set is closed; a component is closed; every node of a
component has the same component (`SameComponent`); every component has both sides
(`ComponentHasBothSides`). Closed sets replace paths, so that no induction is
needed.

`ConnectedComponentsProofs` proves `TypeOK`, `ComponentsDisjoint`,
`ComponentsExact` and `ReturnsAllComponents` invariant. None is inductive alone:
the strengthening says that what is seen is the reported components together with
`members` and `queue`; that these two lie within one component and that the
neighbours of `members` are in either; and that a start is passed over only when
seen. When the queue is empty, `members` is a closed set inside a component, which
makes it the component.

`BuildChangesetProofs` proves `TypeOK`, `NoFeatureTwice`, `NoFeatureLost`,
`NoCandidateLost`, `MatchesUnrivalled` and `DeterministicOutput`. The invariant
accounts, loop by loop, for which features have a record by now (`Progress`): the
shared ids not in `todo`, then those in `matched_a` and `matched_b`, then the
leftovers of each side; that the groups still to come do not meet `matched_a` or
`matched_b`; and that the pairs of every matched feature are kept in a record that
names both (`Kept`). Groups are disjoint because they are components, by
`SameComponent`. The list is determined because each part of it is (`Determined`),
whatever the loops have left, and because the sort key orders any two records of
different ids: `TupleLess` is total (`TupleLessTotal`), for which the least id that
two tuples do not share has to exist.

`ChangeLayerProofs` builds on these invariants. The two ways of counting agree
(`CountsAgree`) because the records are partitioned by their classification. A
record has one exported feature (`ExportsAgree`) because a finite set of candidates
has exactly one sorted list: `SortedUnique` compares two lists at the first place
where they differ, `SortedExists` takes a smallest set without one. What can be
loaded (`RowsCanBePublished`) is shown case by case over the five classifications, with
what the invariant says of the ids of each: an id match draws its B footprint, whatever
its A one is; the members of a group overlap something, so none is degenerate.
`GroupsAreFound` follows from groups being components: an A member of one has a
neighbour, which is a B member.

`PipelineProofs` proves all six safety properties the pipeline runs check, and that
`Pipeline` implements `Publication`, for any runs, mapped tasks, versions, instants,
retries and faults. None of the properties is inductive: that an upsert leaves no
dangling row depends on what the attempt did steps ago. The invariant `IInv`
therefore ties to the program counter of each attempt what it may rely on
(`Reached`): it has seen a row, so the row is there; it has put an object, so the
object is there; it has committed, so its result is there (`Left`). Three lemmas
carry the proof, each with one case per action: `StepTyped`, `StepKeeps` (no step
empties a table, a row or an object another attempt may rely on: `Kept`) and
`StepReaches` (the attempt that moves reaches what its next step relies on);
`OthersReach` then needs no cases, and `StepDerives` looks only at the four commits.
`SuccessIsDurable`, `RowsPermanent` and `NeverUnpublished` are corollaries of
`Left` and `Kept`. For the refinement, the commits of ingestion, build and the two
publishes are `Ingest`, `Build`, `Show` or `Withdraw`, and `Load`; the check of the
prerequisites is `Approve`, an attempt that dies after it `Abandon`, and everything
else stutters (`StepPromised`).

`IngestionProofs` proves `TypeOK`, `SnapshotIsStateAtInstant`, `RepairRecorded` and
`UsableUnlessDegenerate`, for any elements, histories, shapes and repairs. What a
snapshot must be is a function of the history, what it is comes from a loop over the
response, so the invariant relates the loop to the elements: `Covered` are those the
loop has been through, and `Accounted` says that the features and the three counts
are those of exactly these. The heart is a lemma about `Response`: an element has
one row that is valid at the instant if it is a building then, and none otherwise.
`Consumed` says the same of the two consumers.

`SessionProofs` proves `PoolsAccounted`, `TypeOK` and `DetailFollowsClick`, for any
number of clicks, publishes, failures and switches and any pool size.
*Pools.* `get_pool` is not locked, but a request opens a pool only if it saw none, so
pools opened and being opened never outnumber the clicks (`Pools`), and each
connection is counted where its request remembers to have taken it (`Slots`).
*Rows.* A publish gives every row a new id, and a tile may be five minutes old. Ids
are never given twice (`Serving`), so a row that was drawn once is the row of its id
as long as there is one (`Remembered`): a stale click finds its own record or
nothing, and nothing only after a publish. The history of its building may be missing
without one, if no snapshot of the default version has it.
*Panel.* While the page is not overtaken one request at most is under way and the
spinner turns exactly then (`Single`). `Awaited` says what that request is about, at
each of its five stages (`AskedForChange` to `AnsweredError`): the clicked row or, once
that is shown, its subject. `GoesOn` and `Settles` are the two things that can happen
to it, `Beside` whatever else happens. The two kinds of answer are told apart by
their fields only, as the code does.
The module also proves that `_span_label` never ranks a longer interval before a
shorter one, across the cuts between days, months and years.

`WebMapProofs` proves `TypeOK` and `MapShowsSelection` for any styles, intervals,
filters and records and any number of events. The effects compare the page with what
the last commit rendered, never with the map, so the invariant relates the sources to
`committed` and to the history (`Dropped`, `Targeted`, `InContext`, `Outlined`), and
says separately when that is what the page selects (`AtRest`). `StylesFollowed` keeps sources from being added to a style that
loads.

Assumed, in `Session`: the bounds, the pool size and the lengths of the intervals are
naturals, there is an interval, a layer is finite, each of its changes has a
building, and `None`, which stands for null, is no number, no row and no history. In
`WebMap` likewise `None` is none of the values it stands beside. In `ChangeLayer`: the
two snapshots are finite, being dictionaries. In `Pipeline`: tasks are of the four
kinds, retries and faults are naturals, and `None` is neither a version nor a pair of
versions. In `BuildChangeset`: ids and IoU values are naturals and
`0 < T_CROSS_ID_MATCH <= T_UNCHANGED_IOU` (`src/matching/config.py`). In
`ConnectedComponents`: the sides are disjoint, which Stage 1 ensures. TLC evaluates
all of them in the runs.

Model-checked only: liveness (`Terminates`, `EveryTaskEnds`, `EveryClickSettles`,
`TilesConverge`, `LayersComeBack`), which the prover does not do under fairness, as
it does not do `ENABLED`. Induction over data is out of its reach as a rule of its
own; where an argument needs it, the proofs take a least counterexample instead
(`LeastOf`, `SortedExists`), the strict subsets of a finite set being well-founded.
No module uses `RECURSIVE` operators.

## 5. Plan

What is left, in this order:
1. The safe half of termination: measures that every step decreases, for the walk
   and for the attempts of a task, so that only fairness is left to the model checker.
2. A formal link between `Ingestion` and `Pipeline`'s first put, and between
   `ChangeLayer` and its `PutLayer`.
3. Runs that refute: the degenerate footprint (`postgis.py:38`), the geometry of
   ambiguous groups (`render.py:38`), the score of an id match (`changeset.py:91`).
   They are described above.

## 6. Not modelled

- *Web presentation*: markup computed from properties; no state outlives a render.
- *Deployment*: containers, start-up order and configuration.
- Geometry: shapely and PostGIS are taken to compute what their names say;
  reprojection moves coordinates and nothing else depends on it.
- `building_category` is a lookup table and `aoi.py` reads one file; neither
  decides what is kept.
- The read-only lists of the API and `get_snapshot_feature`: one statement each,
  with no step that `get_change_feature` does not have.
- Log lines and the summarize tasks.
