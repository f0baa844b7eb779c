--------------------------- MODULE BuildChangeset ---------------------------
(***************************************************************************)
(* build_changeset (src/src/matching/changeset.py): the five matching      *)
(* stages that turn two loaded snapshots into the list of change records.  *)
(*                                                                         *)
(* Ids are natural numbers standing for the rank of an osm_id among the    *)
(* strings, so `sorted` has an order to follow.  Geometry is reduced to    *)
(* what the stages test: iou[<<a, b>>] in hundredths, where 0 stands for   *)
(* "no overlapping area" (_iou is 0 exactly then) and every positive       *)
(* overlap is at least 1.  Attributes are reduced to the set of pairs on   *)
(* which a significant tag differs.                                        *)
(*                                                                         *)
(* The component walk is taken here as one step that returns the           *)
(* components of the graph; ConnectedComponents models and                 *)
(* ConnectedComponentsProofs proves that it does.  Loops over Python sets  *)
(* visit their elements in any order: it changes from process to process.  *)
(***************************************************************************)
EXTENDS CandidateGraph, Integers, Sequences, Functions

CONSTANTS
    FeaturesA, FeaturesB,   \* the ids of the two snapshots
    IouValues,              \* the values iou may take
    MayRetag,               \* the pairs whose significant tags may differ
    T_UNCHANGED_IOU, T_CROSS_ID_MATCH

ASSUME IdsAreRanks == FeaturesA \subseteq Nat /\ FeaturesB \subseteq Nat
ASSUME ThresholdsOrdered ==
    /\ IouValues \subseteq Nat
    /\ T_UNCHANGED_IOU \in Nat /\ T_CROSS_ID_MATCH \in Nat
    /\ 0 < T_CROSS_ID_MATCH /\ T_CROSS_ID_MATCH <= T_UNCHANGED_IOU

VARIABLES
    iou,            \* the input: the overlap of every pair that is measured
    attrs_changed,  \* the input: the pairs whose significant tags differ
    todo,           \* ids the current loop has not reached yet
    groups,         \* components the group loop has not reached yet
    matched_a, matched_b,
    records,
    pc              \* the loop being run: "ids", "groups", "removed", "added", "done"

vars == <<iou, attrs_changed, todo, groups, matched_a, matched_b, records, pc>>
input == <<iou, attrs_changed>>

shared_ids == FeaturesA \cap FeaturesB
only_in_a == FeaturesA \ shared_ids
only_in_b == FeaturesB \ shared_ids

\* The pairs compute_metrics is ever asked about.
Pairs == { <<s, s>> : s \in shared_ids } \cup (only_in_a \X only_in_b)

-----------------------------------------------------------------------------
(* Stage 2: candidacy is overlapping area, not contact. *)

Overlapping(a) == { b \in only_in_b : iou[<<a, b>>] > 0 }

candidates ==
    [a \in { x \in only_in_a : Overlapping(x) # {} } |-> Overlapping(a)]

\* The groups _connected_components returns, both sides of each together.
Groups == Components(candidates)

GroupA(g) == g \cap DOMAIN candidates
GroupB(g) == g \ DOMAIN candidates

-----------------------------------------------------------------------------
(* Stages 3 to 5: the record a pair, a group or a lone feature gets. *)

\* match_score is None: not a score.
NoScore == -1

Classification(p) ==
    LET geometry_changed == iou[p] < T_UNCHANGED_IOU
    IN  IF p \in attrs_changed
        THEN IF geometry_changed THEN "modified_geometry_and_attributes"
                                 ELSE "modified_attributes"
        ELSE IF geometry_changed THEN "modified_geometry" ELSE "unchanged"

\* Operators named Faulty... are seeded faults, each defined before what it
\* replaces in a fault-injection run; nothing else uses them.

\* The two ids of the pair swapped.
FaultyMatched(p, method) ==
    [classification |-> Classification(p), match_method |-> method,
     match_score |-> iou[p], reason |-> "match",
     osm_ids_a |-> {p[2]}, osm_ids_b |-> {p[1]}, pair_metrics |-> {p}]

Matched(p, method) ==
    [classification |-> Classification(p), match_method |-> method,
     match_score |-> iou[p], reason |-> "match",
     osm_ids_a |-> {p[1]}, osm_ids_b |-> {p[2]}, pair_metrics |-> {p}]

Unmatched(classification, reason, as, bs, metrics) ==
    [classification |-> classification, match_method |-> "None",
     match_score |-> NoScore, reason |-> reason,
     osm_ids_a |-> as, osm_ids_b |-> bs, pair_metrics |-> metrics]

Removed(a) == Unmatched("removed", "no_spatial_counterpart", {a}, {}, {})
Added(b) == Unmatched("added", "no_spatial_counterpart", {}, {b}, {})

\* Keeps the best pair of each group only.
FaultyPairMetrics(g) ==
    LET pairs == { p \in GroupA(g) \X GroupB(g) : p[2] \in candidates[p[1]] }
    IN  { p \in pairs : \A q \in pairs : iou[q] <= iou[p] }

\* The pairs of a group that are candidates of one another.
PairMetrics(g) == { p \in GroupA(g) \X GroupB(g) : p[2] \in candidates[p[1]] }

IsSingleton(S) == \E x \in S : S = {x}

\* Stage 4: the record of one group.
Reason(g) ==
    CASE IsSingleton(GroupA(g)) /\ IsSingleton(GroupB(g)) -> "partial_overlap"
      [] IsSingleton(GroupA(g)) /\ ~IsSingleton(GroupB(g)) -> "split_candidate"
      [] ~IsSingleton(GroupA(g)) /\ IsSingleton(GroupB(g)) -> "merge_candidate"
      [] OTHER -> "complex_cluster"

\* Takes a group for resolved when the A side alone is a single feature.
FaultyIsResolved(g) ==
    /\ IsSingleton(GroupA(g))
    /\ \A p \in PairMetrics(g) : iou[p] >= T_CROSS_ID_MATCH

IsResolved(g) ==
    /\ IsSingleton(GroupA(g)) /\ IsSingleton(GroupB(g))
    /\ \A p \in PairMetrics(g) : iou[p] >= T_CROSS_ID_MATCH

Resolve(g) ==
    IF IsResolved(g)
    THEN Matched(CHOOSE p \in PairMetrics(g) : TRUE, "geometry")
    ELSE Unmatched("ambiguous", Reason(g), GroupA(g), GroupB(g), PairMetrics(g))

-----------------------------------------------------------------------------
(* The order of the output: sorted by (osm_ids_a, osm_ids_b). *)

\* Lexicographic order of the sorted tuples of two sets of ids: at the first
\* difference the smaller id comes first, and a proper prefix comes first.
TupleLess(S, T) ==
    \E m \in (S \ T) \cup (T \ S) :
        /\ \A k \in (S \ T) \cup (T \ S) : m <= k
        /\ IF m \in S THEN \E t \in T : t > m ELSE \A s \in S : s < m

\* Sorts by osm_ids_a alone: all `added` records tie.
FaultyRecordLess(r, s) == TupleLess(r.osm_ids_a, s.osm_ids_a)

RecordLess(r, s) ==
    \/ TupleLess(r.osm_ids_a, s.osm_ids_a)
    \/ r.osm_ids_a = s.osm_ids_a /\ TupleLess(r.osm_ids_b, s.osm_ids_b)

\* The lists that hold the records of s in key order (`sorted` is stable, but
\* no two records have the same key, see DeterministicOutput).
Sortings(s) ==
    { [i \in DOMAIN s |-> s[p[i]]] :
        p \in { p \in Bijection(DOMAIN s, DOMAIN s) :
                  \A i, j \in DOMAIN s : i < j => ~RecordLess(s[p[j]], s[p[i]]) } }

-----------------------------------------------------------------------------
Init ==
    /\ iou \in [Pairs -> IouValues]
    /\ attrs_changed \in SUBSET (Pairs \cap MayRetag)
    /\ todo = shared_ids
    /\ groups = {}
    /\ matched_a = {} /\ matched_b = {}
    /\ records = << >>
    /\ pc = "ids"

\* Stage 1: an id present in both snapshots is a match, whatever its geometry.
MatchId(id) ==
    /\ pc = "ids"
    /\ id \in todo
    /\ records' = Append(records, Matched(<<id, id>>, "osm_id"))
    /\ todo' = todo \ {id}
    /\ UNCHANGED <<input, groups, matched_a, matched_b, pc>>

\* generate_candidates and _connected_components.
FindCandidates ==
    /\ pc = "ids"
    /\ todo = {}
    /\ groups' = Groups
    /\ pc' = "groups"
    /\ UNCHANGED <<input, todo, matched_a, matched_b, records>>

ResolveGroup(g) ==
    /\ pc = "groups"
    /\ g \in groups
    /\ matched_a' = matched_a \cup GroupA(g)
    /\ matched_b' = matched_b \cup GroupB(g)
    /\ records' = Append(records, Resolve(g))
    /\ groups' = groups \ {g}
    /\ UNCHANGED <<input, todo, pc>>

\* Reports a feature that was matched as removed too.
FaultyGroupsDone ==
    /\ pc = "groups"
    /\ groups = {}
    /\ todo' = only_in_a
    /\ pc' = "removed"
    /\ UNCHANGED <<input, groups, matched_a, matched_b, records>>

GroupsDone ==
    /\ pc = "groups"
    /\ groups = {}
    /\ todo' = only_in_a \ matched_a
    /\ pc' = "removed"
    /\ UNCHANGED <<input, groups, matched_a, matched_b, records>>

EmitRemoved(a) ==
    /\ pc = "removed"
    /\ a \in todo
    /\ records' = Append(records, Removed(a))
    /\ todo' = todo \ {a}
    /\ UNCHANGED <<input, groups, matched_a, matched_b, pc>>

\* The operands of the set difference swapped.
FaultyRemovedDone ==
    /\ pc = "removed"
    /\ todo = {}
    /\ todo' = matched_b \ only_in_b
    /\ pc' = "added"
    /\ UNCHANGED <<input, groups, matched_a, matched_b, records>>

RemovedDone ==
    /\ pc = "removed"
    /\ todo = {}
    /\ todo' = only_in_b \ matched_b
    /\ pc' = "added"
    /\ UNCHANGED <<input, groups, matched_a, matched_b, records>>

EmitAdded(b) ==
    /\ pc = "added"
    /\ b \in todo
    /\ records' = Append(records, Added(b))
    /\ todo' = todo \ {b}
    /\ UNCHANGED <<input, groups, matched_a, matched_b, pc>>

Return ==
    /\ pc = "added"
    /\ todo = {}
    /\ records' \in Sortings(records)
    /\ pc' = "done"
    /\ UNCHANGED <<input, todo, groups, matched_a, matched_b>>

Next ==
    \/ \E id \in shared_ids : MatchId(id)
    \/ FindCandidates
    \/ \E g \in groups : ResolveGroup(g)
    \/ GroupsDone
    \/ \E a \in only_in_a : EmitRemoved(a)
    \/ RemovedDone
    \/ \E b \in only_in_b : EmitAdded(b)
    \/ Return

Spec == Init /\ [][Next]_vars

-----------------------------------------------------------------------------
Record ==
    [classification : {"unchanged", "modified_geometry", "modified_attributes",
                       "modified_geometry_and_attributes", "added", "removed",
                       "ambiguous"},
     match_method : {"osm_id", "geometry", "None"},
     match_score : IouValues \cup {NoScore},
     reason : {"match", "partial_overlap", "split_candidate", "merge_candidate",
               "complex_cluster", "no_spatial_counterpart"},
     osm_ids_a : SUBSET FeaturesA,
     osm_ids_b : SUBSET FeaturesB,
     pair_metrics : SUBSET Pairs]

TypeOK ==
    /\ iou \in [Pairs -> IouValues]
    /\ attrs_changed \subseteq Pairs
    /\ todo \subseteq FeaturesA \cup FeaturesB
    /\ groups \subseteq Groups
    /\ matched_a \subseteq only_in_a /\ matched_b \subseteq only_in_b
    /\ records \in Seq(Record)
    /\ pc \in {"ids", "groups", "removed", "added", "done"}

\* "every feature in A and B appears in exactly one record" (docstring of
\* build_changeset): never two, at any point of the run ...
NoFeatureTwice ==
    \A i, j \in DOMAIN records : i # j =>
        /\ records[i].osm_ids_a \cap records[j].osm_ids_a = {}
        /\ records[i].osm_ids_b \cap records[j].osm_ids_b = {}

\* ... and none is left out of the returned list.
NoFeatureLost ==
    pc = "done" =>
        /\ FeaturesA = UNION { records[i].osm_ids_a : i \in DOMAIN records }
        /\ FeaturesB = UNION { records[i].osm_ids_b : i \in DOMAIN records }

\* "Ambiguous records retain all candidate pairs" (docs/matching-spec.md,
\* Stage 4): every pair of leftovers that overlaps is kept, with its metrics,
\* in the record that names both features.
NoCandidateLost ==
    pc = "done" =>
        \A p \in only_in_a \X only_in_b : iou[p] > 0 =>
            \E i \in DOMAIN records :
                /\ p \in records[i].pair_metrics
                /\ p[1] \in records[i].osm_ids_a
                /\ p[2] \in records[i].osm_ids_b

\* A leftover feature is only ever matched to another across ids when the two
\* have no rival: nothing else overlaps either of them, and the overlap reaches
\* the threshold ("the highest score is never silently chosen").
MatchesUnrivalled ==
    \A i \in DOMAIN records : records[i].match_method = "geometry" =>
        \A a \in records[i].osm_ids_a, b \in records[i].osm_ids_b :
            /\ iou[<<a, b>>] >= T_CROSS_ID_MATCH
            /\ \A b2 \in only_in_b \ {b} : iou[<<a, b2>>] = 0
            /\ \A a2 \in only_in_a \ {a} : iou[<<a2, b>>] = 0

\* The same two snapshots give the same list in every process, although every
\* loop ran in a hash order of its own: the records are those the input alone
\* determines, and no two have the same sort key.
DeterministicOutput ==
    pc = "done" =>
        /\ Range(records) =
             { Matched(<<s, s>>, "osm_id") : s \in shared_ids }
               \cup { Resolve(g) : g \in Groups }
               \cup { Removed(a) : a \in only_in_a \ Nodes(candidates) }
               \cup { Added(b) : b \in only_in_b \ Nodes(candidates) }
        /\ \A i, j \in DOMAIN records :
             i < j => RecordLess(records[i], records[j])
=============================================================================
