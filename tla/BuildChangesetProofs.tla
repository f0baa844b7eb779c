------------------------ MODULE BuildChangesetProofs ------------------------
(***************************************************************************)
(* Safety of build_changeset for any two snapshots and any overlaps.       *)
(*                                                                         *)
(* "Every feature in exactly one record" is only true of the final list;   *)
(* Progress says, loop by loop, which features the records written so far  *)
(* account for, and that the groups still to be resolved are disjoint from *)
(* those already matched.                                                  *)
(***************************************************************************)
EXTENDS BuildChangeset, CandidateGraphTheorems, FiniteSetTheorems, WellFoundedInduction

CoveredA == UNION { records[i].osm_ids_a : i \in DOMAIN records }
CoveredB == UNION { records[i].osm_ids_b : i \in DOMAIN records }

Progress ==
    /\ pc = "ids" =>
         /\ todo \subseteq shared_ids /\ matched_a = {} /\ matched_b = {}
         /\ CoveredA = shared_ids \ todo /\ CoveredB = shared_ids \ todo
    /\ pc = "groups" =>
         /\ CoveredA = shared_ids \cup matched_a
         /\ CoveredB = shared_ids \cup matched_b
         /\ \A g \in groups : g \cap (matched_a \cup matched_b) = {}
         /\ DOMAIN candidates \subseteq matched_a \cup UNION groups
    /\ pc = "removed" =>
         /\ todo \subseteq only_in_a
         /\ CoveredA = FeaturesA \ todo /\ CoveredB = shared_ids \cup matched_b
    /\ pc = "added" =>
         /\ todo \subseteq only_in_b
         /\ CoveredA = FeaturesA /\ CoveredB = FeaturesB \ todo
    /\ pc = "done" => CoveredA = FeaturesA /\ CoveredB = FeaturesB

\* The candidate pair p is kept in a record that names both its features.
IsKept(p) ==
    \E i \in DOMAIN records :
        /\ p \in records[i].pair_metrics
        /\ p[1] \in records[i].osm_ids_a
        /\ p[2] \in records[i].osm_ids_b

Kept ==
    /\ \A a \in matched_a : \A b \in Overlapping(a) : IsKept(<<a, b>>)
    /\ pc \in {"removed", "added", "done"} => DOMAIN candidates \subseteq matched_a

\* What MatchesUnrivalled asks of one record.
IsUnrivalled(r) ==
    r.match_method = "geometry" =>
        \A a \in r.osm_ids_a, b \in r.osm_ids_b :
            /\ iou[<<a, b>>] >= T_CROSS_ID_MATCH
            /\ \A b2 \in only_in_b \ {b} : iou[<<a, b2>>] = 0
            /\ \A a2 \in only_in_a \ {a} : iou[<<a2, b>>] = 0

IInv ==
    /\ TypeOK
    /\ NoFeatureTwice
    /\ Progress
    /\ Kept
    /\ MatchesUnrivalled

-----------------------------------------------------------------------------
(* The candidate graph and its groups. *)

LEMMA CandidatesShape ==
    /\ candidates \in CandidateGraphs(only_in_a, only_in_b)
    /\ DOMAIN candidates \subseteq only_in_a
    /\ Nodes(candidates) \ DOMAIN candidates \subseteq only_in_b
    /\ \A a \in DOMAIN candidates : candidates[a] = Overlapping(a)
    /\ \A a \in only_in_a : \A b \in Overlapping(a) : a \in DOMAIN candidates
<1> DEFINE K == { x \in only_in_a : Overlapping(x) # {} }
<1>1. \A a \in K : Overlapping(a) \in (SUBSET only_in_b) \ {{}}
    BY DEF Overlapping
<1>2. candidates \in [K -> (SUBSET only_in_b) \ {{}}]
    BY <1>1 DEF candidates
<1>3. candidates \in CandidateGraphs(only_in_a, only_in_b)
    BY <1>2 DEF CandidateGraphs
<1>4. DOMAIN candidates = K /\ \A a \in K : candidates[a] = Overlapping(a)
    BY DEF candidates
<1> QED BY <1>3, <1>4, GraphShape

LEMMA SidesApart == only_in_a \cap only_in_b = {}
BY DEF only_in_a, only_in_b, shared_ids

\* Every group has both sides, splits into them, and is closed.
LEMMA GroupShape ==
    ASSUME NEW g \in Groups
    PROVE  /\ GroupA(g) \subseteq only_in_a /\ GroupB(g) \subseteq only_in_b
           /\ GroupA(g) \subseteq DOMAIN candidates
           /\ GroupA(g) # {} /\ GroupB(g) # {}
           /\ g = GroupA(g) \cup GroupB(g)
           /\ IsClosed(candidates, g)
<1>1. PICK n \in Nodes(candidates) : g = Component(candidates, n)
    BY DEF Groups, Components
<1>2. g \subseteq Nodes(candidates)
    BY <1>1, ComponentBasics
<1>3. g \cap DOMAIN candidates # {} /\ g \ DOMAIN candidates # {}
    BY <1>1, CandidatesShape, SidesApart, ComponentHasBothSides
<1>4. IsClosed(candidates, g)
    BY <1>1, ComponentClosed
<1> QED BY <1>2, <1>3, <1>4, CandidatesShape DEF GroupA, GroupB

LEMMA GroupsDisjoint ==
    ASSUME NEW g \in Groups, NEW h \in Groups, g # h
    PROVE  g \cap h = {}
<1>1. PICK m \in Nodes(candidates) : g = Component(candidates, m)
    BY DEF Groups, Components
<1>2. PICK n \in Nodes(candidates) : h = Component(candidates, n)
    BY DEF Groups, Components
<1> QED BY <1>1, <1>2, SameComponent

LEMMA GroupsCover == DOMAIN candidates \subseteq UNION Groups
BY ComponentBasics DEF Groups, Components, Nodes

\* Inside a group every A-side feature keeps all its candidates, and a B-side
\* feature all the features it is a candidate of.
LEMMA GroupKeepsCandidates ==
    ASSUME NEW g \in Groups, NEW a \in GroupA(g)
    PROVE  /\ Overlapping(a) # {} /\ Overlapping(a) \subseteq GroupB(g)
           /\ \A b \in Overlapping(a) : <<a, b>> \in PairMetrics(g)
<1>1. /\ a \in DOMAIN candidates /\ a \in g
      /\ candidates[a] = Overlapping(a)
    BY GroupShape, CandidatesShape DEF GroupA
<1>2. Overlapping(a) # {}
    BY <1>1 DEF candidates
<1>3. Overlapping(a) \subseteq g
    BY <1>1, GroupShape DEF IsClosed, Neighbours
<1>4. Overlapping(a) \cap DOMAIN candidates = {}
    BY CandidatesShape, SidesApart DEF Overlapping
<1> QED BY <1>1, <1>2, <1>3, <1>4 DEF GroupB, PairMetrics

LEMMA GroupKeepsRivals ==
    ASSUME NEW g \in Groups, NEW b \in GroupB(g), NEW a \in only_in_a,
           b \in Overlapping(a)
    PROVE  a \in GroupA(g)
<1>1. a \in DOMAIN candidates /\ b \in candidates[a]
    BY CandidatesShape
<1>2. a \in Neighbours(candidates, b) /\ b \in g
    BY <1>1 DEF Neighbours, GroupB
<1> QED BY <1>1, <1>2, GroupShape DEF IsClosed, GroupA

-----------------------------------------------------------------------------
(* The records. *)

LEMMA MatchedRecord ==
    ASSUME NEW p \in Pairs, NEW m \in {"osm_id", "geometry"},
           iou \in [Pairs -> IouValues]
    PROVE  Matched(p, m) \in Record
<1>1. p[1] \in FeaturesA /\ p[2] \in FeaturesB
    BY DEF Pairs, shared_ids, only_in_a, only_in_b
<1>2. Classification(p) \in {"unchanged", "modified_geometry",
                "modified_attributes", "modified_geometry_and_attributes"}
    BY DEF Classification
<1> QED BY <1>1, <1>2 DEF Matched, Record

LEMMA RemovedRecord == ASSUME NEW a \in FeaturesA PROVE Removed(a) \in Record
BY DEF Removed, Unmatched, Record

LEMMA AddedRecord == ASSUME NEW b \in FeaturesB PROVE Added(b) \in Record
BY DEF Added, Unmatched, Record

\* A resolved group is one pair: its only A-side and its only B-side feature.
LEMMA ResolvedPair ==
    ASSUME NEW g \in Groups, IsResolved(g)
    PROVE  \E a \in only_in_a, b \in only_in_b :
             /\ GroupA(g) = {a} /\ GroupB(g) = {b}
             /\ PairMetrics(g) = {<<a, b>>}
             /\ Resolve(g) = Matched(<<a, b>>, "geometry")
             /\ iou[<<a, b>>] >= T_CROSS_ID_MATCH
<1>1. PICK a : GroupA(g) = {a}
    BY DEF IsResolved, IsSingleton
<1>2. PICK b : GroupB(g) = {b}
    BY DEF IsResolved, IsSingleton
<1>3. a \in only_in_a /\ b \in only_in_b
    BY <1>1, <1>2, GroupShape
<1>4. <<a, b>> \in PairMetrics(g)
    BY <1>1, <1>2, GroupKeepsCandidates
<1>5. PairMetrics(g) = {<<a, b>>}
    BY <1>1, <1>2, <1>4 DEF PairMetrics
<1>6. (CHOOSE p \in PairMetrics(g) : TRUE) = <<a, b>>
    BY <1>5
<1> QED BY <1>1, <1>2, <1>3, <1>5, <1>6 DEF Resolve, IsResolved

\* The record of a group names exactly the group's features and keeps every
\* candidate pair of it, resolved or not.
LEMMA GroupRecord ==
    ASSUME NEW g \in Groups, iou \in [Pairs -> IouValues]
    PROVE  /\ Resolve(g) \in Record
           /\ Resolve(g).osm_ids_a = GroupA(g)
           /\ Resolve(g).osm_ids_b = GroupB(g)
           /\ Resolve(g).pair_metrics = PairMetrics(g)
<1>1. CASE IsResolved(g)
    <2>1. PICK a \in only_in_a, b \in only_in_b :
             /\ GroupA(g) = {a} /\ GroupB(g) = {b}
             /\ PairMetrics(g) = {<<a, b>>}
             /\ Resolve(g) = Matched(<<a, b>>, "geometry")
        BY <1>1, ResolvedPair
    <2>2. <<a, b>> \in Pairs
        BY DEF Pairs
    <2>3. Matched(<<a, b>>, "geometry") \in Record
        BY <2>2, MatchedRecord
    <2>4. /\ Matched(<<a, b>>, "geometry").osm_ids_a = {a}
          /\ Matched(<<a, b>>, "geometry").osm_ids_b = {b}
          /\ Matched(<<a, b>>, "geometry").pair_metrics = {<<a, b>>}
        BY DEF Matched
    <2> QED BY <2>1, <2>3, <2>4
<1>2. CASE ~IsResolved(g)
    <2>1. Resolve(g) = Unmatched("ambiguous", Reason(g), GroupA(g), GroupB(g),
                                 PairMetrics(g))
        BY <1>2 DEF Resolve
    <2>2. Reason(g) \in {"partial_overlap", "split_candidate",
                         "merge_candidate", "complex_cluster"}
        BY DEF Reason
    <2>3. /\ GroupA(g) \subseteq FeaturesA /\ GroupB(g) \subseteq FeaturesB
          /\ PairMetrics(g) \subseteq Pairs
        BY GroupShape DEF PairMetrics, Pairs, only_in_a, only_in_b
    <2> QED BY <2>1, <2>2, <2>3 DEF Unmatched, Record
<1> QED BY <1>1, <1>2

\* A geometry match has no rival: its group holds everything that overlaps
\* either feature.
LEMMA GroupUnrivalled ==
    ASSUME NEW g \in Groups, iou \in [Pairs -> IouValues]
    PROVE  IsUnrivalled(Resolve(g))
<1> SUFFICES ASSUME Resolve(g).match_method = "geometry",
                    NEW a \in Resolve(g).osm_ids_a, NEW b \in Resolve(g).osm_ids_b
             PROVE  /\ iou[<<a, b>>] >= T_CROSS_ID_MATCH
                    /\ \A b2 \in only_in_b \ {b} : iou[<<a, b2>>] = 0
                    /\ \A a2 \in only_in_a \ {a} : iou[<<a2, b>>] = 0
    BY DEF IsUnrivalled
<1>1. IsResolved(g)
    BY DEF Resolve, Unmatched
<1>2. /\ GroupA(g) = {a} /\ GroupB(g) = {b}
      /\ iou[<<a, b>>] >= T_CROSS_ID_MATCH
    <2>1. PICK x \in only_in_a, y \in only_in_b :
            /\ GroupA(g) = {x} /\ GroupB(g) = {y}
            /\ iou[<<x, y>>] >= T_CROSS_ID_MATCH
        BY <1>1, ResolvedPair
    <2>2. a = x /\ b = y
        BY <2>1, GroupRecord
    <2> QED BY <2>1, <2>2
<1>3. \A x \in only_in_a, y \in only_in_b :
        iou[<<x, y>>] # 0 => y \in Overlapping(x)
    <2> SUFFICES ASSUME NEW x \in only_in_a, NEW y \in only_in_b, iou[<<x, y>>] # 0
                 PROVE  iou[<<x, y>>] > 0
        BY DEF Overlapping
    <2>1. iou[<<x, y>>] \in Nat
        BY ThresholdsOrdered DEF Pairs
    <2> QED BY <2>1
<1>4. a \in only_in_a /\ b \in only_in_b
    BY <1>2, GroupShape
<1>5. \A b2 \in only_in_b \ {b} : iou[<<a, b2>>] = 0
    BY <1>2, <1>3, <1>4, GroupKeepsCandidates
<1>6. \A a2 \in only_in_a \ {a} : iou[<<a2, b>>] = 0
    BY <1>2, <1>3, <1>4, GroupKeepsRivals
<1> QED BY <1>2, <1>5, <1>6

-----------------------------------------------------------------------------
(* What writing one more record does to the list. *)

LEMMA AppendRecord ==
    ASSUME NEW r \in Record, records \in Seq(Record), records' = Append(records, r),
           NoFeatureTwice,
           r.osm_ids_a \cap CoveredA = {}, r.osm_ids_b \cap CoveredB = {}
    PROVE  /\ records' \in Seq(Record)
           /\ NoFeatureTwice'
           /\ CoveredA' = CoveredA \cup r.osm_ids_a
           /\ CoveredB' = CoveredB \cup r.osm_ids_b
           /\ \A p : IsKept(p) => IsKept(p)'
           /\ \A p : p \in r.pair_metrics /\ p[1] \in r.osm_ids_a
                        /\ p[2] \in r.osm_ids_b => IsKept(p)'
<1>1. PICK last :
        /\ DOMAIN records' = DOMAIN records \cup {last}
        /\ last \notin DOMAIN records
        /\ \A i \in DOMAIN records : records'[i] = records[i]
        /\ records'[last] = r
    BY AppendIndices
<1>2. records' \in Seq(Record)
    BY AppendProperties
<1>3. NoFeatureTwice'
    <2>1. \A i \in DOMAIN records :
            /\ records[i].osm_ids_a \cap r.osm_ids_a = {}
            /\ records[i].osm_ids_b \cap r.osm_ids_b = {}
        BY DEF CoveredA, CoveredB
    <2> QED BY <1>1, <2>1 DEF NoFeatureTwice
<1>4. CoveredA' = CoveredA \cup r.osm_ids_a
    BY <1>1 DEF CoveredA
<1>5. CoveredB' = CoveredB \cup r.osm_ids_b
    BY <1>1 DEF CoveredB
<1>6. \A p : IsKept(p) => IsKept(p)'
    BY <1>1 DEF IsKept
<1>7. \A p : p \in r.pair_metrics /\ p[1] \in r.osm_ids_a
                /\ p[2] \in r.osm_ids_b => IsKept(p)'
    BY <1>1 DEF IsKept
<1> QED BY <1>2, <1>3, <1>4, <1>5, <1>6, <1>7

LEMMA UnrivalledNext ==
    ASSUME iou' = iou, \A i \in DOMAIN records' : IsUnrivalled(records'[i])
    PROVE  MatchesUnrivalled'
BY DEF MatchesUnrivalled, IsUnrivalled

\* A new record leaves MatchesUnrivalled alone unless it is itself a match
\* across ids.
LEMMA AppendUnrivalled ==
    ASSUME NEW r \in Record, records \in Seq(Record), records' = Append(records, r),
           iou' = iou, MatchesUnrivalled, IsUnrivalled(r)
    PROVE  MatchesUnrivalled'
<1>1. \A i \in DOMAIN records' :
        records'[i] = r \/ \E j \in DOMAIN records : records'[i] = records[j]
    BY AppendIndices
<1>2. \A j \in DOMAIN records : IsUnrivalled(records[j])
    BY DEF MatchesUnrivalled, IsUnrivalled
<1>3. \A i \in DOMAIN records' : IsUnrivalled(records'[i])
    BY <1>1, <1>2
<1> QED BY <1>3, UnrivalledNext

-----------------------------------------------------------------------------
(* The steps. *)

LEMMA InitInv == Init => IInv
<1> SUFFICES ASSUME Init PROVE IInv
    OBVIOUS
<1>1. TypeOK
    BY DEF Init, TypeOK, shared_ids
<1>2. CoveredA = {} /\ CoveredB = {}
    BY DEF Init, CoveredA, CoveredB
<1>3. Progress
    BY <1>2 DEF Init, Progress
<1> QED BY <1>1, <1>3 DEF Init, IInv, NoFeatureTwice, Kept, MatchesUnrivalled

\* Everything computed from the input stays as it was.
LEMMA SameInput ==
    ASSUME UNCHANGED input
    PROVE  /\ iou' = iou /\ attrs_changed' = attrs_changed
           /\ candidates' = candidates /\ Groups' = Groups
           /\ \A a : Overlapping(a)' = Overlapping(a)
BY DEF input, candidates, Groups, Overlapping

LEMMA MatchIdInv ==
    ASSUME IInv, NEW id \in shared_ids, MatchId(id)
    PROVE  IInv'
<1> DEFINE r == Matched(<<id, id>>, "osm_id")
<1>1. <<id, id>> \in Pairs
    BY DEF Pairs
<1>2. r \in Record
    BY <1>1, MatchedRecord DEF IInv, TypeOK
<1>3. /\ r.osm_ids_a = {id} /\ r.osm_ids_b = {id} /\ r.match_method = "osm_id"
    BY DEF Matched
<1>4. IsUnrivalled(r)
    BY <1>3 DEF IsUnrivalled
<1>5. id \notin CoveredA /\ id \notin CoveredB
    BY DEF IInv, Progress, MatchId
<1> HIDE DEF r
<1>6. records' = Append(records, r)
    BY DEF MatchId, r
<1>7. /\ records' \in Seq(Record) /\ NoFeatureTwice'
      /\ CoveredA' = CoveredA \cup {id} /\ CoveredB' = CoveredB \cup {id}
    BY <1>2, <1>3, <1>5, <1>6, AppendRecord DEF IInv, TypeOK
<1>8. MatchesUnrivalled'
    BY <1>2, <1>4, <1>6, AppendUnrivalled DEF IInv, TypeOK, MatchId, input
<1>9. TypeOK'
    BY <1>7, SameInput DEF IInv, TypeOK, MatchId
<1>10. Progress'
    BY <1>7 DEF IInv, Progress, MatchId
<1>11. Kept'
    BY DEF IInv, Progress, Kept, MatchId
<1> QED BY <1>7, <1>8, <1>9, <1>10, <1>11 DEF IInv

\* A step that only moves on to the next loop writes no record.
LEMMA NoRecord ==
    ASSUME IInv, UNCHANGED <<input, matched_a, matched_b, records>>
    PROVE  /\ NoFeatureTwice' /\ MatchesUnrivalled'
           /\ CoveredA' = CoveredA /\ CoveredB' = CoveredB
           /\ \A p : IsKept(p)' = IsKept(p)
BY SameInput DEF IInv, NoFeatureTwice, MatchesUnrivalled, CoveredA, CoveredB, IsKept

LEMMA FindCandidatesInv == ASSUME IInv, FindCandidates PROVE IInv'
<1>1. /\ NoFeatureTwice' /\ MatchesUnrivalled'
      /\ CoveredA' = CoveredA /\ CoveredB' = CoveredB
    BY NoRecord DEF FindCandidates
<1>2. TypeOK'
    BY SameInput DEF IInv, TypeOK, FindCandidates
<1>3. Progress'
    BY <1>1, SameInput, GroupsCover DEF IInv, Progress, FindCandidates
<1>4. Kept'
    BY SameInput DEF IInv, Progress, Kept, FindCandidates
<1> QED BY <1>1, <1>2, <1>3, <1>4 DEF IInv

LEMMA ResolveGroupInv ==
    ASSUME IInv, NEW g \in groups, ResolveGroup(g)
    PROVE  IInv'
<1> DEFINE r == Resolve(g)
<1>1. g \in Groups /\ groups \subseteq Groups /\ iou \in [Pairs -> IouValues]
    BY DEF IInv, TypeOK
<1>2. /\ r \in Record
      /\ r.osm_ids_a = GroupA(g) /\ r.osm_ids_b = GroupB(g)
      /\ r.pair_metrics = PairMetrics(g)
    BY <1>1, GroupRecord
<1>3. IsUnrivalled(r)
    BY <1>1, GroupUnrivalled
<1>4. /\ GroupA(g) \subseteq only_in_a /\ GroupB(g) \subseteq only_in_b
      /\ g = GroupA(g) \cup GroupB(g)
    BY <1>1, GroupShape
<1>5. GroupA(g) \cap CoveredA = {} /\ GroupB(g) \cap CoveredB = {}
    BY <1>4 DEF IInv, Progress, ResolveGroup, only_in_a, only_in_b
<1> HIDE DEF r
<1>6. records' = Append(records, r)
    BY DEF ResolveGroup, r
<1>7. /\ records' \in Seq(Record) /\ NoFeatureTwice'
      /\ CoveredA' = CoveredA \cup GroupA(g)
      /\ CoveredB' = CoveredB \cup GroupB(g)
      /\ \A p : IsKept(p) => IsKept(p)'
      /\ \A p : p \in PairMetrics(g) /\ p[1] \in GroupA(g) /\ p[2] \in GroupB(g)
                  => IsKept(p)'
    BY <1>2, <1>5, <1>6, AppendRecord DEF IInv, TypeOK
<1>8. MatchesUnrivalled'
    BY <1>2, <1>3, <1>6, AppendUnrivalled DEF IInv, TypeOK, ResolveGroup, input
<1>9. TypeOK'
    BY <1>4, <1>7, SameInput DEF IInv, TypeOK, ResolveGroup
<1>10. Progress'
    <2>1. \A h \in groups \ {g} : h \cap (matched_a \cup matched_b \cup g) = {}
        BY <1>1, GroupsDisjoint DEF IInv, Progress, ResolveGroup
    <2>2. \A h \in groups' : h \cap (matched_a' \cup matched_b') = {}
        BY <2>1, <1>4 DEF ResolveGroup
    <2>3. DOMAIN candidates \subseteq matched_a' \cup UNION groups'
        BY <1>1, <1>4, CandidatesShape, SidesApart
        DEF IInv, Progress, ResolveGroup
    <2>4. candidates' = candidates
        BY SameInput DEF ResolveGroup
    <2> QED BY <2>2, <2>3, <2>4, <1>7 DEF IInv, Progress, ResolveGroup
<1>11. Kept'
    <2>1. ASSUME NEW a \in GroupA(g), NEW b \in Overlapping(a)
          PROVE  IsKept(<<a, b>>)'
        BY <2>1, <1>1, <1>7, GroupKeepsCandidates
    <2>2. ASSUME NEW a \in matched_a, NEW b \in Overlapping(a)
          PROVE  IsKept(<<a, b>>)'
        BY <2>2, <1>7 DEF IInv, Kept
    <2>3. \A a : Overlapping(a)' = Overlapping(a)
        BY SameInput DEF ResolveGroup
    <2> QED BY <2>1, <2>2, <2>3 DEF Kept, ResolveGroup
<1> QED BY <1>7, <1>8, <1>9, <1>10, <1>11 DEF IInv

LEMMA GroupsDoneInv == ASSUME IInv, GroupsDone PROVE IInv'
<1>1. /\ NoFeatureTwice' /\ MatchesUnrivalled'
      /\ CoveredA' = CoveredA /\ CoveredB' = CoveredB
      /\ \A p : IsKept(p)' = IsKept(p)
    BY NoRecord DEF GroupsDone
<1>2. TypeOK'
    BY SameInput DEF IInv, TypeOK, GroupsDone, only_in_a
<1>3. Progress'
    BY <1>1 DEF IInv, TypeOK, Progress, GroupsDone, only_in_a, shared_ids
<1>4. Kept'
    <2>1. DOMAIN candidates \subseteq matched_a
        BY DEF IInv, Progress, GroupsDone
    <2> QED BY <1>1, <2>1, SameInput DEF IInv, Kept, GroupsDone
<1> QED BY <1>1, <1>2, <1>3, <1>4 DEF IInv

LEMMA RemovedDoneInv == ASSUME IInv, RemovedDone PROVE IInv'
<1>1. /\ NoFeatureTwice' /\ MatchesUnrivalled'
      /\ CoveredA' = CoveredA /\ CoveredB' = CoveredB
      /\ \A p : IsKept(p)' = IsKept(p)
    BY NoRecord DEF RemovedDone
<1>2. TypeOK'
    BY SameInput DEF IInv, TypeOK, RemovedDone, only_in_b
<1>3. Progress'
    BY <1>1 DEF IInv, TypeOK, Progress, RemovedDone, only_in_b, shared_ids
<1>4. Kept'
    BY <1>1, SameInput DEF IInv, Kept, RemovedDone
<1> QED BY <1>1, <1>2, <1>3, <1>4 DEF IInv

LEMMA EmitRemovedInv ==
    ASSUME IInv, NEW a \in only_in_a, EmitRemoved(a)
    PROVE  IInv'
<1> DEFINE r == Removed(a)
<1>1. r \in Record
    BY RemovedRecord DEF only_in_a
<1>2. /\ r.osm_ids_a = {a} /\ r.osm_ids_b = {} /\ r.match_method = "None"
    BY DEF Removed, Unmatched
<1>3. IsUnrivalled(r)
    BY <1>2 DEF IsUnrivalled
<1>4. a \notin CoveredA
    BY DEF IInv, Progress, EmitRemoved
<1> HIDE DEF r
<1>5. records' = Append(records, r)
    BY DEF EmitRemoved, r
<1>6. /\ records' \in Seq(Record) /\ NoFeatureTwice'
      /\ CoveredA' = CoveredA \cup {a} /\ CoveredB' = CoveredB
      /\ \A p : IsKept(p) => IsKept(p)'
    BY <1>1, <1>2, <1>4, <1>5, AppendRecord DEF IInv, TypeOK
<1>7. MatchesUnrivalled'
    BY <1>1, <1>3, <1>5, AppendUnrivalled DEF IInv, TypeOK, EmitRemoved, input
<1>8. TypeOK'
    BY <1>6, SameInput DEF IInv, TypeOK, EmitRemoved
<1>9. Progress'
    BY <1>6 DEF IInv, Progress, EmitRemoved, only_in_a
<1>10. Kept'
    BY <1>6, SameInput DEF IInv, Kept, EmitRemoved
<1> QED BY <1>6, <1>7, <1>8, <1>9, <1>10 DEF IInv

LEMMA EmitAddedInv ==
    ASSUME IInv, NEW b \in only_in_b, EmitAdded(b)
    PROVE  IInv'
<1> DEFINE r == Added(b)
<1>1. r \in Record
    BY AddedRecord DEF only_in_b
<1>2. /\ r.osm_ids_a = {} /\ r.osm_ids_b = {b} /\ r.match_method = "None"
    BY DEF Added, Unmatched
<1>3. IsUnrivalled(r)
    BY <1>2 DEF IsUnrivalled
<1>4. b \notin CoveredB
    BY DEF IInv, Progress, EmitAdded
<1> HIDE DEF r
<1>5. records' = Append(records, r)
    BY DEF EmitAdded, r
<1>6. /\ records' \in Seq(Record) /\ NoFeatureTwice'
      /\ CoveredA' = CoveredA /\ CoveredB' = CoveredB \cup {b}
      /\ \A p : IsKept(p) => IsKept(p)'
    BY <1>1, <1>2, <1>4, <1>5, AppendRecord DEF IInv, TypeOK
<1>7. MatchesUnrivalled'
    BY <1>1, <1>3, <1>5, AppendUnrivalled DEF IInv, TypeOK, EmitAdded, input
<1>8. TypeOK'
    BY <1>6, SameInput DEF IInv, TypeOK, EmitAdded
<1>9. Progress'
    BY <1>6 DEF IInv, Progress, EmitAdded, only_in_b
<1>10. Kept'
    BY <1>6, SameInput DEF IInv, Kept, EmitAdded
<1> QED BY <1>6, <1>7, <1>8, <1>9, <1>10 DEF IInv

\* Sorting permutes the list: what is said of all records, or of any two
\* different ones, still holds.
LEMMA ReturnInv == ASSUME IInv, Return PROVE IInv'
<1>1. PICK p \in Bijection(DOMAIN records, DOMAIN records) :
        records' = [i \in DOMAIN records |-> records[p[i]]]
    BY DEF Return, Sortings
<1>2. /\ p \in [DOMAIN records -> DOMAIN records]
      /\ \A i \in DOMAIN records : \E j \in DOMAIN records : p[j] = i
      /\ \A i, j \in DOMAIN records : i # j => p[i] # p[j]
    BY <1>1 DEF Bijection, Injection, Surjection, IsInjective
<1>3. /\ DOMAIN records' = DOMAIN records
      /\ \A i \in DOMAIN records : records'[i] = records[p[i]]
    BY <1>1
<1>4. records' \in Seq(Record)
    <2>1. /\ DOMAIN records = 1..Len(records) /\ Len(records) \in Nat
          /\ \A i \in DOMAIN records : records[i] \in Record
        BY LenProperties, ElementOfSeq DEF IInv, TypeOK
    <2>2. \A i \in 1..Len(records) : records[p[i]] \in Record
        BY <1>2, <2>1
    <2>3. [i \in 1..Len(records) |-> records[p[i]]] \in Seq(Record)
        BY <2>1, <2>2, IsASeq
    <2> QED BY <1>1, <2>1, <2>3
<1>5. NoFeatureTwice'
    BY <1>2, <1>3 DEF IInv, NoFeatureTwice
<1>6. CoveredA' = CoveredA /\ CoveredB' = CoveredB
    BY <1>2, <1>3 DEF CoveredA, CoveredB
<1>7. MatchesUnrivalled'
    <2>1. \A j \in DOMAIN records : IsUnrivalled(records[j])
        BY DEF IInv, MatchesUnrivalled, IsUnrivalled
    <2>2. \A i \in DOMAIN records' : IsUnrivalled(records'[i])
        BY <2>1, <1>2, <1>3
    <2>3. iou' = iou
        BY DEF Return, input
    <2> QED BY <2>2, <2>3, UnrivalledNext
<1>8. TypeOK'
    BY <1>4, SameInput DEF IInv, TypeOK, Return
<1>9. Progress'
    BY <1>6 DEF IInv, Progress, Return
<1>10. Kept'
    <2>1. \A q : IsKept(q) => IsKept(q)'
        BY <1>2, <1>3 DEF IsKept
    <2> QED BY <2>1, SameInput DEF IInv, Kept, Return
<1> QED BY <1>5, <1>7, <1>8, <1>9, <1>10 DEF IInv


LEMMA StepInv == IInv /\ [Next]_vars => IInv'
<1> SUFFICES ASSUME IInv, [Next]_vars PROVE IInv'
    OBVIOUS
<1>1. CASE \E id \in shared_ids : MatchId(id)
    BY <1>1, MatchIdInv
<1>2. CASE FindCandidates
    BY <1>2, FindCandidatesInv
<1>3. CASE \E g \in groups : ResolveGroup(g)
    BY <1>3, ResolveGroupInv
<1>4. CASE GroupsDone
    BY <1>4, GroupsDoneInv
<1>5. CASE \E a \in only_in_a : EmitRemoved(a)
    BY <1>5, EmitRemovedInv
<1>6. CASE RemovedDone
    BY <1>6, RemovedDoneInv
<1>7. CASE \E b \in only_in_b : EmitAdded(b)
    BY <1>7, EmitAddedInv
<1>8. CASE Return
    BY <1>8, ReturnInv
<1>9. CASE UNCHANGED vars
    <2>1. UNCHANGED <<input, matched_a, matched_b, records, todo, groups, pc>>
        BY <1>9 DEF vars, input
    <2>2. /\ NoFeatureTwice' /\ MatchesUnrivalled'
          /\ CoveredA' = CoveredA /\ CoveredB' = CoveredB
          /\ \A p : IsKept(p)' = IsKept(p)
        BY <2>1, NoRecord
    <2>3. TypeOK'
        BY <2>1, SameInput DEF IInv, TypeOK
    <2>4. Progress'
        BY <2>1, <2>2, SameInput DEF IInv, Progress
    <2>5. Kept'
        BY <2>1, <2>2, SameInput DEF IInv, Kept
    <2> QED BY <2>2, <2>3, <2>4, <2>5 DEF IInv
<1> QED BY <1>1, <1>2, <1>3, <1>4, <1>5, <1>6, <1>7, <1>8, <1>9 DEF Next

LEMMA Invariance == Spec => []IInv
BY InitInv, StepInv, PTL DEF Spec

-----------------------------------------------------------------------------
(* The order of the list, and what is in it.  A set of ids has a least one, *)
(* so the order of sorted tuples is total, and a list sorted by it has its  *)
(* keys in strict order as soon as no two are the same.                     *)

\* Of the initial segments of Nat that end in S, one has no smaller one below it.
LEMMA LeastOf ==
    ASSUME NEW S \in SUBSET Nat, S # {}
    PROVE  \E m \in S : \A k \in S : m <= k
<1> DEFINE T == { 0..k : k \in S }
           R == StrictSubsetOrdering(Nat)
<1>1. \A k \in S : IsFiniteSet(0..k) /\ 0..k \in SUBSET Nat
    BY FS_Interval
<1>2. T \subseteq FiniteSubsetsOf(Nat) /\ T # {}
    BY <1>1 DEF FiniteSubsetsOf
<1>3. IsWellFoundedOn(R, FiniteSubsetsOf(Nat))
    BY FS_StrictSubsetOrderingWellFounded
<1>4. PICK t \in T : \A u \in T : <<u, t>> \notin R
    <2> HIDE DEF T, R
    <2> QED BY <1>2, <1>3, WFMin
<1>5. PICK m \in S : t = 0..m
    BY <1>4
<1>6. ASSUME NEW k \in S, k < m PROVE FALSE
    <2>1. 0..k \subseteq 0..m /\ m \in 0..m /\ m \notin 0..k
        BY <1>6
    <2>2. 0..k \in SUBSET Nat /\ 0..m \in SUBSET Nat /\ 0..k # 0..m
        BY <2>1
    <2>3. <<0..k, 0..m>> \in R
        BY <2>1, <2>2 DEF StrictSubsetOrdering
    <2> QED BY <1>4, <1>5, <2>3
<1> QED BY <1>6

LEMMA TupleLessTotal ==
    ASSUME NEW S \in SUBSET Nat, NEW T \in SUBSET Nat, S # T
    PROVE  TupleLess(S, T) \/ TupleLess(T, S)
<1> DEFINE D == (S \ T) \cup (T \ S)
<1>1. D \in SUBSET Nat /\ D # {} /\ D = (T \ S) \cup (S \ T)
    OBVIOUS
<1>2. PICK m \in D : \A k \in D : m <= k
    <2> HIDE DEF D
    <2> QED BY <1>1, LeastOf
<1>3. CASE m \in S
    <2>1. m \notin T
        BY <1>3
    <2>2. CASE \E t \in T : t > m
        BY <1>2, <1>3, <2>2 DEF TupleLess
    <2>3. CASE ~ \E t \in T : t > m
        <3>1. \A t \in T : t < m
            BY <2>1, <2>3
        <3> QED BY <1>1, <1>2, <2>1, <3>1 DEF TupleLess
    <2> QED BY <2>2, <2>3
<1>4. CASE m \notin S
    <2>1. m \in T
        BY <1>4
    <2>2. CASE \E s \in S : s > m
        BY <1>1, <1>2, <2>1, <2>2 DEF TupleLess
    <2>3. CASE ~ \E s \in S : s > m
        <3>1. \A s \in S : s < m
            BY <1>4, <2>3
        <3> QED BY <1>2, <1>4, <3>1 DEF TupleLess
    <2> QED BY <2>2, <2>3
<1> QED BY <1>3, <1>4

LEMMA RecordLessTotal ==
    ASSUME NEW r \in Record, NEW s \in Record,
           r.osm_ids_a # s.osm_ids_a \/ r.osm_ids_b # s.osm_ids_b
    PROVE  RecordLess(r, s) \/ RecordLess(s, r)
<1>1. /\ r.osm_ids_a \in SUBSET Nat /\ s.osm_ids_a \in SUBSET Nat
      /\ r.osm_ids_b \in SUBSET Nat /\ s.osm_ids_b \in SUBSET Nat
    BY IdsAreRanks DEF Record
<1> QED BY <1>1, TupleLessTotal DEF RecordLess

Written == { records[i] : i \in DOMAIN records }
IdMatches(S) == { Matched(<<id, id>>, "osm_id") : id \in S }
Resolutions(G) == { Resolve(g) : g \in G }
LoneA == only_in_a \ Nodes(candidates)
LoneB == only_in_b \ Nodes(candidates)

\* Loop by loop, the records written so far as a set: which feature or group of
\* the input each of them is for leaves no choice of what it says.
Determined ==
    /\ pc = "ids" => groups = {} /\ Written = IdMatches(shared_ids \ todo)
    /\ pc = "groups" =>
         /\ matched_a = UNION { GroupA(g) : g \in Groups \ groups }
         /\ matched_b = UNION { GroupB(g) : g \in Groups \ groups }
         /\ Written = IdMatches(shared_ids) \cup Resolutions(Groups \ groups)
    /\ pc = "removed" =>
         /\ todo \subseteq LoneA /\ matched_b = Nodes(candidates) \ DOMAIN candidates
         /\ Written = IdMatches(shared_ids) \cup Resolutions(Groups)
                        \cup { Removed(a) : a \in LoneA \ todo }
    /\ pc = "added" =>
         /\ todo \subseteq LoneB
         /\ Written = IdMatches(shared_ids) \cup Resolutions(Groups)
                        \cup { Removed(a) : a \in LoneA }
                        \cup { Added(b) : b \in LoneB \ todo }
    /\ pc = "done" =>
         /\ Written = IdMatches(shared_ids) \cup Resolutions(Groups)
                        \cup { Removed(a) : a \in LoneA }
                        \cup { Added(b) : b \in LoneB }
         /\ \A i, j \in DOMAIN records : i < j => RecordLess(records[i], records[j])

LEMMA AllGroups ==
    /\ UNION { GroupA(g) : g \in Groups } = DOMAIN candidates
    /\ UNION { GroupB(g) : g \in Groups } = Nodes(candidates) \ DOMAIN candidates
<1>1. \A g \in Groups : g \subseteq Nodes(candidates)
    BY ComponentBasics DEF Groups, Components
<1>2. \A n \in Nodes(candidates) : \E g \in Groups : n \in g
    BY ComponentBasics DEF Groups, Components
<1>3. UNION { GroupA(g) : g \in Groups } \subseteq DOMAIN candidates
    BY DEF GroupA
<1>4. DOMAIN candidates \subseteq UNION { GroupA(g) : g \in Groups }
    <2> SUFFICES ASSUME NEW n \in DOMAIN candidates
                 PROVE  \E g \in Groups : n \in GroupA(g)
        OBVIOUS
    <2> QED BY <1>2 DEF GroupA, Nodes
<1>5. UNION { GroupB(g) : g \in Groups } \subseteq Nodes(candidates) \ DOMAIN candidates
    BY <1>1 DEF GroupB
<1>6. Nodes(candidates) \ DOMAIN candidates \subseteq UNION { GroupB(g) : g \in Groups }
    <2> SUFFICES ASSUME NEW n \in Nodes(candidates) \ DOMAIN candidates
                 PROVE  \E g \in Groups : n \in GroupB(g)
        OBVIOUS
    <2> QED BY <1>2 DEF GroupB
<1> QED BY <1>3, <1>4, <1>5, <1>6

LEMMA LoneFeatures ==
    /\ LoneA = only_in_a \ DOMAIN candidates
    /\ LoneB = only_in_b \ (Nodes(candidates) \ DOMAIN candidates)
BY CandidatesShape, SidesApart DEF LoneA, LoneB, Nodes

\* No record depends on anything but the input.
LEMMA SameRecords ==
    ASSUME UNCHANGED input
    PROVE  /\ Groups' = Groups /\ LoneA' = LoneA /\ LoneB' = LoneB
           /\ Nodes(candidates)' = Nodes(candidates) /\ candidates' = candidates
           /\ \A g : /\ Resolve(g)' = Resolve(g)
                     /\ GroupA(g)' = GroupA(g) /\ GroupB(g)' = GroupB(g)
           /\ \A S : IdMatches(S)' = IdMatches(S)
           /\ \A G : Resolutions(G)' = Resolutions(G)
<1>1. iou' = iou /\ attrs_changed' = attrs_changed /\ candidates' = candidates
      /\ Groups' = Groups
    BY SameInput
<1>2. /\ Nodes(candidates)' = Nodes(candidates) /\ LoneA' = LoneA /\ LoneB' = LoneB
    BY <1>1 DEF LoneA, LoneB, Nodes
<1>3. \A g : GroupA(g)' = GroupA(g) /\ GroupB(g)' = GroupB(g)
    BY <1>1 DEF GroupA, GroupB
<1>4. \A g : PairMetrics(g)' = PairMetrics(g)
    BY <1>1, <1>3 DEF PairMetrics
<1>5. \A p, m : Matched(p, m)' = Matched(p, m)
    BY <1>1 DEF Matched, Classification
<1>6. \A g : Reason(g)' = Reason(g) /\ (IsResolved(g)' <=> IsResolved(g))
    BY <1>1, <1>3, <1>4 DEF Reason, IsResolved
<1>7. \A g : Resolve(g)' = Resolve(g)
    <2> TAKE g
    <2>1. CASE IsResolved(g)
        <3>1. PICK q : q = CHOOSE p \in PairMetrics(g) : TRUE
            OBVIOUS
        <3>2. (CHOOSE p \in PairMetrics(g) : TRUE)' = q
            BY <1>4, <3>1, Zenon
        <3>3. Resolve(g) = Matched(q, "geometry")
            BY <2>1, <3>1 DEF Resolve
        <3>4. Resolve(g)' = Matched(q, "geometry")'
            BY <1>6, <2>1, <3>2 DEF Resolve, Matched, Classification
        <3> QED BY <1>5, <3>3, <3>4
    <2>2. CASE ~IsResolved(g)
        BY <1>3, <1>4, <1>6, <2>2 DEF Resolve
    <2> QED BY <2>1, <2>2
<1> QED BY <1>1, <1>2, <1>3, <1>5, <1>7 DEF IdMatches, Resolutions

LEMMA WrittenAppend ==
    ASSUME NEW r \in Record, records \in Seq(Record), records' = Append(records, r)
    PROVE  Written' = Written \cup {r}
<1>1. PICK last :
        /\ DOMAIN records' = DOMAIN records \cup {last}
        /\ last \notin DOMAIN records
        /\ \A i \in DOMAIN records : records'[i] = records[i]
        /\ records'[last] = r
    BY AppendIndices
<1> QED BY <1>1 DEF Written

\* Every record names a feature, so no two have the same key.
LEMMA KeysDiffer ==
    ASSUME IInv, Determined, pc = "added", todo = {},
           NEW i \in DOMAIN records, NEW j \in DOMAIN records, i # j
    PROVE  \/ records[i].osm_ids_a # records[j].osm_ids_a
           \/ records[i].osm_ids_b # records[j].osm_ids_b
<1>1. records[i].osm_ids_a # {} \/ records[i].osm_ids_b # {}
    <2>1. records[i] \in IdMatches(shared_ids) \cup Resolutions(Groups)
                           \cup { Removed(a) : a \in LoneA } \cup { Added(b) : b \in LoneB }
        BY DEF Determined, Written
    <2>2. CASE records[i] \in IdMatches(shared_ids)
        <3>1. PICK id \in shared_ids : records[i] = Matched(<<id, id>>, "osm_id")
            BY <2>2 DEF IdMatches
        <3> QED BY <3>1 DEF Matched
    <2>3. CASE records[i] \in Resolutions(Groups)
        <3>1. PICK g \in Groups : records[i] = Resolve(g)
            BY <2>3 DEF Resolutions
        <3> QED BY <3>1, GroupRecord, GroupShape DEF IInv, TypeOK
    <2>4. CASE records[i] \in { Removed(a) : a \in LoneA }
        BY <2>4 DEF Removed, Unmatched
    <2>5. CASE records[i] \in { Added(b) : b \in LoneB }
        BY <2>5 DEF Added, Unmatched
    <2> QED BY <2>1, <2>2, <2>3, <2>4, <2>5
<1> QED BY <1>1 DEF IInv, NoFeatureTwice

LEMMA ReturnDetermined == ASSUME IInv, Determined, Return PROVE Determined'
<1>1. PICK p \in Bijection(DOMAIN records, DOMAIN records) :
        /\ records' = [i \in DOMAIN records |-> records[p[i]]]
        /\ \A i, j \in DOMAIN records : i < j => ~RecordLess(records[p[j]], records[p[i]])
    BY DEF Return, Sortings
<1>2. /\ p \in [DOMAIN records -> DOMAIN records]
      /\ \A i \in DOMAIN records : \E j \in DOMAIN records : p[j] = i
      /\ \A i, j \in DOMAIN records : i # j => p[i] # p[j]
    BY <1>1 DEF Bijection, Injection, Surjection, IsInjective
<1>3. /\ DOMAIN records' = DOMAIN records
      /\ \A i \in DOMAIN records : records'[i] = records[p[i]]
    BY <1>1
<1>4. Written' = Written
    BY <1>2, <1>3 DEF Written
<1>5. DOMAIN records \subseteq Nat /\ \A i \in DOMAIN records : records[i] \in Record
    BY LenProperties, ElementOfSeq DEF IInv, TypeOK
<1>6. ASSUME NEW i \in DOMAIN records, NEW j \in DOMAIN records, i < j
      PROVE  RecordLess(records[p[i]], records[p[j]])
    <2>1. p[i] \in DOMAIN records /\ p[j] \in DOMAIN records /\ p[i] # p[j]
        BY <1>2, <1>5, <1>6
    <2>2. \/ records[p[i]].osm_ids_a # records[p[j]].osm_ids_a
          \/ records[p[i]].osm_ids_b # records[p[j]].osm_ids_b
        BY <2>1, KeysDiffer DEF Return
    <2>3. \/ RecordLess(records[p[i]], records[p[j]])
          \/ RecordLess(records[p[j]], records[p[i]])
        BY <1>5, <2>1, <2>2, RecordLessTotal
    <2> QED BY <1>1, <1>6, <2>3
<1>7. \A i, j \in DOMAIN records' : i < j => RecordLess(records'[i], records'[j])
    BY <1>3, <1>6
<1>8. \A r, s : RecordLess(r, s)' = RecordLess(r, s)
    BY DEF RecordLess, TupleLess
<1>9. pc = "added" /\ pc' = "done" /\ todo = {} /\ UNCHANGED input
    BY DEF Return
<1> QED BY <1>4, <1>7, <1>9, SameRecords DEF Determined

LEMMA StepDetermined == IInv /\ Determined /\ [Next]_vars => Determined'
<1> SUFFICES ASSUME IInv, Determined, [Next]_vars PROVE Determined'
    OBVIOUS
<1> USE DEF Determined
<1>0. records \in Seq(Record) /\ iou \in [Pairs -> IouValues] /\ groups \subseteq Groups
    BY DEF IInv, TypeOK
<1>1. CASE \E id \in shared_ids : MatchId(id)
    <2>1. PICK id \in shared_ids : MatchId(id)
        BY <1>1
    <2>2. Matched(<<id, id>>, "osm_id") \in Record
        BY <1>0, MatchedRecord DEF Pairs
    <2>3. Written' = Written \cup {Matched(<<id, id>>, "osm_id")}
        BY <1>0, <2>1, <2>2, WrittenAppend DEF MatchId
    <2>4. Written' = IdMatches(shared_ids \ todo')
        BY <2>1, <2>3 DEF MatchId, IdMatches
    <2> QED BY <2>1, <2>4, SameRecords DEF MatchId
<1>2. CASE FindCandidates
    <2>1. Written' = Written /\ UNCHANGED input
        BY <1>2 DEF FindCandidates, Written
    <2>2. groups' = Groups /\ Groups' = Groups
        BY <1>2, <2>1, SameRecords DEF FindCandidates
    <2>3. matched_a' = {} /\ matched_b' = {} /\ todo = {} /\ pc = "ids" /\ pc' = "groups"
        BY <1>2 DEF FindCandidates, IInv, Progress
    <2>4. (Groups \ groups)' = {} /\ Resolutions(Groups \ groups)' = {}
        BY <2>2 DEF Resolutions
    <2>5. shared_ids \ todo = shared_ids
        BY <2>3
    <2> QED BY <2>1, <2>3, <2>4, <2>5, SameRecords
<1>3. CASE \E g \in groups : ResolveGroup(g)
    <2>1. PICK g \in groups : ResolveGroup(g)
        BY <1>3
    <2>2. UNCHANGED input /\ pc = "groups" /\ pc' = "groups"
        BY <2>1 DEF ResolveGroup
    <2>3. Resolve(g) \in Record
        BY <1>0, GroupRecord
    <2>4. Written' = Written \cup {Resolve(g)}
        BY <1>0, <2>1, <2>3, WrittenAppend DEF ResolveGroup
    <2>5. Groups \ groups' = (Groups \ groups) \cup {g}
        BY <1>0, <2>1 DEF ResolveGroup
    <2>6. Resolutions(Groups \ groups') = Resolutions(Groups \ groups) \cup {Resolve(g)}
        BY <2>5 DEF Resolutions
    <2>7. /\ matched_a' = UNION { GroupA(h) : h \in Groups \ groups' }
          /\ matched_b' = UNION { GroupB(h) : h \in Groups \ groups' }
        BY <2>1, <2>2, <2>5 DEF ResolveGroup
    <2>8. /\ (Groups \ groups)' = Groups \ groups'
          /\ Resolutions(Groups \ groups)' = Resolutions(Groups \ groups')
        BY <2>2, SameRecords DEF Resolutions
    <2>9. /\ matched_a' = (UNION { GroupA(h) : h \in Groups \ groups })'
          /\ matched_b' = (UNION { GroupB(h) : h \in Groups \ groups })'
        BY <2>2, <2>7, <2>8, SameRecords
    <2>10. IdMatches(shared_ids)' = IdMatches(shared_ids)
        BY <2>2, SameRecords
    <2>11. Written' = IdMatches(shared_ids) \cup Resolutions(Groups \ groups')
        BY <2>2, <2>4, <2>6
    <2> QED BY <2>2, <2>8, <2>9, <2>10, <2>11
<1>4. CASE GroupsDone
    <2>1. UNCHANGED input /\ Written' = Written /\ pc = "groups" /\ pc' = "removed"
          /\ groups = {} /\ matched_b' = matched_b /\ todo' = only_in_a \ matched_a
        BY <1>4 DEF GroupsDone, Written
    <2>2. matched_a = DOMAIN candidates /\ matched_b = Nodes(candidates) \ DOMAIN candidates
        BY <2>1, AllGroups
    <2>3. todo' = LoneA /\ { Removed(a) : a \in LoneA \ todo' } = {}
        BY <2>1, <2>2, LoneFeatures
    <2> QED BY <2>1, <2>2, <2>3, SameRecords
<1>5. CASE \E a \in only_in_a : EmitRemoved(a)
    <2>1. PICK a \in only_in_a : EmitRemoved(a)
        BY <1>5
    <2>2. Removed(a) \in Record
        BY RemovedRecord DEF only_in_a
    <2>3. Written' = Written \cup {Removed(a)}
        BY <1>0, <2>1, <2>2, WrittenAppend DEF EmitRemoved
    <2>4. a \in LoneA /\ LoneA \ todo' = (LoneA \ todo) \cup {a}
        BY <2>1 DEF EmitRemoved
    <2> QED BY <2>1, <2>3, <2>4, SameRecords DEF EmitRemoved
<1>6. CASE RemovedDone
    <2>1. UNCHANGED input /\ Written' = Written /\ pc = "removed" /\ pc' = "added"
          /\ todo = {} /\ todo' = only_in_b \ matched_b
        BY <1>6 DEF RemovedDone, Written
    <2>2. todo' = LoneB /\ { Added(b) : b \in LoneB \ todo' } = {}
        BY <2>1, LoneFeatures
    <2> QED BY <2>1, <2>2, SameRecords
<1>7. CASE \E b \in only_in_b : EmitAdded(b)
    <2>1. PICK b \in only_in_b : EmitAdded(b)
        BY <1>7
    <2>2. Added(b) \in Record
        BY AddedRecord DEF only_in_b
    <2>3. Written' = Written \cup {Added(b)}
        BY <1>0, <2>1, <2>2, WrittenAppend DEF EmitAdded
    <2>4. b \in LoneB /\ LoneB \ todo' = (LoneB \ todo) \cup {b}
        BY <2>1 DEF EmitAdded
    <2> QED BY <2>1, <2>3, <2>4, SameRecords DEF EmitAdded
<1>8. CASE Return
    BY <1>8, ReturnDetermined
<1>9. CASE UNCHANGED vars
    <2>1. UNCHANGED <<input, matched_a, matched_b, records, todo, groups, pc>>
        BY <1>9 DEF vars, input
    <2>2. Written' = Written /\ \A r, s : RecordLess(r, s)' = RecordLess(r, s)
        BY <2>1 DEF Written, RecordLess, TupleLess
    <2> QED BY <2>1, <2>2, SameRecords
<1> QED BY <1>1, <1>2, <1>3, <1>4, <1>5, <1>6, <1>7, <1>8, <1>9 DEF Next

LEMMA DeterminedInvariance == Spec => [](IInv /\ Determined)
<1>1. ASSUME Init PROVE Determined
    <2>1. records = << >> /\ todo = shared_ids /\ groups = {} /\ pc = "ids"
        BY <1>1 DEF Init
    <2>2. Written = {}
        BY <2>1 DEF Written
    <2>3. IdMatches(shared_ids \ todo) = {}
        BY <2>1 DEF IdMatches
    <2> QED BY <2>1, <2>2, <2>3 DEF Determined
<1>2. Spec => []IInv
    BY Invariance
<1> QED BY <1>1, <1>2, InitInv, StepInv, StepDetermined, PTL DEF Spec

-----------------------------------------------------------------------------
\* TypeOK: every record build_changeset writes is well formed, and names
\* features of the right snapshot.
THEOREM TypeCorrect == Spec => []TypeOK
<1>1. IInv => TypeOK
    BY DEF IInv
<1> QED BY <1>1, Invariance, PTL

\* NoFeatureTwice: no feature of either snapshot is in two records.
THEOREM UniquenessHolds == Spec => []NoFeatureTwice
<1>1. IInv => NoFeatureTwice
    BY DEF IInv
<1> QED BY <1>1, Invariance, PTL

\* NoFeatureLost: every feature of either snapshot is in the returned list.
THEOREM TotalityHolds == Spec => []NoFeatureLost
<1>1. IInv => NoFeatureLost
    BY DEF IInv, Progress, NoFeatureLost, CoveredA, CoveredB
<1> QED BY <1>1, Invariance, PTL

\* NoCandidateLost: every overlapping pair of leftovers is kept.
THEOREM CandidatesKept == Spec => []NoCandidateLost
<1>1. IInv => NoCandidateLost
    <2> SUFFICES ASSUME IInv, pc = "done",
                        NEW p \in only_in_a \X only_in_b, iou[p] > 0
                 PROVE  IsKept(p)
        BY DEF NoCandidateLost, IsKept
    <2>1. p = <<p[1], p[2]>> /\ p[1] \in only_in_a /\ p[2] \in Overlapping(p[1])
        BY DEF Overlapping
    <2>2. p[1] \in matched_a
        BY <2>1, CandidatesShape DEF IInv, Kept
    <2> QED BY <2>1, <2>2 DEF IInv, Kept
<1> QED BY <1>1, Invariance, PTL

\* MatchesUnrivalled: a match across ids has no rival and reaches the threshold.
THEOREM MatchesAreUnrivalled == Spec => []MatchesUnrivalled
<1>1. IInv => MatchesUnrivalled
    BY DEF IInv
<1> QED BY <1>1, Invariance, PTL

\* DeterministicOutput: the list is the one the input alone determines.
THEOREM OutputDetermined == Spec => []DeterministicOutput
<1>1. IInv /\ Determined => DeterministicOutput
    BY DEF Determined, DeterministicOutput, Written, Range, IdMatches, Resolutions,
           LoneA, LoneB
<1> QED BY <1>1, DeterminedInvariance, PTL
=============================================================================
