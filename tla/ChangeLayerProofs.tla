-------------------------- MODULE ChangeLayerProofs --------------------------
(***************************************************************************)
(* What becomes of the records of build_changeset, for any two snapshots   *)
(* and any overlaps: the counts agree with the rows, the file is the same  *)
(* in every process, the layer is loaded exactly if no footprint it draws  *)
(* is degenerate, and every ambiguous record is located by what is drawn.  *)
(* All of it follows from the invariants of BuildChangesetProofs.          *)
(***************************************************************************)
EXTENDS ChangeLayer, BuildChangesetProofs

-----------------------------------------------------------------------------
(* The counts. *)

LEMMA DisjointUnion ==
    ASSUME NEW S, NEW T, IsFiniteSet(S), IsFiniteSet(T), S \cap T = {}
    PROVE  /\ IsFiniteSet(S \cup T)
           /\ Cardinality(S \cup T) = Cardinality(S) + Cardinality(T)
<1>1. Cardinality(S) \in Nat /\ Cardinality(T) \in Nat
    BY FS_CardinalityType
<1>2. Cardinality(S \cap T) = 0
    BY FS_EmptySet
<1>3. /\ IsFiniteSet(S \cup T)
      /\ Cardinality(S \cup T) = Cardinality(S) + Cardinality(T) - Cardinality(S \cap T)
    BY FS_Union
<1> QED BY <1>1, <1>2, <1>3

\* The classes of changes are disjoint, and together they are the records that
\* get a row.
LEMMA CountIsRows == IInv => changed_count = Cardinality(Published)
<1> SUFFICES ASSUME IInv PROVE changed_count = Cardinality(Published)
    OBVIOUS
<1> DEFINE S1 == Having("modified_geometry")
           S2 == S1 \cup Having("modified_attributes")
           S3 == S2 \cup Having("modified_geometry_and_attributes")
           S4 == S3 \cup Having("added")
           S5 == S4 \cup Having("removed")
           S6 == S5 \cup Having("ambiguous")
<1>1. IsFiniteSet(DOMAIN records)
    <2>1. DOMAIN records = 1..Len(records) /\ Len(records) \in Nat
        BY LenProperties DEF IInv, TypeOK
    <2> QED BY <2>1, FS_Interval
<1>2. \A c : IsFiniteSet(Having(c))
    <2> TAKE c
    <2>1. Having(c) \in SUBSET DOMAIN records
        BY DEF Having
    <2> QED BY <1>1, <2>1, FS_Subset
<1>3. \A c, d : c # d => Having(c) \cap Having(d) = {}
    BY DEF Having
<1>4. IsFiniteSet(S2) /\ Cardinality(S2) = Cardinality(S1) + Cardinality(Having("modified_attributes"))
    BY <1>2, <1>3, DisjointUnion
<1>5. S2 \cap Having("modified_geometry_and_attributes") = {}
    BY <1>3
<1>6. /\ IsFiniteSet(S3)
      /\ Cardinality(S3) = Cardinality(S2) + Cardinality(Having("modified_geometry_and_attributes"))
    <2> HIDE DEF S2
    <2> QED BY <1>2, <1>4, <1>5, DisjointUnion
<1>7. S3 \cap Having("added") = {}
    BY <1>3
<1>8. IsFiniteSet(S4) /\ Cardinality(S4) = Cardinality(S3) + Cardinality(Having("added"))
    <2> HIDE DEF S3
    <2> QED BY <1>2, <1>6, <1>7, DisjointUnion
<1>9. S4 \cap Having("removed") = {}
    BY <1>3
<1>10. IsFiniteSet(S5) /\ Cardinality(S5) = Cardinality(S4) + Cardinality(Having("removed"))
    <2> HIDE DEF S4
    <2> QED BY <1>2, <1>8, <1>9, DisjointUnion
<1>11. S5 \cap Having("ambiguous") = {}
    BY <1>3
<1>12. Cardinality(S6) = Cardinality(S5) + Cardinality(Having("ambiguous"))
    <2> HIDE DEF S5
    <2> QED BY <1>2, <1>10, <1>11, DisjointUnion
<1>13. S6 = Published
    <2>1. \A i \in DOMAIN records : records[i] \in Record
        BY LenProperties, ElementOfSeq DEF IInv, TypeOK
    <2>2. \A i \in DOMAIN records : records[i].classification \in
            {"unchanged", "modified_geometry", "modified_attributes",
             "modified_geometry_and_attributes", "added", "removed", "ambiguous"}
        BY <2>1 DEF Record
    <2> QED BY <2>2 DEF Having, Published
<1>14. \A c \in {"modified_geometry", "modified_attributes",
                 "modified_geometry_and_attributes", "added", "removed", "ambiguous"} :
          counts[c] = Cardinality(Having(c)) /\ Cardinality(Having(c)) \in Nat
    BY <1>2, FS_CardinalityType DEF counts
<1>15. changed_count = Cardinality(S6)
    <2> HIDE DEF S2, S3, S4, S5, S6
    <2> QED BY <1>4, <1>6, <1>8, <1>10, <1>12, <1>14 DEF changed_count
<1> QED BY <1>13, <1>15

-----------------------------------------------------------------------------
(* The arrays of candidates. *)

Sorted(s, T) ==
    /\ s \in Bijection(1..Cardinality(T), T)
    /\ \A i, j \in DOMAIN s : i < j => PairLess(s[i], s[j])

\* Sorted ids in two nested loops: the pair met first is before all the others.
LEMMA FirstPair ==
    ASSUME NEW T \in SUBSET (Nat \X Nat), T # {}
    PROVE  \E p \in T : \A q \in T \ {p} : PairLess(p, q)
<1> DEFINE As == { q[1] : q \in T }
<1>1. As \in SUBSET Nat /\ As # {}
    OBVIOUS
<1>2. PICK a \in As : \A x \in As : a <= x
    <2> HIDE DEF As
    <2> QED BY <1>1, LeastOf
<1> DEFINE Bs == { q[2] : q \in { r \in T : r[1] = a } }
<1>3. Bs \in SUBSET Nat /\ Bs # {}
    BY <1>2
<1>4. PICK b \in Bs : \A x \in Bs : b <= x
    <2> HIDE DEF Bs
    <2> QED BY <1>3, LeastOf
<1>5. PICK p \in T : p[1] = a /\ p[2] = b
    BY <1>4
<1>6. ASSUME NEW q \in T \ {p} PROVE PairLess(p, q)
    <2>1. q[1] \in As /\ a <= q[1] /\ a \in Nat /\ q[1] \in Nat
        BY <1>1, <1>2
    <2>2. CASE a < q[1]
        BY <1>5, <2>2 DEF PairLess
    <2>3. CASE a = q[1]
        <3>1. b <= q[2] /\ b \in Nat /\ q[2] \in Nat
            BY <1>3, <1>4, <2>3
        <3>2. b # q[2]
            BY <1>5, <2>3, <1>6
        <3> QED BY <1>5, <2>3, <3>1, <3>2 DEF PairLess
    <2> QED BY <2>1, <2>2, <2>3
<1> QED BY <1>6

\* A finite set of pairs can be listed in order.  Of the sets that cannot, take
\* a smallest: without its first pair it can.
LEMMA SortedExists ==
    ASSUME NEW T \in SUBSET (Nat \X Nat), IsFiniteSet(T)
    PROVE  \E s : Sorted(s, T)
<1> DEFINE F == FiniteSubsetsOf(Nat \X Nat)
           R == StrictSubsetOrdering(Nat \X Nat)
           Bad == { U \in F : ~ \E s : Sorted(s, U) }
<1> SUFFICES ASSUME Bad # {} PROVE FALSE
    BY DEF FiniteSubsetsOf
<1>1. IsWellFoundedOn(R, F)
    BY FS_StrictSubsetOrderingWellFounded
<1>2. PICK U \in Bad : \A V \in Bad : <<V, U>> \notin R
    <2>1. Bad \subseteq F
        OBVIOUS
    <2> HIDE DEF Bad, R, F
    <2> QED BY <1>1, <2>1, WFMin
<1>3. U \in SUBSET (Nat \X Nat) /\ IsFiniteSet(U)
    BY <1>2 DEF FiniteSubsetsOf
<1>4. U # {}
    <2> SUFFICES ASSUME U = {} PROVE FALSE
        OBVIOUS
    <2> DEFINE e == [i \in {} |-> 0]
    <2>1. Cardinality(U) = 0 /\ 1..0 = {}
        BY FS_EmptySet
    <2>2. e \in Bijection({}, {})
        BY DEF Bijection, Injection, Surjection, IsInjective
    <2>3. DOMAIN e = {}
        OBVIOUS
    <2>4. Sorted(e, U)
        BY <2>1, <2>2, <2>3 DEF Sorted
    <2> QED BY <1>2, <2>4
<1>5. PICK p \in U : \A q \in U \ {p} : PairLess(p, q)
    BY <1>3, <1>4, FirstPair
<1> DEFINE V == U \ {p}
           n == Cardinality(V)
<1>6. IsFiniteSet(V) /\ n \in Nat /\ Cardinality(U) = n + 1
    <2>1. IsFiniteSet(V) /\ n = Cardinality(U) - 1
        BY <1>3, <1>5, FS_RemoveElement
    <2>2. n \in Nat /\ Cardinality(U) \in Nat
        BY <1>3, <2>1, FS_CardinalityType
    <2> QED BY <2>1, <2>2
<1>7. V \in F /\ <<V, U>> \in R
    BY <1>3, <1>6 DEF FiniteSubsetsOf, StrictSubsetOrdering
<1>8. PICK s : Sorted(s, V)
    BY <1>2, <1>7
<1> HIDE DEF n, F, R
<1>9. /\ s \in [1..n -> V]
      /\ \A i, j \in 1..n : s[i] = s[j] => i = j
      /\ \A q \in V : \E i \in 1..n : s[i] = q
      /\ \A i, j \in 1..n : i < j => PairLess(s[i], s[j])
    BY <1>8 DEF Sorted, Bijection, Injection, Surjection, IsInjective, n
<1> DEFINE t == [i \in 1..(n + 1) |-> IF i = 1 THEN p ELSE s[i - 1]]
<1>10. t \in [1..(n + 1) -> U]
    BY <1>6, <1>9
<1>11. \A i, j \in 1..(n + 1) : i < j => PairLess(t[i], t[j]) /\ t[i] # t[j]
    BY <1>5, <1>6, <1>9
<1>12. \A q \in U : \E i \in 1..(n + 1) : t[i] = q
    <2> SUFFICES ASSUME NEW q \in U PROVE \E i \in 1..(n + 1) : t[i] = q
        OBVIOUS
    <2>1. CASE q = p
        BY <1>6, <2>1
    <2>2. CASE q # p
        <3>1. PICK i \in 1..n : s[i] = q
            BY <1>9, <2>2
        <3>2. i + 1 \in 1..(n + 1) /\ t[i + 1] = q
            BY <1>6, <3>1
        <3> QED BY <3>2
    <2> QED BY <2>1, <2>2
<1> HIDE DEF t
<1>13. t \in Bijection(1..(n + 1), U)
    <2>1. IsInjective(t)
        BY <1>6, <1>10, <1>11 DEF IsInjective
    <2> QED BY <1>10, <1>12, <2>1 DEF Bijection, Injection, Surjection
<1>14. Sorted(t, U)
    BY <1>6, <1>10, <1>11, <1>13 DEF Sorted
<1> QED BY <1>2, <1>14

\* There is only one such list: at the first place where two of them differ,
\* each would hold the smaller pair.
LEMMA SortedUnique ==
    ASSUME NEW T \in SUBSET (Nat \X Nat), IsFiniteSet(T),
           NEW s, Sorted(s, T), NEW t, Sorted(t, T)
    PROVE  s = t
<1> DEFINE n == Cardinality(T)
           D == { i \in 1..n : s[i] # t[i] }
<1>1. n \in Nat
    BY FS_CardinalityType
<1> HIDE DEF n
<1>2. /\ s \in [1..n -> T]
      /\ \A q \in T : \E i \in 1..n : s[i] = q
      /\ \A i, j \in 1..n : i < j => PairLess(s[i], s[j])
      /\ \A i, j \in 1..n : s[i] = s[j] => i = j
    BY DEF Sorted, Bijection, Injection, Surjection, IsInjective, n
<1>3. /\ t \in [1..n -> T]
      /\ \A q \in T : \E i \in 1..n : t[i] = q
      /\ \A i, j \in 1..n : i < j => PairLess(t[i], t[j])
      /\ \A i, j \in 1..n : t[i] = t[j] => i = j
    BY DEF Sorted, Bijection, Injection, Surjection, IsInjective, n
<1>4. ASSUME D # {} PROVE FALSE
    <2>1. D \in SUBSET Nat
        OBVIOUS
    <2>2. PICK m \in D : \A i \in D : m <= i
        <3> HIDE DEF D
        <3> QED BY <1>4, <2>1, LeastOf
    <2>3. m \in 1..n /\ s[m] # t[m] /\ \A i \in 1..n : i < m => s[i] = t[i]
        BY <2>2
    <2>4. PICK j \in 1..n : t[j] = s[m]
        BY <1>2, <1>3, <2>3
    <2>5. PICK k \in 1..n : s[k] = t[m]
        BY <1>2, <1>3, <2>3
    <2>6. j > m
        BY <1>1, <1>2, <2>3, <2>4
    <2>7. k > m
        BY <1>1, <1>3, <2>3, <2>5
    <2>8. PairLess(t[m], s[m]) /\ PairLess(s[m], t[m])
        BY <1>2, <1>3, <2>3, <2>4, <2>5, <2>6, <2>7
    <2>9. s[m] \in Nat \X Nat /\ t[m] \in Nat \X Nat
        BY <1>2, <1>3, <2>3
    <2>10. /\ s[m][1] \in Nat /\ s[m][2] \in Nat
           /\ t[m][1] \in Nat /\ t[m][2] \in Nat
        BY <2>9
    <2> QED BY <2>8, <2>10 DEF PairLess
<1>5. \A i \in 1..n : s[i] = t[i]
    BY <1>4
<1>6. s = [i \in 1..n |-> s[i]] /\ t = [i \in 1..n |-> t[i]]
    BY <1>2, <1>3
<1> QED BY <1>5, <1>6

LEMMA PairsFinite == IsFiniteSet(Pairs) /\ Pairs \subseteq Nat \X Nat
<1>1. Pairs \subseteq FeaturesA \X FeaturesB
    BY DEF Pairs, shared_ids, only_in_a, only_in_b
<1>2. IsFiniteSet(FeaturesA \X FeaturesB)
    BY FeaturesFinite, FS_Product
<1> QED BY <1>1, <1>2, FS_Subset, IdsAreRanks

\* No record leaves a choice of array.
LEMMA OneArray ==
    ASSUME NEW r \in Record
    PROVE  \E s : /\ CandidateArrays(r) = {s}
                  /\ Sorted(s, r.pair_metrics)
                  /\ IsFiniteSet(r.pair_metrics)
<1>1. r.pair_metrics \in SUBSET Pairs
    BY DEF Record
<1>2. IsFiniteSet(r.pair_metrics) /\ r.pair_metrics \in SUBSET (Nat \X Nat)
    BY <1>1, PairsFinite, FS_Subset
<1>3. PICK s : Sorted(s, r.pair_metrics)
    BY <1>2, SortedExists
<1>4. \A t : t \in CandidateArrays(r) <=> Sorted(t, r.pair_metrics)
    BY DEF CandidateArrays, Sorted
<1>5. \A t : Sorted(t, r.pair_metrics) => t = s
    BY <1>2, <1>3, SortedUnique
<1> QED BY <1>2, <1>3, <1>4, <1>5

LEMMA OneFeature == IInv => ExportDeterministic
<1> SUFFICES ASSUME IInv, NEW i \in DOMAIN records
             PROVE  \E f \in Rendered(records[i]) : Rendered(records[i]) = {f}
    BY DEF ExportDeterministic
<1>1. records[i] \in Record
    BY LenProperties, ElementOfSeq DEF IInv, TypeOK
<1>2. PICK s : CandidateArrays(records[i]) = {s}
    BY <1>1, OneArray
<1> DEFINE r == records[i]
           F(array) == [classification |-> r.classification,
                        osm_ids_a |-> r.osm_ids_a, osm_ids_b |-> r.osm_ids_b,
                        geometry |-> _record_geometry(r), candidates |-> array]
<1>3. Rendered(r) = { F(array) : array \in CandidateArrays(r) }
    BY DEF Rendered
<1> HIDE DEF F
<1>4. Rendered(r) = {F(s)}
    BY <1>2, <1>3
<1> QED BY <1>4

-----------------------------------------------------------------------------
(* The rows. *)

\* What publish_change_features needs of a record: a geometry, an old footprint
\* only of a building that is gone, the side its class speaks of, and a single
\* candidate pair only if the pair is the record.
Publishable(r) ==
    /\ _record_geometry(r) # {}
    /\ r.osm_ids_b = {} => r.osm_ids_a \cap shared_ids = {}
    /\ r.classification = "added" => r.osm_ids_b # {}
    /\ r.classification = "removed" => r.osm_ids_a # {}
    /\ \A p : r.pair_metrics = {p} => r.osm_ids_a = {p[1]} /\ r.osm_ids_b = {p[2]}

LEMMA MatchPublishable ==
    ASSUME NEW a, NEW b, NEW m
    PROVE  Publishable(Matched(<<a, b>>, m))
<1> DEFINE r == Matched(<<a, b>>, m)
<1>1. /\ r.osm_ids_a = {a} /\ r.osm_ids_b = {b} /\ r.pair_metrics = {<<a, b>>}
      /\ r.classification = Classification(<<a, b>>)
    BY DEF Matched
<1>2. Classification(<<a, b>>) \notin {"added", "removed"}
    BY DEF Classification
<1>3. <<"B", b>> \in _record_geometry(r)
    BY <1>1 DEF _record_geometry, After
<1>4. \A p : {<<a, b>>} = {p} => p = <<a, b>>
    OBVIOUS
<1> HIDE DEF r
<1> QED BY <1>1, <1>2, <1>3, <1>4 DEF Publishable, r

\* Whatever its shape, a group with a single candidate pair is that pair.
LEMMA GroupPublishable ==
    ASSUME NEW g \in Groups, iou \in [Pairs -> IouValues]
    PROVE  Publishable(Resolve(g))
<1> DEFINE r == Resolve(g)
<1>1. /\ r.osm_ids_a = GroupA(g) /\ r.osm_ids_b = GroupB(g)
      /\ r.pair_metrics = PairMetrics(g)
    BY GroupRecord
<1>2. PICK b \in GroupB(g) : TRUE
    BY GroupShape
<1>3. <<"B", b>> \in _record_geometry(r)
    BY <1>1, <1>2 DEF _record_geometry, After
<1>4. r.classification \notin {"added", "removed"}
    BY DEF Resolve, Matched, Unmatched, Classification
<1>5. ASSUME NEW p, PairMetrics(g) = {p}
      PROVE  GroupA(g) = {p[1]} /\ GroupB(g) = {p[2]}
    <2>1. \A a \in GroupA(g) : \E y \in Overlapping(a) : <<a, y>> \in PairMetrics(g)
        BY GroupKeepsCandidates
    <2>2. \A y \in GroupB(g) : \E a \in GroupA(g) : <<a, y>> \in PairMetrics(g)
        <3> SUFFICES ASSUME NEW y \in GroupB(g)
                     PROVE  \E a \in GroupA(g) : <<a, y>> \in PairMetrics(g)
            OBVIOUS
        <3>1. y \in Nodes(candidates) /\ y \notin DOMAIN candidates
            <4>1. PICK n \in Nodes(candidates) : g = Component(candidates, n)
                BY DEF Groups, Components
            <4> QED BY <4>1, ComponentBasics DEF GroupB
        <3>2. PICK a \in DOMAIN candidates : y \in candidates[a]
            BY <3>1 DEF Nodes
        <3>3. a \in only_in_a /\ y \in Overlapping(a)
            BY <3>2, CandidatesShape
        <3>4. a \in GroupA(g)
            BY <3>3, GroupKeepsRivals
        <3> QED BY <3>3, <3>4, GroupKeepsCandidates
    <2>3. \A a \in GroupA(g) : a = p[1]
        BY <1>5, <2>1
    <2>4. \A y \in GroupB(g) : y = p[2]
        BY <1>5, <2>2
    <2> QED BY <2>3, <2>4, GroupShape
<1> HIDE DEF r
<1> QED BY <1>1, <1>3, <1>4, <1>5 DEF Publishable, r

LEMMA RecordsPublishable ==
    ASSUME IInv, Determined, pc = "done", NEW i \in DOMAIN records
    PROVE  Publishable(records[i])
<1> USE DEF LoneA
<1>1. records[i] \in IdMatches(shared_ids) \cup Resolutions(Groups)
                       \cup { Removed(a) : a \in LoneA } \cup { Added(b) : b \in LoneB }
    BY DEF Determined, Written
<1>2. CASE records[i] \in IdMatches(shared_ids)
    BY <1>2, MatchPublishable DEF IdMatches
<1>3. CASE records[i] \in Resolutions(Groups)
    BY <1>3, GroupPublishable DEF Resolutions, IInv, TypeOK
<1>4. ASSUME NEW a \in LoneA PROVE Publishable(Removed(a))
    <2>0. {a} \cap shared_ids = {}
        BY DEF only_in_a
    <2>1. /\ Removed(a).osm_ids_a = {a} /\ Removed(a).osm_ids_b = {}
          /\ Removed(a).pair_metrics = {} /\ Removed(a).classification = "removed"
        BY DEF Removed, Unmatched
    <2>2. <<"A", a>> \in _record_geometry(Removed(a))
        BY <2>1 DEF _record_geometry, Before
    <2> QED BY <2>0, <2>1, <2>2 DEF Publishable
<1>5. ASSUME NEW b PROVE Publishable(Added(b))
    <2>1. /\ Added(b).osm_ids_a = {} /\ Added(b).osm_ids_b = {b}
          /\ Added(b).pair_metrics = {} /\ Added(b).classification = "added"
        BY DEF Added, Unmatched
    <2>2. <<"B", b>> \in _record_geometry(Added(b))
        BY <2>1 DEF _record_geometry, After
    <2> QED BY <2>1, <2>2 DEF Publishable
<1> QED BY <1>1, <1>2, <1>3, <1>4, <1>5

\* The array of a record has one element exactly if the record has one pair.
LEMMA ArrayLength ==
    ASSUME NEW S, IsFiniteSet(S), NEW s, Sorted(s, S), Len(s) = 1
    PROVE  S = {s[1]}
<1>1. Cardinality(S) \in Nat /\ s \in [1..Cardinality(S) -> S]
      /\ \A x \in S : \E i \in 1..Cardinality(S) : s[i] = x
    BY FS_CardinalityType DEF Sorted, Bijection, Injection, Surjection
<1>2. s \in Seq(S) /\ DOMAIN s = 1..Cardinality(S)
    <2>1. s = [i \in 1..Cardinality(S) |-> s[i]]
        BY <1>1
    <2>2. \A i \in 1..Cardinality(S) : s[i] \in S
        BY <1>1
    <2> QED BY <1>1, <2>1, <2>2, IsASeq
<1>3. Cardinality(S) = 1
    BY <1>1, <1>2, LenProperties
<1> QED BY <1>1, <1>3

\* If only old footprints of buildings that are still there are degenerate,
\* none of them is drawn ...
LEMMA NoneDrawn ==
    ASSUME IInv, Determined, pc = "done",
           NEW degenerate, degenerate \subseteq Before(shared_ids)
    PROVE  LayerInsertable(degenerate)
<1> SUFFICES ASSUME NEW i \in Published, NEW f \in Rendered(records[i])
             PROVE  Insertable(f, degenerate)
    BY DEF LayerInsertable
<1> DEFINE r == records[i]
<1>1. Publishable(r)
    BY RecordsPublishable DEF Published
<1>2. /\ f.classification = r.classification /\ f.geometry = _record_geometry(r)
      /\ f.osm_ids_a = r.osm_ids_a /\ f.osm_ids_b = r.osm_ids_b
    BY DEF Rendered
<1> HIDE DEF r
<1>3. _record_geometry(r) \cap degenerate = {}
    <2> SUFFICES ASSUME NEW x \in _record_geometry(r), x \in Before(shared_ids)
                 PROVE  FALSE
        OBVIOUS
    <2>1. PICK id \in shared_ids : x = <<"A", id>>
        BY DEF Before
    <2>2. x \notin After(r.osm_ids_b)
        BY <2>1 DEF After
    <2>3. r.osm_ids_b = {} /\ x \in Before(r.osm_ids_a)
        BY <2>2 DEF _record_geometry
    <2>4. id \in r.osm_ids_a
        BY <2>1, <2>3 DEF Before
    <2> QED BY <1>1, <2>3, <2>4 DEF Publishable
<1> QED BY <1>1, <1>2, <1>3 DEF Insertable, IsPolygonal, Publishable

\* ... and any other degenerate footprint gets a row of its own: a building
\* with no overlap is nobody's candidate, and no match by id is unchanged.
LEMMA DegenerateDrawn ==
    ASSUME IInv, Determined, pc = "done",
           NEW x \in WithoutArea, x \notin Before(shared_ids)
    PROVE  \E i \in Published : x \in _record_geometry(records[i])
<1>1. ASSUME NEW r, r.classification # "unchanged", x \in _record_geometry(r), r \in Written
      PROVE  \E i \in Published : x \in _record_geometry(records[i])
    BY <1>1 DEF Written, Published
<1>2. CASE \E a \in FeaturesA : x = <<"A", a>> /\ \A p \in Pairs : p[1] = a => iou[p] = 0
    <2>1. PICK a \in FeaturesA : x = <<"A", a>> /\ \A p \in Pairs : p[1] = a => iou[p] = 0
        BY <1>2
    <2>2. a \in only_in_a
        BY <2>1 DEF only_in_a, Before
    <2>3. \A b \in only_in_b : <<a, b>> \in Pairs /\ iou[<<a, b>>] = 0
        BY <2>1, <2>2 DEF Pairs
    <2>4. Overlapping(a) = {}
        BY <2>3 DEF Overlapping
    <2>5. a \in LoneA
        <3>1. a \notin DOMAIN candidates
            BY <2>4 DEF candidates
        <3> QED BY <2>2, <3>1, LoneFeatures
    <2>6. Removed(a) \in Written
        BY <2>5 DEF Determined
    <2>7. /\ Removed(a).osm_ids_a = {a} /\ Removed(a).osm_ids_b = {}
          /\ Removed(a).classification = "removed"
        BY DEF Removed, Unmatched
    <2>8. x \in _record_geometry(Removed(a))
        BY <2>1, <2>7 DEF _record_geometry, Before
    <2> QED BY <1>1, <2>6, <2>7, <2>8
<1>3. CASE \E b \in FeaturesB : x = <<"B", b>> /\ \A p \in Pairs : p[2] = b => iou[p] = 0
    <2>1. PICK b \in FeaturesB : x = <<"B", b>> /\ \A p \in Pairs : p[2] = b => iou[p] = 0
        BY <1>3
    <2>2. CASE b \in shared_ids
        <3> DEFINE r == Matched(<<b, b>>, "osm_id")
        <3>1. r \in Written
            BY <2>2 DEF Determined, IdMatches
        <3>2. iou[<<b, b>>] = 0
            BY <2>1, <2>2 DEF Pairs
        <3>3. Classification(<<b, b>>) # "unchanged"
            BY <3>2, ThresholdsOrdered DEF Classification
        <3>4. r.osm_ids_b = {b} /\ r.classification = Classification(<<b, b>>)
            BY DEF Matched
        <3>5. x \in _record_geometry(r)
            BY <2>1, <3>4 DEF _record_geometry, After
        <3> QED BY <1>1, <3>1, <3>3, <3>4, <3>5
    <2>3. CASE b \notin shared_ids
        <3>1. b \in only_in_b
            BY <2>3 DEF only_in_b
        <3>2. \A a \in only_in_a : <<a, b>> \in Pairs /\ iou[<<a, b>>] = 0
            BY <2>1, <3>1 DEF Pairs
        <3>3. \A a \in only_in_a : b \notin Overlapping(a)
            BY <3>2 DEF Overlapping
        <3>4. b \notin Nodes(candidates)
            <4>1. b \notin DOMAIN candidates
                BY <3>1, SidesApart, CandidatesShape
            <4> QED BY <3>3, <4>1, CandidatesShape DEF Nodes
        <3>5. Added(b) \in Written
            BY <3>1, <3>4 DEF Determined, LoneB
        <3>6. /\ Added(b).osm_ids_b = {b} /\ Added(b).classification = "added"
            BY DEF Added, Unmatched
        <3>7. x \in _record_geometry(Added(b))
            BY <2>1, <3>6 DEF _record_geometry, After
        <3> QED BY <1>1, <3>5, <3>6, <3>7
    <2> QED BY <2>2, <2>3
<1> QED BY <1>2, <1>3 DEF WithoutArea

LEMMA RowsArePublishable == IInv /\ Determined => RowsPublishable
<1> SUFFICES ASSUME IInv, Determined, pc = "done" PROVE RowsPublishable
    BY DEF RowsPublishable
<1>1. ASSUME NEW degenerate \in SUBSET WithoutArea, LayerInsertable(degenerate)
      PROVE  degenerate \subseteq Before(shared_ids)
    <2> SUFFICES ASSUME NEW x \in degenerate, x \notin Before(shared_ids) PROVE FALSE
        OBVIOUS
    <2>1. PICK i \in Published : x \in _record_geometry(records[i])
        BY DegenerateDrawn
    <2>2. records[i] \in Record
        BY LenProperties, ElementOfSeq DEF Published, IInv, TypeOK
    <2>3. PICK s : CandidateArrays(records[i]) = {s}
        BY <2>2, OneArray
    <2> DEFINE r == records[i]
               F(array) == [classification |-> r.classification,
                            osm_ids_a |-> r.osm_ids_a, osm_ids_b |-> r.osm_ids_b,
                            geometry |-> _record_geometry(r), candidates |-> array]
    <2>4. PICK f \in Rendered(r) : f.geometry = _record_geometry(r)
        <3>1. Rendered(r) = { F(array) : array \in CandidateArrays(r) }
            BY DEF Rendered
        <3>2. F(s) \in Rendered(r)
            BY <2>3, <3>1
        <3>3. F(s).geometry = _record_geometry(r)
            OBVIOUS
        <3> QED BY <3>2, <3>3
    <2>5. IsPolygonal(f.geometry, degenerate)
        BY <1>1 DEF LayerInsertable, Insertable
    <2> QED BY <2>1, <2>4, <2>5 DEF IsPolygonal
<1>2. ASSUME NEW i \in Published, NEW f \in Rendered(records[i]), Metrics(f) # NoMetrics
      PROVE  f.osm_ids_a = {Metrics(f)[1]} /\ f.osm_ids_b = {Metrics(f)[2]}
    <2> DEFINE r == records[i]
    <2>1. i \in DOMAIN records /\ r \in Record
        BY LenProperties, ElementOfSeq DEF Published, IInv, TypeOK
    <2>2. Publishable(r)
        BY <2>1, RecordsPublishable
    <2>3. PICK s : /\ CandidateArrays(r) = {s} /\ Sorted(s, r.pair_metrics)
                   /\ IsFiniteSet(r.pair_metrics)
        BY <2>1, OneArray
    <2>4. /\ f.osm_ids_a = r.osm_ids_a /\ f.osm_ids_b = r.osm_ids_b
          /\ f.candidates = s
        BY <2>3 DEF Rendered
    <2> HIDE DEF r
    <2>5. Len(s) = 1 /\ Metrics(f) = s[1]
        BY <1>2, <2>4 DEF Metrics
    <2>6. r.pair_metrics = {s[1]}
        BY <2>3, <2>5, ArrayLength
    <2> QED BY <2>2, <2>4, <2>5, <2>6 DEF Publishable
<1> QED BY <1>1, <1>2, NoneDrawn DEF RowsPublishable

\* Every member of a group has a candidate in it.
LEMMA GroupsAreLocated == IInv /\ Determined => GroupsLocated
<1> SUFFICES ASSUME IInv, Determined, pc = "done",
                    NEW i \in Having("ambiguous"), NEW f \in Rendered(records[i])
             PROVE  /\ \A b \in f.osm_ids_b : <<"B", b>> \in f.geometry
                    /\ \A a \in f.osm_ids_a : \E b \in f.osm_ids_b :
                         <<"B", b>> \in f.geometry /\ iou[<<a, b>>] > 0
    BY DEF GroupsLocated
<1> DEFINE r == records[i]
<1>1. /\ f.geometry = _record_geometry(r)
      /\ f.osm_ids_a = r.osm_ids_a /\ f.osm_ids_b = r.osm_ids_b
    BY DEF Rendered
<1>2. r \in Written /\ r.classification = "ambiguous"
    BY DEF Having, Written
<1> HIDE DEF r
<1>3. r \in Resolutions(Groups)
    <2>1. \A p, m : Matched(p, m).classification # "ambiguous"
        BY DEF Matched, Classification
    <2>2. \A x : Removed(x).classification # "ambiguous" /\ Added(x).classification # "ambiguous"
        BY DEF Removed, Added, Unmatched
    <2> QED BY <1>2, <2>1, <2>2 DEF Determined, IdMatches
<1>4. PICK g \in Groups : r = Resolve(g)
    BY <1>3 DEF Resolutions
<1>5. r.osm_ids_a = GroupA(g) /\ r.osm_ids_b = GroupB(g)
    BY <1>4, GroupRecord DEF IInv, TypeOK
<1>6. \A b \in r.osm_ids_b : <<"B", b>> \in f.geometry
    BY <1>1 DEF _record_geometry, After
<1>7. \A a \in r.osm_ids_a : \E b \in r.osm_ids_b : iou[<<a, b>>] > 0
    BY <1>5, GroupKeepsCandidates DEF Overlapping
<1> QED BY <1>1, <1>6, <1>7

-----------------------------------------------------------------------------
\* ChangedCountIsRowCount: the API's total is the number of rows on the map.
THEOREM CountsAgree == Spec => []ChangedCountIsRowCount
<1>1. IInv => ChangedCountIsRowCount
    BY CountIsRows DEF ChangedCountIsRowCount
<1> QED BY <1>1, Invariance, PTL

\* ExportDeterministic: a record gives the same feature in every process.
THEOREM ExportsAgree == Spec => []ExportDeterministic
BY OneFeature, Invariance, PTL

\* RowsPublishable: the layer is loaded exactly if it draws no degenerate
\* footprint, and no row shows the metrics of a pair other than its own.
THEOREM RowsCanBePublished == Spec => []RowsPublishable
BY RowsArePublishable, DeterminedInvariance, PTL

\* GroupsLocated: every footprint of an ambiguous record is drawn or overlaps
\* one that is.
THEOREM GroupsAreFound == Spec => []GroupsLocated
BY GroupsAreLocated, DeterminedInvariance, PTL
=============================================================================
