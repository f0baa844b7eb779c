----------------------- MODULE CandidateGraphTheorems -----------------------
(***************************************************************************)
(* Facts about the candidate graph and its components, for any number of   *)
(* features on either side.                                                *)
(***************************************************************************)
EXTENDS CandidateGraph, Naturals, Sequences, SequenceTheorems, TLAPS

\* The keys of a candidate dictionary are A-side ids, every key has at least
\* one candidate, and candidates are B-side ids (generate_candidates).
LEMMA GraphShape ==
    ASSUME NEW A, NEW B, NEW cand \in CandidateGraphs(A, B)
    PROVE  /\ DOMAIN cand \subseteq A
           /\ \A a \in DOMAIN cand : cand[a] \subseteq B /\ cand[a] # {}
           /\ Nodes(cand) \ DOMAIN cand \subseteq B
<1>1. PICK K \in SUBSET A : cand \in [K -> (SUBSET B) \ {{}}]
    BY DEF CandidateGraphs
<1> QED BY <1>1 DEF Nodes

\* `neighbours` is symmetric, and its values are keys of it as well.
LEMMA NeighboursSymmetric ==
    ASSUME NEW cand, NEW m, NEW n \in Neighbours(cand, m)
    PROVE  m \in Neighbours(cand, n)
BY DEF Neighbours

LEMMA NeighboursAreNodes ==
    ASSUME NEW cand, NEW n
    PROVE  Neighbours(cand, n) \subseteq Nodes(cand)
BY DEF Neighbours, Nodes

\* Because candidacy is symmetric, what is left outside a closed set of
\* nodes is closed too.
LEMMA ComplementClosed ==
    ASSUME NEW cand, NEW S \in SUBSET Nodes(cand), IsClosed(cand, S)
    PROVE  IsClosed(cand, Nodes(cand) \ S)
<1> SUFFICES ASSUME NEW m \in Nodes(cand) \ S, NEW n \in Neighbours(cand, m)
             PROVE  n \in Nodes(cand) \ S
    BY DEF IsClosed
<1>1. n \in Nodes(cand)
    BY NeighboursAreNodes
<1>2. n \notin S
    BY NeighboursSymmetric DEF IsClosed
<1> QED BY <1>1, <1>2

LEMMA ComponentBasics ==
    ASSUME NEW cand, NEW n \in Nodes(cand)
    PROVE  /\ n \in Component(cand, n)
           /\ Component(cand, n) \subseteq Nodes(cand)
           /\ \A S \in SUBSET Nodes(cand) :
                n \in S /\ IsClosed(cand, S) => Component(cand, n) \subseteq S
BY DEF Component

\* A component contains the neighbours of its nodes: the step of the walk.
LEMMA ComponentClosed ==
    ASSUME NEW cand, NEW n \in Nodes(cand)
    PROVE  IsClosed(cand, Component(cand, n))
<1> SUFFICES ASSUME NEW m \in Component(cand, n), NEW k \in Neighbours(cand, m)
             PROVE  k \in Component(cand, n)
    BY DEF IsClosed
<1>1. k \in Nodes(cand)
    BY NeighboursAreNodes
<1>2. ASSUME NEW S \in SUBSET Nodes(cand), n \in S, IsClosed(cand, S)
      PROVE  k \in S
    <2>1. m \in S
        BY <1>2 DEF Component
    <2> QED BY <2>1, <1>2 DEF IsClosed
<1> QED BY <1>1, <1>2 DEF Component

\* Two nodes of one component have the same component, so a node lies in
\* exactly one: Components is a partition of the nodes.
THEOREM SameComponent ==
    ASSUME NEW cand, NEW n \in Nodes(cand), NEW m \in Component(cand, n)
    PROVE  Component(cand, m) = Component(cand, n)
<1>1. m \in Nodes(cand)
    BY ComponentBasics
<1>2. Component(cand, m) \subseteq Component(cand, n)
    BY <1>1, ComponentBasics, ComponentClosed
<1>3. n \in Component(cand, m)
    <2> DEFINE Rest == Nodes(cand) \ Component(cand, m)
    <2> SUFFICES ASSUME n \notin Component(cand, m) PROVE FALSE
        OBVIOUS
    <2>1. IsClosed(cand, Rest)
        BY <1>1, ComponentBasics, ComponentClosed, ComplementClosed
    <2>2. Component(cand, n) \subseteq Rest
        BY <2>1, ComponentBasics
    <2> QED BY <2>2, <1>1, ComponentBasics
<1>4. Component(cand, n) \subseteq Component(cand, m)
    BY <1>1, <1>3, ComponentBasics, ComponentClosed
<1> QED BY <1>2, <1>4

\* Every component of a candidate graph has both sides, so its shape is one of
\* (1,1), (1,N), (N,1) and (N,M): Stage 4 has no other case to resolve.
THEOREM ComponentHasBothSides ==
    ASSUME NEW A, NEW B, A \cap B = {},
           NEW cand \in CandidateGraphs(A, B), NEW n \in Nodes(cand)
    PROVE  /\ Component(cand, n) \cap DOMAIN cand # {}
           /\ Component(cand, n) \ DOMAIN cand # {}
<1>1. n \in Component(cand, n)
    BY ComponentBasics
<1>2. Neighbours(cand, n) \subseteq Component(cand, n)
    BY <1>1, ComponentClosed DEF IsClosed
<1>3. CASE n \in DOMAIN cand
    <2>1. PICK b \in cand[n] : b \in B
        BY <1>3, GraphShape
    <2>2. b \in Component(cand, n)
        BY <1>2, <1>3 DEF Neighbours
    <2>3. b \notin DOMAIN cand
        BY <2>1, GraphShape
    <2> QED BY <1>1, <1>3, <2>2, <2>3
<1>4. CASE n \notin DOMAIN cand
    <2>1. PICK a \in DOMAIN cand : n \in cand[a]
        BY <1>4 DEF Nodes
    <2> QED BY <1>1, <1>2, <1>4, <2>1 DEF Neighbours
<1> QED BY <1>3, <1>4

-----------------------------------------------------------------------------
(* Both the walk and build_changeset append to a list. *)

LEMMA AppendIndices ==
    ASSUME NEW S, NEW s \in Seq(S), NEW e \in S
    PROVE  /\ DOMAIN Append(s, e) = DOMAIN s \cup {Len(s) + 1}
           /\ Len(s) + 1 \notin DOMAIN s
           /\ \A i \in DOMAIN s : Append(s, e)[i] = s[i]
           /\ Append(s, e)[Len(s) + 1] = e
<1>1. /\ DOMAIN s = 1..Len(s) /\ Len(s) \in Nat
      /\ DOMAIN Append(s, e) = 1..(Len(s) + 1)
    BY AppendProperties, LenProperties
<1> QED BY <1>1, AppendProperties
=============================================================================
