---------------------- MODULE ConnectedComponentsProofs ----------------------
(***************************************************************************)
(* Safety of the component walk for any leftover features and any graph.   *)
(*                                                                         *)
(* ComponentsExact is not inductive: it says nothing of the component being*)
(* collected.  IInv adds that what is collected so far lies in a single    *)
(* component (Within), that the neighbours of a collected node are         *)
(* collected or queued (Expanded), and that `seen` is exactly the ids      *)
(* already reported plus the ones being collected (Accounted).             *)
(***************************************************************************)
EXTENDS ConnectedComponents, CandidateGraphTheorems

Reported == UNION { Ids(i) : i \in DOMAIN components }
Current == IF pc = "walk" THEN members \cup queue ELSE {}

Accounted ==
    /\ seen = Reported \cup Current
    /\ Reported \cap Current = {}
    /\ Nodes(candidates) \ todo \subseteq seen

Within ==
    pc = "walk" =>
        \E s \in members \cup queue : Current \subseteq Component(candidates, s)

Expanded ==
    pc = "walk" =>
        \A m \in members : Neighbours(candidates, m) \subseteq members \cup queue

Finished == pc = "done" => todo = {}

IInv ==
    /\ TypeOK
    /\ ComponentsDisjoint
    /\ ComponentsExact
    /\ Accounted
    /\ Within
    /\ Expanded
    /\ Finished

-----------------------------------------------------------------------------
\* A reported component is closed: no edge of the graph leaves it.
LEMMA ReportedClosed ==
    ASSUME ComponentsExact, NEW m \in Reported,
           NEW n \in Neighbours(candidates, m)
    PROVE  n \in Reported
<1>1. PICK i \in DOMAIN components : m \in Ids(i)
    BY DEF Reported
<1>2. IsClosed(candidates, Ids(i))
    BY ComponentClosed DEF ComponentsExact, Components
<1> QED BY <1>1, <1>2 DEF IsClosed, Reported

\* With the queue empty, the collected ids are a whole component.
LEMMA CollectedComponent ==
    ASSUME TypeOK, Within, Expanded, pc = "walk", queue = {}
    PROVE  \E s \in Nodes(candidates) : members = Component(candidates, s)
<1>1. PICK s \in members : members \subseteq Component(candidates, s)
    BY DEF Within, Current
<1>2. IsClosed(candidates, members)
    BY DEF Expanded, IsClosed
<1>3. s \in Nodes(candidates) /\ members \subseteq Nodes(candidates)
    BY DEF TypeOK
<1>4. Component(candidates, s) \subseteq members
    BY <1>1, <1>2, <1>3, ComponentBasics
<1> QED BY <1>1, <1>3, <1>4

LEMMA InitInv == Init => IInv
<1> SUFFICES ASSUME Init PROVE IInv
    OBVIOUS
<1>1. TypeOK
    BY DEF Init, TypeOK
<1> QED BY <1>1 DEF Init, IInv, ComponentsDisjoint, ComponentsExact, Accounted,
                    Within, Expanded, Finished, Reported, Current

\* What a step that leaves the reported components alone need not reprove.
LEMMA Unreported ==
    ASSUME IInv, UNCHANGED <<candidates, components>>
    PROVE  /\ ComponentsDisjoint' /\ ComponentsExact' /\ Reported' = Reported
BY DEF IInv, ComponentsDisjoint, ComponentsExact, Reported, Ids

LEMMA SkipInv == ASSUME IInv, NEW n, Skip(n) PROVE IInv'
<1>1. TypeOK'
    BY DEF IInv, TypeOK, Skip
<1>2. /\ ComponentsDisjoint' /\ ComponentsExact' /\ Reported' = Reported
    BY Unreported DEF Skip
<1>3. Accounted'
    BY <1>2 DEF IInv, Skip, Accounted, Current
<1> QED BY <1>1, <1>2, <1>3 DEF IInv, Skip, Within, Expanded, Finished

LEMMA BeginInv == ASSUME IInv, NEW n, Begin(n) PROVE IInv'
<1>0. n \in Nodes(candidates) /\ n \notin seen
    BY DEF IInv, TypeOK, Begin
<1>1. TypeOK'
    BY <1>0 DEF IInv, TypeOK, Begin
<1>2. /\ ComponentsDisjoint' /\ ComponentsExact' /\ Reported' = Reported
    BY Unreported DEF Begin
<1>3. Current' = {n} /\ Current = {}
    BY DEF Begin, Current
<1>4. Accounted'
    BY <1>0, <1>2, <1>3 DEF IInv, Begin, Accounted
<1>5. Within'
    BY <1>0, <1>3, ComponentBasics DEF Begin, Within
<1> QED BY <1>1, <1>2, <1>4, <1>5 DEF IInv, Begin, Expanded, Finished

LEMMA VisitInv == ASSUME IInv, NEW n, Visit(n) PROVE IInv'
<1>0. /\ n \in queue /\ n \in Nodes(candidates)
      /\ Fresh(n) \subseteq Nodes(candidates)
    BY NeighboursAreNodes DEF IInv, TypeOK, Visit, Fresh
<1>1. TypeOK'
    BY <1>0 DEF IInv, TypeOK, Visit
<1>2. /\ ComponentsDisjoint' /\ ComponentsExact' /\ Reported' = Reported
    BY Unreported DEF Visit
<1>3. Current' = Current \cup Fresh(n)
    BY DEF Visit, Current
<1>4. Fresh(n) \cap seen = {}
    BY DEF Fresh
<1>5. Accounted'
    BY <1>2, <1>3, <1>4 DEF IInv, Visit, Accounted
<1>6. Within'
    <2>1. PICK s \in Current : Current \subseteq Component(candidates, s)
        BY DEF IInv, Within, Current, Visit
    <2>2. s \in Nodes(candidates)
        BY <2>1 DEF IInv, TypeOK, Current
    <2>3. Fresh(n) \subseteq Component(candidates, s)
        BY <1>0, <2>1, <2>2, ComponentClosed DEF IsClosed, Fresh, Current, Visit
    <2> QED BY <1>3, <2>1, <2>3 DEF Within, Visit, Current
<1>7. Expanded'
    <2> SUFFICES ASSUME NEW m \in members \cup {n}, NEW k \in Neighbours(candidates, m)
                 PROVE  k \in Current'
        BY DEF Expanded, Visit, Current
    <2>1. CASE m \in members
        BY <2>1, <1>3 DEF IInv, Expanded, Visit, Current
    <2>2. CASE m = n /\ k \notin seen
        BY <2>2, <1>3 DEF Fresh
    <2>3. CASE m = n /\ k \in seen
        \* A seen neighbour was not reported: reported ids have no edge out.
        <3>1. n \in Current /\ n \notin Reported
            BY <1>0 DEF IInv, Accounted, Current, Visit
        <3>2. k \notin Reported
            BY <2>3, <3>1, ReportedClosed, NeighboursSymmetric DEF IInv
        <3> QED BY <2>3, <3>2, <1>3 DEF IInv, Accounted
    <2> QED BY <2>1, <2>2, <2>3
<1> QED BY <1>1, <1>2, <1>5, <1>6, <1>7 DEF IInv, Visit, Finished

LEMMA EmitInv == ASSUME IInv, Emit PROVE IInv'
<1> DEFINE new == <<ASide(members), BSide(members)>>
<1>1. PICK s \in Nodes(candidates) : members = Component(candidates, s)
    BY CollectedComponent DEF IInv, Emit
<1>2. new \in (SUBSET OnlyA) \X (SUBSET OnlyB)
    BY GraphShape DEF IInv, TypeOK, ASide, BSide
<1>3. TypeOK'
    BY <1>2, AppendProperties DEF IInv, TypeOK, Emit
<1>4. PICK last :
      /\ DOMAIN components' = DOMAIN components \cup {last}
      /\ last \notin DOMAIN components
      /\ \A i \in DOMAIN components : components'[i] = components[i]
      /\ components'[last] = new
    <2>1. components \in Seq((SUBSET OnlyA) \X (SUBSET OnlyB))
        BY DEF IInv, TypeOK
    <2>2. components' = Append(components, new)
        BY DEF Emit
    <2> HIDE DEF new
    <2> QED BY <1>2, <2>1, <2>2, AppendIndices
<1>5. /\ \A i \in DOMAIN components : Ids(i)' = Ids(i)
      /\ Ids(last)' = members
    <2>1. new[1] \cup new[2] = members
        BY DEF ASide, BSide
    <2> QED BY <1>4, <2>1 DEF Ids
<1>6. Reported' = Reported \cup members
    BY <1>4, <1>5 DEF Reported
<1>7. Current = members /\ Current' = {}
    BY DEF Emit, Current
<1>8. Accounted'
    BY <1>6, <1>7 DEF IInv, Emit, Accounted
<1>9. ComponentsDisjoint'
    <2>1. \A i \in DOMAIN components : Ids(i) \cap members = {}
        BY <1>7 DEF IInv, Accounted, Reported
    <2> QED BY <2>1, <1>4, <1>5 DEF IInv, ComponentsDisjoint
<1>10. ComponentsExact'
    <2>1. members \in Components(candidates)
        BY <1>1 DEF Components
    <2>2. new[1] # {} /\ new[2] # {}
        BY <1>1, ComponentHasBothSides, SidesDisjoint
        DEF IInv, TypeOK, ASide, BSide
    <2>3. candidates' = candidates
        BY DEF Emit
    <2> QED BY <2>1, <2>2, <2>3, <1>4, <1>5 DEF IInv, ComponentsExact
<1> QED BY <1>3, <1>8, <1>9, <1>10 DEF IInv, Emit, Within, Expanded, Finished

LEMMA ReturnInv == ASSUME IInv, Return PROVE IInv'
<1>1. TypeOK'
    BY DEF IInv, TypeOK, Return
<1>2. /\ ComponentsDisjoint' /\ ComponentsExact' /\ Reported' = Reported
    BY Unreported DEF Return
<1>3. Accounted'
    BY <1>2 DEF IInv, Return, Accounted, Current
<1> QED BY <1>1, <1>2, <1>3 DEF IInv, Return, Within, Expanded, Finished

LEMMA StepInv == IInv /\ [Next]_vars => IInv'
<1> SUFFICES ASSUME IInv, [Next]_vars PROVE IInv'
    OBVIOUS
<1>1. CASE \E n \in Nodes(candidates) : Skip(n)
    BY <1>1, SkipInv
<1>2. CASE \E n \in Nodes(candidates) : Begin(n)
    BY <1>2, BeginInv
<1>3. CASE \E n \in Nodes(candidates) : Visit(n)
    BY <1>3, VisitInv
<1>4. CASE Emit
    BY <1>4, EmitInv
<1>5. CASE Return
    BY <1>5, ReturnInv
<1>6. CASE UNCHANGED vars
    <2>1. TypeOK'
        BY <1>6 DEF vars, IInv, TypeOK
    <2>2. /\ ComponentsDisjoint' /\ ComponentsExact' /\ Reported' = Reported
        BY <1>6, Unreported DEF vars
    <2>3. Accounted'
        BY <1>6, <2>2 DEF vars, IInv, Accounted, Current
    <2>4. Within' /\ Expanded' /\ Finished'
        BY <1>6 DEF vars, IInv, Within, Expanded, Finished, Current
    <2> QED BY <2>1, <2>2, <2>3, <2>4 DEF IInv
<1> QED BY <1>1, <1>2, <1>3, <1>4, <1>5, <1>6 DEF Next

LEMMA Invariance == Spec => []IInv
BY InitInv, StepInv, PTL DEF Spec

-----------------------------------------------------------------------------
\* TypeOK: the walk only ever holds nodes of its graph, and every reported
\* component is split into A-side and B-side ids (`m in a_side`).
THEOREM TypeCorrect == Spec => []TypeOK
<1>1. IInv => TypeOK
    BY DEF IInv
<1> QED BY <1>1, Invariance, PTL

\* ComponentsDisjoint: no id is put into two components.
THEOREM DisjointnessHolds == Spec => []ComponentsDisjoint
<1>1. IInv => ComponentsDisjoint
    BY DEF IInv
<1> QED BY <1>1, Invariance, PTL

\* ComponentsExact: what _connected_components reports are components of the
\* graph, each with both sides.
THEOREM ExactnessHolds == Spec => []ComponentsExact
<1>1. IInv => ComponentsExact
    BY DEF IInv
<1> QED BY <1>1, Invariance, PTL

\* ReturnsAllComponents: the returned list is the whole partition of the
\* graph, in whatever order dictionaries and sets were iterated.
THEOREM CompletenessHolds == Spec => []ReturnsAllComponents
<1>1. IInv => ReturnsAllComponents
    <2> SUFFICES ASSUME IInv, pc = "done"
                 PROVE  Components(candidates)
                            = { Ids(i) : i \in DOMAIN components }
        BY DEF ReturnsAllComponents
    <2>1. Reported = Nodes(candidates)
        BY DEF IInv, TypeOK, Accounted, Current, Finished
    <2>2. ASSUME NEW n \in Nodes(candidates)
          PROVE  \E i \in DOMAIN components : Ids(i) = Component(candidates, n)
        <3>1. PICK i \in DOMAIN components : n \in Ids(i)
            BY <2>1, <2>2 DEF Reported
        <3>2. PICK m \in Nodes(candidates) : Ids(i) = Component(candidates, m)
            BY DEF IInv, ComponentsExact, Components
        <3> QED BY <3>1, <3>2, SameComponent
    <2>3. Components(candidates) \subseteq { Ids(i) : i \in DOMAIN components }
        BY <2>2 DEF Components
    <2>4. { Ids(i) : i \in DOMAIN components } \subseteq Components(candidates)
        BY DEF IInv, ComponentsExact
    <2> QED BY <2>3, <2>4
<1> QED BY <1>1, Invariance, PTL
=============================================================================
