------------------------ MODULE ConnectedComponents ------------------------
(***************************************************************************)
(* The walk of _connected_components (src/src/matching/changeset.py): from *)
(* each start not yet seen, everything reachable is collected into one     *)
(* component and split by side.                                            *)
(*                                                                         *)
(* Dictionary and set iteration order is not part of the code's contract   *)
(* (string hashing is randomised per process), so `for start in            *)
(* neighbours` and `for neighbour in ...` may visit in any order.  `queue` *)
(* never holds a node twice (a node is marked seen before it is pushed),   *)
(* so it is a set, and the walk may pop any element of it: the code's      *)
(* last-in-first-out order is one of these orders.                         *)
(***************************************************************************)
EXTENDS CandidateGraph, Naturals, Sequences

CONSTANTS OnlyA, OnlyB    \* the features Stage 1 left over, by side

\* Stage 1 removed every shared id: the two key spaces are disjoint.
ASSUME SidesDisjoint == OnlyA \cap OnlyB = {}

VARIABLES
    candidates,  \* the graph, as generate_candidates returned it
    todo,        \* starts the outer loop has not reached yet
    seen,
    queue,
    members,
    components,  \* the returned list of <<A side, B side>>
    pc           \* "scan": between components, "walk": inside one, "done"

vars == <<candidates, todo, seen, queue, members, components, pc>>

\* Operators named Faulty... are seeded faults: a run with one of them in the
\* place of the definition below it must violate the property it is paired
\* with.  Nothing else uses them.
FaultyASide(M) == M \ DOMAIN candidates    \* sides swapped

\* `a_side = set(candidates)`: a node's side is just "was it a key".
ASide(M) == M \cap DOMAIN candidates
BSide(M) == M \ DOMAIN candidates

Init ==
    /\ candidates \in CandidateGraphs(OnlyA, OnlyB)
    /\ todo = Nodes(candidates)
    /\ seen = {}
    /\ queue = {}
    /\ members = {}
    /\ components = << >>
    /\ pc = "scan"

\* `for start in neighbours`: a start already seen is passed over.
Skip(start) ==
    /\ pc = "scan"
    /\ start \in todo \cap seen
    /\ todo' = todo \ {start}
    /\ UNCHANGED <<candidates, seen, queue, members, components, pc>>

\* Forgets `if start in seen`: a node already collected starts a new walk.
FaultyBegin(start) ==
    /\ pc = "scan"
    /\ start \in todo
    /\ todo' = todo \ {start}
    /\ seen' = seen \cup {start}
    /\ members' = {}
    /\ queue' = {start}
    /\ pc' = "walk"
    /\ UNCHANGED <<candidates, components>>

Begin(start) ==
    /\ pc = "scan"
    /\ start \in todo \ seen
    /\ todo' = todo \ {start}
    /\ seen' = seen \cup {start}
    /\ members' = {}
    /\ queue' = {start}
    /\ pc' = "walk"
    /\ UNCHANGED <<candidates, components>>

\* Walks out of A-side nodes only; and forgets `if neighbour not in seen`.
FaultyFresh(node) ==
    IF node \in DOMAIN candidates THEN Neighbours(candidates, node) \ seen ELSE {}
EndlessFresh(node) == Neighbours(candidates, node) \ {node}

\* The neighbours this visit marks as seen and pushes.
Fresh(node) == Neighbours(candidates, node) \ seen

\* One turn of `while queue`.
Visit(node) ==
    /\ pc = "walk"
    /\ node \in queue
    /\ seen' = seen \cup Fresh(node)
    /\ queue' = (queue \ {node}) \cup Fresh(node)
    /\ members' = members \cup {node}
    /\ UNCHANGED <<candidates, todo, components, pc>>

\* The queue ran dry: the component is complete.
Emit ==
    /\ pc = "walk"
    /\ queue = {}
    /\ components' = Append(components, <<ASide(members), BSide(members)>>)
    /\ pc' = "scan"
    /\ UNCHANGED <<candidates, todo, seen, queue, members>>

\* Returns after the first component instead of the last.
FaultyReturn ==
    /\ pc = "scan"
    /\ components # << >>
    /\ pc' = "done"
    /\ UNCHANGED <<candidates, todo, seen, queue, members, components>>

Return ==
    /\ pc = "scan"
    /\ todo = {}
    /\ pc' = "done"
    /\ UNCHANGED <<candidates, todo, seen, queue, members, components>>

Next ==
    \/ \E n \in Nodes(candidates) : Skip(n) \/ Begin(n) \/ Visit(n)
    \/ Emit
    \/ Return

\* The function is called synchronously and nothing else runs in it.
Spec == Init /\ [][Next]_vars /\ WF_vars(Next)

-----------------------------------------------------------------------------
TypeOK ==
    /\ candidates \in CandidateGraphs(OnlyA, OnlyB)
    /\ todo \subseteq Nodes(candidates)
    /\ seen \subseteq Nodes(candidates)
    /\ queue \subseteq Nodes(candidates)
    /\ members \subseteq Nodes(candidates)
    /\ components \in Seq((SUBSET OnlyA) \X (SUBSET OnlyB))
    /\ pc \in {"scan", "walk", "done"}

\* The ids of the i-th component, both sides together.
Ids(i) == components[i][1] \cup components[i][2]

\* No id is put into two components: a feature that turned up in two groups
\* would get two change records (docstring: "everything reachable is one
\* component", and build_changeset's "appears in exactly one record").
ComponentsDisjoint ==
    \A i, j \in DOMAIN components : i # j => Ids(i) \cap Ids(j) = {}

\* Every finished component is a whole component of the graph: it has not
\* stopped short of a neighbour, has not run into another component, and has
\* both sides (so the shapes (1,1), (1,N), (N,1), (N,M) are the only ones).
ComponentsExact ==
    \A i \in DOMAIN components :
        /\ Ids(i) \in Components(candidates)
        /\ components[i][1] # {} /\ components[i][2] # {}

\* When the walk returns, every component of the graph was reported: the
\* returned list is exactly the partition of the graph into components.
ReturnsAllComponents ==
    pc = "done" => { Ids(i) : i \in DOMAIN components } = Components(candidates)

\* The walk returns, whatever the graph and whatever order it is visited in.
Terminates == <>(pc = "done")
=============================================================================
