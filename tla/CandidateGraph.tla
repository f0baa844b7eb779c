--------------------------- MODULE CandidateGraph ---------------------------
(***************************************************************************)
(* The bipartite candidate graph that Stage 2 of the matching pipeline     *)
(* hands to Stage 4, and what "connected component" means on it.           *)
(*                                                                         *)
(* A graph is the dictionary generate_candidates returns: a function from  *)
(* the A-side ids that have at least one candidate to the set of their     *)
(* B-side candidates.  The code's lists have no repetitions and nothing    *)
(* depends on their order, so they are sets here.                          *)
(***************************************************************************)

\* Every dictionary generate_candidates can return for the given leftovers:
\* a key is only ever stored with a non-empty list.
CandidateGraphs(A, B) ==
    UNION { [K -> (SUBSET B) \ {{}}] : K \in SUBSET A }

\* The nodes of the graph: the keys of the code's `neighbours`.
Nodes(cand) == DOMAIN cand \cup UNION { cand[a] : a \in DOMAIN cand }

\* `neighbours[n]`: candidacy is made symmetric whatever side n is on.
Neighbours(cand, n) ==
    (IF n \in DOMAIN cand THEN cand[n] ELSE {})
        \cup { a \in DOMAIN cand : n \in cand[a] }

-----------------------------------------------------------------------------
(***************************************************************************)
(* The reference definition.  A set is closed when no edge leaves it; the  *)
(* component of a node is what lies in every closed set around the node.   *)
(***************************************************************************)
IsClosed(cand, S) == \A n \in S : Neighbours(cand, n) \subseteq S

Component(cand, n) ==
    { m \in Nodes(cand) :
        \A S \in SUBSET Nodes(cand) : n \in S /\ IsClosed(cand, S) => m \in S }

Components(cand) == { Component(cand, n) : n \in Nodes(cand) }
=============================================================================
