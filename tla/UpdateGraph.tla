---------------------------- MODULE UpdateGraph ----------------------------
(***************************************************************************)
(* The dependency graph of typed_runtime/graph.py: an edge <<s, t>> says   *)
(* that an update of node s invalidates the computation at node t.  Every  *)
(* operator is constant-level, so the modules that commit updates share    *)
(* one reading of the graph.                                               *)
(***************************************************************************)
EXTENDS Naturals

CONSTANTS
  Nodes,    \* the node identifiers
  Edges,    \* the set of <<source, target>> dependency edges
  Rank      \* Rank[n]: position of n in topological_order()

(* __post_init__ refuses an edge to an unknown node and a cycle; the       *)
(* deterministic order it computes puts a source before its targets.       *)
ASSUME GraphAssumption ==
  /\ Edges \subseteq Nodes \X Nodes
  /\ Rank \in [Nodes -> Nat]
  /\ \A m, n \in Nodes : Rank[m] = Rank[n] => m = n
  /\ \A e \in Edges : Rank[e[1]] < Rank[e[2]]

Dependents(n) == {m \in Nodes : <<n, m>> \in Edges}

(* The worklist of invalidated_by returns the least set that holds n and   *)
(* the dependents of all its members.                                      *)
DependentClosed(S) == \A n \in S : Dependents(n) \subseteq S

Closure ==
  [n \in Nodes |->
     {m \in Nodes : \A S \in SUBSET Nodes : n \in S /\ DependentClosed(S) => m \in S}]

InvalidatedBy(n) == Closure[n]

(* include_self=False starts the worklist from an empty "seen" set.        *)
InvalidatedDependents(n) == InvalidatedBy(n) \ {n}

=============================================================================
