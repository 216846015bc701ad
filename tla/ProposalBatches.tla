-------------------------- MODULE ProposalBatches --------------------------
(***************************************************************************)
(* Proposal packets and batches of typed_runtime/proposal.py, as far as a  *)
(* commit tells them apart.  A packet's payload, its evidence and its      *)
(* identity strings are abstracted to: payload (an opaque value of         *)
(* Payloads) and wellFormed, which is FALSE for every packet that the      *)
(* contract checks of a preflight refuse whatever the versions are (wrong  *)
(* run or model, mutated payload, update or objective kind other than the  *)
(* node's, undeclared write, unknown node in invalidates).                 *)
(***************************************************************************)
EXTENDS UpdateGraph

CONSTANTS
  ProposalIds,  \* the proposal identifiers
  Payloads,     \* the payload values
  Strict,       \* the nodes whose objective is MLE, MAP or ELBO
  Undeclared,   \* "no version of this node was declared"
  Domains,      \* the mutable state domains of the model
  Writes        \* Writes[n]: the domains an update of node n touches

ASSUME ProposalAssumption ==
  /\ Strict \subseteq Nodes
  /\ Undeclared \notin Nat
  /\ Writes \in [Nodes -> SUBSET Domains]

(* dependency_versions may name any subset of the nodes.                   *)
DependencyVersions == [Nodes -> Nat \cup {Undeclared}]

Depends(q) == {n \in Nodes : q.deps[n] # Undeclared}

Proposal ==
  [id : ProposalIds, node : Nodes, base : Nat, deps : DependencyVersions,
   invalidates : SUBSET Nodes, wellFormed : BOOLEAN, payload : Payloads]

Ids(batch) == {q.id : q \in batch}

(* ProposalBatch.__post_init__ raises unless this holds.                   *)
IsBatch(batch) ==
  /\ batch # {}
  /\ \A p, q \in batch : p.id = q.id => p = q
  /\ \A p, q \in batch : p.base = q.base

(* Two proposals of one batch collide when they write the same node or     *)
(* when one invalidates what the other updates.                            *)
Conflicting(p, q) ==
  \/ p.node = q.node
  \/ p.node \in InvalidatedDependents(q.node)
  \/ q.node \in InvalidatedDependents(p.node)

HasConflict(batch) == \E p, q \in batch : p.id # q.id /\ Conflicting(p, q)

(* Everything an accepted batch makes out of date: the closure of each     *)
(* written node and what the proposals name explicitly.                    *)
Invalidated(batch) ==
  {n \in Nodes : \E q \in batch : n \in InvalidatedBy(q.node) \/ n \in q.invalidates}

(* The ids of the batch whose update touches domain d.                     *)
Effects(batch, d) == Ids({q \in batch : d \in Writes[q.node]})

=============================================================================
