-------------------------- MODULE VersionedLedger --------------------------
(***************************************************************************)
(* What a transactional coordinator promises to its callers, with no lock, *)
(* no callback and no intermediate state: a batch of proposals is either   *)
(* installed whole, at exactly the versions it was computed from, or it    *)
(* leaves nothing behind.  The only other thing that can happen is that    *)
(* the ledger dies, after which its contents are unspecified and frozen.   *)
(***************************************************************************)
EXTENDS ProposalBatches

CONSTANTS
  InitialVersions  \* [model, nodes]: the version vector the runtime starts from

VARIABLES
  offered,      \* the batches callers are asking to commit (an input: any value)
  modelVersion, \* the global version
  nodeVersion,  \* the version of every node
  state,        \* state[d]: ids of the proposals whose effects domain d holds
  seen,         \* ids of the proposals installed so far
  live          \* FALSE once a rollback could not be verified

ledgerVars == <<modelVersion, nodeVersion, state, seen, live>>

Advance(versions, batch) ==
  [n \in Nodes |-> IF n \in Invalidated(batch) THEN versions[n] + 1 ELSE versions[n]]

(* q was computed from the current version vector.                         *)
ComputedFromCurrent(q) ==
  /\ q.base = modelVersion
  /\ q.node \in Depends(q)
  /\ \A n \in Depends(q) : q.deps[n] = nodeVersion[n]

LedgerInit ==
  /\ modelVersion = InitialVersions.model
  /\ nodeVersion = InitialVersions.nodes
  /\ state = [d \in Domains |-> {}]
  /\ seen = {}
  /\ live = TRUE

Install(batch) ==
  /\ live
  /\ IsBatch(batch)
  /\ Ids(batch) \cap seen = {}
  /\ \A q \in batch : ComputedFromCurrent(q)
  /\ modelVersion' = modelVersion + 1
  /\ nodeVersion' = Advance(nodeVersion, batch)
  /\ state' = [d \in Domains |-> state[d] \cup Effects(batch, d)]
  /\ seen' = seen \cup Ids(batch)
  /\ UNCHANGED live

Die ==
  /\ live
  /\ live' = FALSE
  /\ state' \in [Domains -> SUBSET ProposalIds]
  /\ UNCHANGED <<modelVersion, nodeVersion, seen>>

LedgerNext == Die \/ \E batch \in offered : Install(batch)

LedgerSpec == LedgerInit /\ [][LedgerNext]_ledgerVars

=============================================================================
