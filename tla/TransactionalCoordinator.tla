---------------------- MODULE TransactionalCoordinator ----------------------
(***************************************************************************)
(* TransactionalCoordinator of typed_runtime/transaction.py: concurrent    *)
(* callers hand it proposal batches, and commit() takes each one, under a  *)
(* lock, through preflight, snapshot, apply, canary and either a rollback  *)
(* or a publication.  The callbacks (apply_proposal, canary, and the       *)
(* snapshot, restore and fingerprint functions of the participants) are    *)
(* the caller's code: each may raise, apply may raise half-way, and a      *)
(* restore may leave damage behind with or without raising.  What a        *)
(* callback does is otherwise as documented, and none of them re-enters    *)
(* the coordinator.  Nobody but the two version attributes is visible to a *)
(* thread that does not hold the lock.                                     *)
(***************************************************************************)
EXTENDS ProposalBatches, Sequences, FiniteSets

CONSTANTS
  Clients,         \* the threads that call commit()
  NoClient,        \* "nobody holds the lock"
  NoId,            \* commit_id=None: the coordinator picks the id
  Participants,    \* the domains a registered participant snapshots
  Frozen,          \* the nodes whose contract is UpdateKind.FROZEN
  InitialVersions, \* [model, nodes]: the version vector the runtime starts from
  EnforceMonotone, \* enforce_monotone_objective
  Verdicts         \* the verdicts the canary may return

(* The canary's verdict: accepted, the overall measured objective change   *)
(* and, for some of the proposals, a change of their own.  "loss" stands   *)
(* for a regression beyond the tolerance or a negative lower confidence    *)
(* bound, "none" for a missing measurement.                                *)

Changes == {"ok", "loss", "none"}
IsCanaryVerdict(v) ==
  /\ v.accepted \in BOOLEAN
  /\ v.lowerBound \in Changes
  /\ v.overall \in Changes
  /\ DOMAIN v.evidence \subseteq ProposalIds
  /\ \A i \in DOMAIN v.evidence : v.evidence[i] \in Changes \ {"none"}

ASSUME CoordinatorAssumption ==
  /\ NoClient \notin Clients
  /\ NoId \notin Nat
  /\ Participants \subseteq Domains
  /\ Frozen \subseteq Nodes
  /\ InitialVersions \in [model : Nat, nodes : [Nodes -> Nat]]
  /\ EnforceMonotone \in BOOLEAN
  /\ \A v \in Verdicts : IsCanaryVerdict(v)

VARIABLES
  \* the coordinator
  modelVersion,    \* versions.model_version
  nodeVersion,     \* versions.node_versions
  poisoned,        \* _poisoned
  seen,            \* _seen_proposal_ids
  commitSequence,  \* _commit_sequence
  commitIds,       \* _commit_ids
  receipts,        \* _receipts
  lock,            \* the caller inside the critical section, or NoClient
  \* the locals of the commit() in the critical section
  currentId,       \* commit_id
  versionsBefore,  \* versions_before
  snapshot,        \* snapshot[d]: what participant d saved
  pending,         \* the proposals not applied yet
  \* the callers
  phase,           \* phase[c]: where c is inside commit(), or "idle"
  request,         \* request[c]: the arguments of c's commit()
  returned,        \* returned[c]: index of the receipt c's last commit() returned
  \* the model being fitted
  state            \* state[d]: ids of the proposals whose effects domain d holds

versionVars == <<modelVersion, nodeVersion>>
idVars      == <<commitSequence, commitIds>>
ledgerVars  == <<poisoned, seen, receipts>>
workVars    == <<currentId, versionsBefore, snapshot, pending>>
vars == <<versionVars, idVars, ledgerVars, workVars, lock, phase, request, returned, state>>

Phases == {"idle", "waiting", "snapshot", "apply", "rollback", "rollbackMalformed",
           "publishModel", "publishNodes"}
Statuses == {"ACCEPTED", "REJECTED", "ROLLED_BACK", "ROLLBACK_FAILED"}

(* commit() raised instead of returning a receipt.                         *)
Raised == 0

Request == [batch : SUBSET Proposal, commitId : Nat \cup {NoId}]
Vector == [model : Nat, nodes : [Nodes -> Nat]]
Receipt ==
  [commitId : Nat, batch : SUBSET Proposal, status : Statuses, before : Vector, after : Vector]

NoRequest == [batch |-> {}, commitId |-> NoId]

Versions == [model |-> modelVersion, nodes |-> nodeVersion]

(* What the locals read as while no commit() is in the critical section.   *)
NoSnapshot == [d \in Participants |-> {}]

Init ==
  /\ modelVersion = InitialVersions.model
  /\ nodeVersion = InitialVersions.nodes
  /\ poisoned = FALSE
  /\ seen = {}
  /\ commitSequence = 0
  /\ commitIds = {}
  /\ receipts = <<>>
  /\ lock = NoClient
  /\ currentId = 0
  /\ versionsBefore = InitialVersions
  /\ snapshot = NoSnapshot
  /\ pending = {}
  /\ phase = [c \in Clients |-> "idle"]
  /\ request = [c \in Clients |-> NoRequest]
  /\ returned = [c \in Clients |-> Raised]
  /\ state = [d \in Domains |-> {}]

-----------------------------------------------------------------------------
(* commit ids                                                              *)

(* Mutant: the generated id is not checked against the used ones.          *)
MutIsNextCommitId(k) == k = commitSequence

(* _next_commit_id: the first id from _commit_sequence on that is unused.  *)
IsNextCommitId(k) ==
  /\ k >= commitSequence
  /\ k \notin commitIds
  /\ \A j \in commitSequence..k : j < k => j \in commitIds

TakeCommitId(c, k) ==
  /\ IF request[c].commitId = NoId
     THEN IsNextCommitId(k) /\ commitSequence' = k + 1
     ELSE k = request[c].commitId /\ k \notin commitIds /\ UNCHANGED commitSequence
  /\ commitIds' = commitIds \cup {k}

-----------------------------------------------------------------------------
(* preflight                                                               *)

AlreadyCommitted(batch) == Ids(batch) \cap seen # {}

(* Mutant: the base version is not compared.                               *)
MutOutOfDate(q) ==
  \/ q.node \notin Depends(q)
  \/ \E n \in Depends(q) : q.deps[n] # nodeVersion[n]

(* The proposal was computed from another version than the current one, or *)
(* does not say which version of its own node it started from.             *)
OutOfDate(q) ==
  \/ q.base # modelVersion
  \/ q.node \notin Depends(q)
  \/ \E n \in Depends(q) : q.deps[n] # nodeVersion[n]

(* Some state the batch writes has no participant that could restore it.   *)
Uncovered(batch) == \E q \in batch : ~(Writes[q.node] \subseteq Participants)

(* Mutant: a poisoned coordinator goes on.                                 *)
MutPreflightError(batch) ==
  \/ AlreadyCommitted(batch)
  \/ HasConflict(batch)
  \/ \E q \in batch : ~q.wellFormed \/ q.node \in Frozen \/ OutOfDate(q)
  \/ Uncovered(batch)

PreflightError(batch) ==
  \/ poisoned
  \/ AlreadyCommitted(batch)
  \/ HasConflict(batch)
  \/ \E q \in batch : ~q.wellFormed \/ q.node \in Frozen \/ OutOfDate(q)
  \/ Uncovered(batch)

-----------------------------------------------------------------------------
(* commit() is left, and with it the lock.                                 *)
Leave(c) ==
  /\ phase' = [phase EXCEPT ![c] = "idle"]
  /\ request' = [request EXCEPT ![c] = NoRequest]
  /\ lock' = NoClient
  /\ currentId' = 0
  /\ versionsBefore' = InitialVersions
  /\ snapshot' = NoSnapshot
  /\ pending' = {}

(* A receipt is recorded and returned.                                     *)
Finish(c, id, status, before, after) ==
  /\ receipts' = Append(receipts, [commitId |-> id, batch |-> request[c].batch,
                                   status |-> status, before |-> before, after |-> after])
  /\ returned' = [returned EXCEPT ![c] = Len(receipts) + 1]
  /\ Leave(c)

-----------------------------------------------------------------------------
(* actions                                                                 *)

(* A thread calls commit(); the lock decides when it goes on.              *)
Call(c, batch, id) ==
  /\ phase[c] = "idle"
  /\ IsBatch(batch)
  /\ phase' = [phase EXCEPT ![c] = "waiting"]
  /\ request' = [request EXCEPT ![c] = [batch |-> batch, commitId |-> id]]
  /\ UNCHANGED <<versionVars, idVars, ledgerVars, workVars, lock, returned, state>>

Entering(c) == phase[c] = "waiting" /\ lock = NoClient

(* An explicit id that was used before raises ValueError.                  *)
RefuseCommitId(c) ==
  /\ Entering(c)
  /\ request[c].commitId \in commitIds
  /\ phase' = [phase EXCEPT ![c] = "idle"]
  /\ request' = [request EXCEPT ![c] = NoRequest]
  /\ returned' = [returned EXCEPT ![c] = Raised]
  /\ UNCHANGED <<versionVars, idVars, ledgerVars, workVars, lock, state>>

RejectAtPreflight(c, k) ==
  /\ Entering(c)
  /\ TakeCommitId(c, k)
  /\ PreflightError(request[c].batch)
  /\ Finish(c, k, "REJECTED", Versions, Versions)
  /\ UNCHANGED <<versionVars, poisoned, seen, state>>

Admit(c, k) ==
  /\ Entering(c)
  /\ TakeCommitId(c, k)
  /\ ~PreflightError(request[c].batch)
  /\ currentId' = k
  /\ versionsBefore' = Versions
  /\ lock' = c
  /\ phase' = [phase EXCEPT ![c] = "snapshot"]
  /\ UNCHANGED <<versionVars, ledgerVars, snapshot, pending, request, returned, state>>

(* Fingerprint and snapshot every participant.                             *)
TakeSnapshot(c) ==
  /\ phase[c] = "snapshot"
  /\ snapshot' = [d \in Participants |-> state[d]]
  /\ pending' = request[c].batch
  /\ phase' = [phase EXCEPT ![c] = "apply"]
  /\ UNCHANGED <<versionVars, idVars, ledgerVars, currentId, versionsBefore, lock, request,
                 returned, state>>

(* Mutant: the early return keeps the lock.                                *)
MutSnapshotRaises(c) ==
  /\ phase[c] = "snapshot"
  /\ phase' = [phase EXCEPT ![c] = "idle"]
  /\ UNCHANGED <<versionVars, idVars, ledgerVars, workVars, lock, request, returned, state>>

SnapshotRaises(c) ==
  /\ phase[c] = "snapshot"
  /\ Finish(c, currentId, "REJECTED", versionsBefore, Versions)
  /\ UNCHANGED <<versionVars, idVars, poisoned, seen, state>>

(* _ordered_proposals: topological order of the nodes.                     *)
NextToApply(q) ==
  /\ q \in pending
  /\ \A r \in pending : Rank[q.node] <= Rank[r.node]

(* Mutant: the effect is recorded under the node's id.                     *)
MutTouch(q, reach) ==
  state' = [d \in Domains |-> IF d \in reach THEN state[d] \cup {q.node} ELSE state[d]]

(* apply_proposal(q) reaches the domains in reach.                         *)
Touch(q, reach) ==
  state' = [d \in Domains |-> IF d \in reach THEN state[d] \cup {q.id} ELSE state[d]]

Apply(c, q) ==
  /\ phase[c] = "apply"
  /\ NextToApply(q)
  /\ Touch(q, Writes[q.node])
  /\ pending' = pending \ {q}
  /\ UNCHANGED <<versionVars, idVars, ledgerVars, currentId, versionsBefore, snapshot, lock, phase,
                 request, returned>>

ApplyRaises(c, q) ==
  /\ phase[c] = "apply"
  /\ NextToApply(q)
  /\ \E reach \in SUBSET Writes[q.node] : Touch(q, reach)
  /\ phase' = [phase EXCEPT ![c] = "rollback"]
  /\ UNCHANGED <<versionVars, idVars, ledgerVars, workVars, lock, request, returned>>

-----------------------------------------------------------------------------
StrictRows(batch) == {q \in batch : q.node \in Strict}

(* One strict proposal without evidence of its own may rely on the overall *)
(* measurement; in a larger batch each needs its own.                      *)
StrictError(batch, verdict) ==
  \E q \in StrictRows(batch) :
    IF q.id \in DOMAIN verdict.evidence THEN verdict.evidence[q.id] = "loss"
    ELSE \E r \in batch : r # q \/ verdict.overall # "ok"

ObjectiveError(batch, verdict) ==
  \/ ~verdict.accepted
  \/ ~(DOMAIN verdict.evidence \subseteq Ids(batch))
  \/ verdict.lowerBound = "loss"
  \/ EnforceMonotone /\ StrictError(batch, verdict)

Applied(c) == phase[c] = "apply" /\ pending = {}

CanaryAccepts(c, verdict) ==
  /\ Applied(c)
  /\ ~ObjectiveError(request[c].batch, verdict)
  /\ phase' = [phase EXCEPT ![c] = "publishModel"]
  /\ UNCHANGED <<versionVars, idVars, ledgerVars, workVars, lock, request, returned, state>>

CanaryRejects(c, verdict) ==
  /\ Applied(c)
  /\ ObjectiveError(request[c].batch, verdict)
  /\ phase' = [phase EXCEPT ![c] = "rollback"]
  /\ UNCHANGED <<versionVars, idVars, ledgerVars, workVars, lock, request, returned, state>>

(* The canary, or a fingerprint taken after it, raises.                    *)
CanaryRaises(c) ==
  /\ Applied(c)
  /\ phase' = [phase EXCEPT ![c] = "rollback"]
  /\ UNCHANGED <<versionVars, idVars, ledgerVars, workVars, lock, request, returned, state>>

(* The canary returns something, neither None nor a CanaryVerdict: the     *)
(* check that follows raises TypeError, but the local verdict keeps it.    *)
CanaryMalformed(c) ==
  /\ Applied(c)
  /\ phase' = [phase EXCEPT ![c] = "rollbackMalformed"]
  /\ UNCHANGED <<versionVars, idVars, ledgerVars, workVars, lock, request, returned, state>>

-----------------------------------------------------------------------------
(* _rollback: every participant is restored whatever the others do; some   *)
(* raise, the ones in damaged leave what they found (having raised or      *)
(* not), and fingerprinting afterwards may raise too.  The rollback is     *)
(* verified when nothing raised and the fingerprints are the old ones.     *)
RestoredState(damaged) ==
  [d \in Domains |-> IF d \in Participants \ damaged THEN snapshot[d] ELSE state[d]]

(* Mutant: one participant's fingerprint is enough.                        *)
MutSameFingerprints(s) == \E d \in Participants : s[d] = snapshot[d]

SameFingerprints(s) == \A d \in Participants : s[d] = snapshot[d]

Verified(raised, damaged) == ~raised /\ SameFingerprints(RestoredState(damaged))

Undo(raised, damaged) ==
  /\ state' = RestoredState(damaged)
  /\ poisoned' = ~Verified(raised, damaged)
  /\ UNCHANGED <<versionVars, idVars, seen>>

Rollback(c, raised, damaged) ==
  /\ phase[c] = "rollback"
  /\ Undo(raised, damaged)
  /\ Finish(c, currentId, IF Verified(raised, damaged) THEN "ROLLED_BACK" ELSE "ROLLBACK_FAILED",
            versionsBefore, Versions)

(* CommitReceipt refuses the malformed verdict, so commit() raises after   *)
(* the rollback and records nothing.                                       *)
RollbackThenRaise(c, raised, damaged) ==
  /\ phase[c] = "rollbackMalformed"
  /\ Undo(raised, damaged)
  /\ returned' = [returned EXCEPT ![c] = Raised]
  /\ Leave(c)
  /\ UNCHANGED receipts

-----------------------------------------------------------------------------
(* Publication: two assignments, and a reader without the lock may run     *)
(* between them.  The ledger is only read under the lock.                  *)

(* Mutant: only the written nodes advance, not what depends on them.       *)
MutAdvance(versions, batch) ==
  [n \in Nodes |-> IF \E q \in batch : q.node = n THEN versions[n] + 1 ELSE versions[n]]

Advance(versions, batch) ==
  [n \in Nodes |-> IF n \in Invalidated(batch) THEN versions[n] + 1 ELSE versions[n]]

PublishModel(c) ==
  /\ phase[c] = "publishModel"
  /\ modelVersion' = modelVersion + 1
  /\ phase' = [phase EXCEPT ![c] = "publishNodes"]
  /\ UNCHANGED <<nodeVersion, idVars, ledgerVars, workVars, lock, request, returned, state>>

(* Mutant: the receipt shows the node versions before they were advanced.  *)
MutPublishNodes(c) ==
  /\ phase[c] = "publishNodes"
  /\ nodeVersion' = Advance(nodeVersion, request[c].batch)
  /\ seen' = seen \cup Ids(request[c].batch)
  /\ Finish(c, currentId, "ACCEPTED", versionsBefore, Versions)
  /\ UNCHANGED <<modelVersion, idVars, poisoned, state>>

PublishNodes(c) ==
  /\ phase[c] = "publishNodes"
  /\ nodeVersion' = Advance(nodeVersion, request[c].batch)
  /\ seen' = seen \cup Ids(request[c].batch)
  /\ Finish(c, currentId, "ACCEPTED", versionsBefore,
            [model |-> modelVersion, nodes |-> nodeVersion'])
  /\ UNCHANGED <<modelVersion, idVars, poisoned, state>>

-----------------------------------------------------------------------------
Enter(c, k) == RejectAtPreflight(c, k) \/ Admit(c, k)

Settle(c) ==
  \/ SnapshotRaises(c)
  \/ \E raised \in BOOLEAN, damaged \in SUBSET Participants :
       Rollback(c, raised, damaged) \/ RollbackThenRaise(c, raised, damaged)
  \/ PublishModel(c)
  \/ PublishNodes(c)

Work(c) ==
  \/ TakeSnapshot(c)
  \/ \E q \in request[c].batch : Apply(c, q) \/ ApplyRaises(c, q)
  \/ \E verdict \in Verdicts : CanaryAccepts(c, verdict) \/ CanaryRejects(c, verdict)
  \/ CanaryRaises(c) \/ CanaryMalformed(c)

(* The steps of one commit() call; ids are the commit ids that may be taken. *)
Step(c, ids) ==
  \/ RefuseCommitId(c)
  \/ \E k \in ids : Enter(c, k)
  \/ Work(c)
  \/ Settle(c)

Next ==
  \E c \in Clients :
    \/ \E batch \in SUBSET Proposal, id \in Nat \cup {NoId} : Call(c, batch, id)
    \/ Step(c, Nat)

Spec == Init /\ [][Next]_vars

-----------------------------------------------------------------------------
(* properties                                                              *)

(* Type correctness: versions and ids are naturals, a snapshot covers all  *)
(* participants, and the model holds effects of proposals and nothing else. *)
TypeOK ==
  /\ modelVersion \in Nat
  /\ nodeVersion \in [Nodes -> Nat]
  /\ poisoned \in BOOLEAN
  /\ seen \subseteq ProposalIds
  /\ commitSequence \in Nat
  /\ commitIds \subseteq Nat
  /\ receipts \in Seq(Receipt)
  /\ lock \in Clients \cup {NoClient}
  /\ currentId \in Nat
  /\ versionsBefore \in Vector
  /\ snapshot \in [Participants -> SUBSET ProposalIds]
  /\ pending \subseteq Proposal
  /\ phase \in [Clients -> Phases]
  /\ request \in [Clients -> Request]
  /\ returned \in [Clients -> Nat]
  /\ state \in [Domains -> SUBSET ProposalIds]

Accepted == {i \in DOMAIN receipts : receipts[i].status = "ACCEPTED"}

(* Between commits the model holds exactly the effects of the accepted     *)
(* batches, in every domain, registered with a participant or not: nothing *)
(* of a batch that was rejected, raised half-way or was rolled back.       *)
LedgerMatchesState ==
  lock = NoClient /\ ~poisoned =>
    \A d \in Domains : state[d] = UNION {Effects(receipts[i].batch, d) : i \in Accepted}

(* Commits are serializable: an accepted proposal was computed from the    *)
(* model that all the batches accepted before it, and no others, produced, *)
(* and every node it says it depends on was unchanged since.               *)
Serializable ==
  \A i \in Accepted : \A q \in receipts[i].batch :
    LET earlier == {j \in Accepted : j < i}
    IN /\ q.base = InitialVersions.model + Cardinality(earlier)
       /\ \A n \in Depends(q) :
            q.deps[n] = InitialVersions.nodes[n]
                        + Cardinality({j \in earlier : n \in Invalidated(receipts[j].batch)})

(* The receipts are a complete account of the version vector: each one     *)
(* starts where the previous one ended, only an accepted one moves it, and *)
(* the last one ends at what a caller reads between commits.               *)
VectorBefore(i) == IF i = 1 THEN InitialVersions ELSE receipts[i - 1].after

ReceiptsChain ==
  /\ \A i \in DOMAIN receipts :
       /\ receipts[i].before = VectorBefore(i)
       /\ receipts[i].status # "ACCEPTED" => receipts[i].after = receipts[i].before
  /\ lock = NoClient => Versions = VectorBefore(Len(receipts) + 1)

(* No two receipts share a commit id, whichever ids callers choose.        *)
UniqueCommitIds ==
  \A i, j \in DOMAIN receipts : receipts[i].commitId = receipts[j].commitId => i = j

(* Once a rollback could not be verified the coordinator never advances    *)
(* again and never touches the model again.                                *)
PoisonIsFinal ==
  [][poisoned => poisoned' /\ UNCHANGED <<versionVars, seen, state>>]_vars

(* commit() always returns a terminal receipt: a call that took the lock   *)
(* releases it by recording one.                                           *)
AlwaysReceipted ==
  [][\A c \in Clients : lock = c /\ lock' # c => Len(receipts') = Len(receipts) + 1]_vars

(* Every call of commit() ends, waiting for the lock included, if the      *)
(* callbacks return and finitely many calls compete for the lock.          *)
CommitReturns == \A c \in Clients : phase[c] # "idle" ~> phase[c] = "idle"

(* The coordinator implements VersionedLedger: a batch is installed at the *)
(* step that publishes the node versions.  While a commit holds the lock,  *)
(* the ledger's contents are what the participants saved.                  *)
Working ==
  \E c \in Clients :
    phase[c] \in {"apply", "rollback", "rollbackMalformed", "publishModel", "publishNodes"}
Publishing == \E c \in Clients : phase[c] = "publishNodes"
InProgress == {c \in Clients : phase[c] # "idle"}

Ledger == INSTANCE VersionedLedger WITH
  offered <- {request[c].batch : c \in InProgress},
  modelVersion <- IF Publishing THEN versionsBefore.model ELSE modelVersion,
  state <- [d \in Domains |-> IF Working /\ d \in Participants THEN snapshot[d] ELSE state[d]],
  live <- ~poisoned

ImplementsLedger == Ledger!LedgerSpec

=============================================================================
