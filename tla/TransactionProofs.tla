------------------------- MODULE TransactionProofs -------------------------
(***************************************************************************)
(* Proofs about TransactionalCoordinator, for any number of callers, any   *)
(* dependency graph and any set of packets.  The order is: types, mutual   *)
(* exclusion and poisoning, commit ids, the chain of version vectors, the  *)
(* contents of the model; then the refinement of VersionedLedger: every    *)
(* step of a commit, in whatever phase, is a step of the ledger or leaves  *)
(* it alone; and Serializable: whatever the callers interleave, an         *)
(* accepted proposal was computed from exactly what the accepted batches   *)
(* before it produced.                                                     *)
(***************************************************************************)
EXTENDS TransactionalCoordinator, FiniteSetTheorems, TLAPS

USE CoordinatorAssumption

-----------------------------------------------------------------------------
(* Types                                                                   *)

(* Finish keeps the types of what it writes.                               *)
LEMMA FinishKeepsTypes ==
  ASSUME TypeOK, NEW c \in Clients, NEW id \in Nat, NEW status \in Statuses,
         NEW before \in Vector, NEW after \in Vector,
         Finish(c, id, status, before, after)
  PROVE  /\ receipts' \in Seq(Receipt)
         /\ returned' \in [Clients -> Nat]
         /\ phase' \in [Clients -> Phases]
         /\ request' \in [Clients -> Request]
         /\ lock' \in Clients \cup {NoClient}
         /\ currentId' \in Nat
         /\ versionsBefore' \in Vector
         /\ snapshot' \in [Participants -> SUBSET ProposalIds]
         /\ pending' \subseteq Proposal
<1> DEFINE r == [commitId |-> id, batch |-> request[c].batch, status |-> status,
                 before |-> before, after |-> after]
<1>1. request[c] \in Request
  BY DEF TypeOK
<1>2. r \in Receipt
  BY <1>1 DEF Receipt, Request
<1>3. receipts' = Append(receipts, r) /\ receipts \in Seq(Receipt)
  BY DEF Finish, TypeOK
<1>4. receipts' \in Seq(Receipt) /\ Len(receipts) \in Nat
  BY <1>2, <1>3
<1>5. NoRequest \in Request
  BY DEF NoRequest, Request
<1>6. "idle" \in Phases
  BY DEF Phases
<1>7. InitialVersions \in Vector
  BY DEF Vector
<1> QED
  BY <1>4, <1>5, <1>6, <1>7 DEF Finish, Leave, TypeOK, NoSnapshot

(* A version vector read by a commit is a vector.                          *)
LEMMA VersionsType == TypeOK => Versions \in Vector
BY DEF TypeOK, Versions, Vector

(* The types hold initially, and every step of a commit and every call of  *)
(* commit() keeps them.                                                    *)
LEMMA TypeInit == Init => TypeOK
<1> SUFFICES ASSUME Init PROVE TypeOK
  OBVIOUS
<1>1. /\ modelVersion \in Nat
      /\ nodeVersion \in [Nodes -> Nat]
      /\ versionsBefore \in Vector
  BY DEF Init, Vector
<1>2. receipts \in Seq(Receipt) /\ snapshot \in [Participants -> SUBSET ProposalIds]
  BY DEF Init, NoSnapshot
<1>3. NoRequest \in Request /\ "idle" \in Phases /\ Raised \in Nat
  BY DEF Request, NoRequest, Phases, Raised
<1>4. /\ phase \in [Clients -> Phases]
      /\ request \in [Clients -> Request]
      /\ returned \in [Clients -> Nat]
      /\ state \in [Domains -> SUBSET ProposalIds]
  BY <1>3 DEF Init
<1> QED
  BY <1>1, <1>2, <1>4 DEF Init, TypeOK

LEMMA TypeStep == TypeOK /\ [Next]_vars => TypeOK'
<1> SUFFICES ASSUME TypeOK, [Next]_vars PROVE TypeOK'
  OBVIOUS
<1>v. Versions \in Vector
  BY VersionsType
<1>1. ASSUME NEW c \in Clients, NEW batch \in SUBSET Proposal, NEW id \in Nat \cup {NoId},
             Call(c, batch, id)
      PROVE  TypeOK'
  <2>1. [batch |-> batch, commitId |-> id] \in Request /\ "waiting" \in Phases
    BY DEF Request, Phases
  <2> QED
    BY <1>1, <2>1 DEF TypeOK, Call, versionVars, idVars, ledgerVars, workVars
<1>2. ASSUME NEW c \in Clients, RefuseCommitId(c) PROVE TypeOK'
  <2>1. "idle" \in Phases /\ NoRequest \in Request /\ Raised \in Nat
    BY DEF Phases, NoRequest, Request, Raised
  <2> QED
    BY <1>2, <2>1 DEF TypeOK, RefuseCommitId, versionVars, idVars, ledgerVars, workVars
<1>t. ASSUME NEW c \in Clients, NEW k \in Nat, TakeCommitId(c, k)
      PROVE  commitSequence' \in Nat /\ commitIds' \subseteq Nat
  BY <1>t DEF TypeOK, TakeCommitId
<1>3. ASSUME NEW c \in Clients, NEW k \in Nat, RejectAtPreflight(c, k) PROVE TypeOK'
  <2>1. "REJECTED" \in Statuses
    BY DEF Statuses
  <2>2. Finish(c, k, "REJECTED", Versions, Versions) /\ TakeCommitId(c, k)
    BY <1>3 DEF RejectAtPreflight
  <2> QED
    BY <1>3, <1>t, <1>v, <2>1, <2>2, FinishKeepsTypes
    DEF TypeOK, RejectAtPreflight, versionVars
<1>4. ASSUME NEW c \in Clients, NEW k \in Nat, Admit(c, k) PROVE TypeOK'
  <2>1. TakeCommitId(c, k)
    BY <1>4 DEF Admit
  <2> QED
    BY <1>4, <1>t, <1>v, <2>1 DEF TypeOK, Admit, Phases, versionVars, ledgerVars
<1>5. ASSUME NEW c \in Clients, TakeSnapshot(c) PROVE TypeOK'
  BY <1>5 DEF TypeOK, TakeSnapshot, Phases, Request, versionVars, idVars, ledgerVars
<1>6. ASSUME NEW c \in Clients, SnapshotRaises(c) PROVE TypeOK'
  <2>1. "REJECTED" \in Statuses /\ currentId \in Nat
    BY DEF Statuses, TypeOK
  <2>2. Finish(c, currentId, "REJECTED", versionsBefore, Versions)
    BY <1>6 DEF SnapshotRaises
  <2> QED
    BY <1>6, <1>v, <2>1, <2>2, FinishKeepsTypes
    DEF TypeOK, SnapshotRaises, versionVars, idVars
<1>7. ASSUME NEW c \in Clients, NEW q \in request[c].batch, Apply(c, q) PROVE TypeOK'
  <2>1. q.id \in ProposalIds
    BY DEF TypeOK, Request, Proposal
  <2>2. state' \in [Domains -> SUBSET ProposalIds]
    BY <1>7, <2>1 DEF TypeOK, Apply, Touch
  <2> QED
    BY <1>7, <2>2 DEF TypeOK, Apply, versionVars, idVars, ledgerVars
<1>8. ASSUME NEW c \in Clients, NEW q \in request[c].batch, ApplyRaises(c, q) PROVE TypeOK'
  <2>1. q.id \in ProposalIds
    BY DEF TypeOK, Request, Proposal
  <2>2. state' \in [Domains -> SUBSET ProposalIds]
    BY <1>8, <2>1 DEF TypeOK, ApplyRaises, Touch
  <2> QED
    BY <1>8, <2>2 DEF TypeOK, ApplyRaises, Phases, versionVars, idVars, ledgerVars, workVars
<1>9. ASSUME NEW c \in Clients, NEW verdict \in Verdicts,
             CanaryAccepts(c, verdict) \/ CanaryRejects(c, verdict)
      PROVE  TypeOK'
  BY <1>9 DEF TypeOK, CanaryAccepts, CanaryRejects, Phases,
              versionVars, idVars, ledgerVars, workVars
<1>10. ASSUME NEW c \in Clients, CanaryRaises(c) \/ CanaryMalformed(c) PROVE TypeOK'
  BY <1>10 DEF TypeOK, CanaryRaises, CanaryMalformed, Phases, versionVars, idVars, ledgerVars,
     workVars
<1>u. ASSUME NEW raised, NEW damaged \in SUBSET Participants, Undo(raised, damaged)
      PROVE  /\ state' \in [Domains -> SUBSET ProposalIds]
             /\ poisoned' \in BOOLEAN
             /\ UNCHANGED <<versionVars, idVars, seen>>
  BY <1>u DEF TypeOK, Undo, RestoredState, Verified
<1>11. ASSUME NEW c \in Clients, NEW raised \in BOOLEAN, NEW damaged \in SUBSET Participants,
              Rollback(c, raised, damaged)
       PROVE  TypeOK'
  <2>1. currentId \in Nat
    BY DEF TypeOK
  <2>2. /\ Undo(raised, damaged)
        /\ \E status \in Statuses : Finish(c, currentId, status, versionsBefore, Versions)
    BY <1>11 DEF Rollback, Statuses
  <2> QED
    BY <1>u, <1>v, <2>1, <2>2, FinishKeepsTypes DEF TypeOK, versionVars, idVars
<1>m. ASSUME NEW c \in Clients, NEW raised \in BOOLEAN, NEW damaged \in SUBSET Participants,
             RollbackThenRaise(c, raised, damaged)
      PROVE  TypeOK'
  <2>1. /\ Undo(raised, damaged) /\ Leave(c) /\ UNCHANGED receipts
        /\ returned' = [returned EXCEPT ![c] = Raised]
    BY <1>m DEF RollbackThenRaise
  <2>2. "idle" \in Phases /\ NoRequest \in Request /\ Raised \in Nat /\ InitialVersions \in Vector
    BY DEF Phases, NoRequest, Request, Raised, Vector
  <2> QED
    BY <1>u, <2>1, <2>2 DEF TypeOK, Leave, NoSnapshot, versionVars, idVars
<1>12. ASSUME NEW c \in Clients, PublishModel(c) PROVE TypeOK'
  BY <1>12 DEF TypeOK, PublishModel, Phases, versionVars, idVars, ledgerVars, workVars
<1>13. ASSUME NEW c \in Clients, PublishNodes(c) PROVE TypeOK'
  <2> DEFINE after == [model |-> modelVersion, nodes |-> nodeVersion']
  <2>1. nodeVersion' \in [Nodes -> Nat] /\ UNCHANGED modelVersion
    BY <1>13 DEF TypeOK, PublishNodes, Advance
  <2>2. versionsBefore \in Vector /\ after \in Vector
    BY <2>1 DEF TypeOK, Vector
  <2>3. "ACCEPTED" \in Statuses /\ currentId \in Nat
    BY DEF Statuses, TypeOK
  <2>4. Finish(c, currentId, "ACCEPTED", versionsBefore, after)
    BY <1>13 DEF PublishNodes
  <2>5. seen' \subseteq ProposalIds
    BY <1>13 DEF TypeOK, PublishNodes, Ids, Request, Proposal
  <2> HIDE DEF after
  <2> QED
    BY <1>13, <2>1, <2>2, <2>3, <2>4, <2>5, FinishKeepsTypes DEF TypeOK, PublishNodes, idVars
<1>14. ASSUME NEW c \in Clients, Step(c, Nat) PROVE TypeOK'
  <2>1. CASE Work(c)
    BY <2>1, <1>5, <1>7, <1>8, <1>9, <1>10 DEF Work
  <2>2. CASE Settle(c)
    BY <2>2, <1>6, <1>11, <1>m, <1>12, <1>13 DEF Settle
  <2> QED
    BY <1>14, <2>1, <2>2, <1>2, <1>3, <1>4 DEF Step, Enter
<1>15. CASE UNCHANGED vars
  BY <1>15 DEF TypeOK, vars, versionVars, idVars, ledgerVars, workVars
<1>16. CASE Next
  <2>1. PICK c \in Clients :
          \/ \E batch \in SUBSET Proposal, id \in Nat \cup {NoId} : Call(c, batch, id)
          \/ Step(c, Nat)
    BY <1>16 DEF Next
  <2> QED
    BY <2>1, <1>1, <1>14
<1> QED
  BY <1>15, <1>16

(* TypeOK is an invariant: no step, whatever the callbacks do, leaves the   *)
(* coordinator's data outside their types.                                 *)
THEOREM TypeCorrect == Spec => []TypeOK
<1> QED
  BY TypeInit, TypeStep, PTL DEF Spec

-----------------------------------------------------------------------------
(* Mutual exclusion and poisoning                                          *)

Critical == {"snapshot", "apply", "rollback", "rollbackMalformed", "publishModel", "publishNodes"}

(* The lock is held by the one caller that is inside the critical section, *)
(* which it entered, and only keeps, while the coordinator is not poisoned. *)
Mutex ==
  /\ \A c \in Clients : phase[c] \in Critical <=> lock = c
  /\ lock # NoClient => ~poisoned

LEMMA MutexStep == TypeOK /\ Mutex /\ [Next]_vars => Mutex'
<1> SUFFICES ASSUME TypeOK, Mutex, [Next]_vars PROVE Mutex'
  OBVIOUS
<1> USE DEF TypeOK, Mutex, Critical
<1>1. ASSUME NEW c \in Clients, NEW batch, NEW id, Call(c, batch, id) PROVE Mutex'
  BY <1>1 DEF Call, ledgerVars
<1>2. ASSUME NEW c \in Clients, RefuseCommitId(c) PROVE Mutex'
  BY <1>2 DEF RefuseCommitId, Entering, ledgerVars
<1>3. ASSUME NEW c \in Clients, NEW k \in Nat, RejectAtPreflight(c, k) PROVE Mutex'
  BY <1>3 DEF RejectAtPreflight, Entering, Finish, Leave
<1>4. ASSUME NEW c \in Clients, NEW k \in Nat, Admit(c, k) PROVE Mutex'
  BY <1>4 DEF Admit, Entering, PreflightError, ledgerVars
<1>5. ASSUME NEW c \in Clients, TakeSnapshot(c) PROVE Mutex'
  BY <1>5 DEF TakeSnapshot, ledgerVars
<1>6. ASSUME NEW c \in Clients, SnapshotRaises(c) PROVE Mutex'
  BY <1>6 DEF SnapshotRaises, Finish, Leave
<1>7. ASSUME NEW c \in Clients, NEW q, Apply(c, q) PROVE Mutex'
  BY <1>7 DEF Apply, ledgerVars
<1>8. ASSUME NEW c \in Clients, NEW q, ApplyRaises(c, q) PROVE Mutex'
  BY <1>8 DEF ApplyRaises, ledgerVars
<1>9. ASSUME NEW c \in Clients, NEW verdict, CanaryAccepts(c, verdict) PROVE Mutex'
  BY <1>9 DEF CanaryAccepts, Applied, ledgerVars
<1>10. ASSUME NEW c \in Clients, NEW verdict, CanaryRejects(c, verdict) PROVE Mutex'
  BY <1>10 DEF CanaryRejects, Applied, ledgerVars
<1>11. ASSUME NEW c \in Clients, CanaryRaises(c) \/ CanaryMalformed(c) PROVE Mutex'
  BY <1>11 DEF CanaryRaises, CanaryMalformed, Applied, ledgerVars
<1>12. ASSUME NEW c \in Clients, NEW raised, NEW damaged,
              Rollback(c, raised, damaged) \/ RollbackThenRaise(c, raised, damaged)
       PROVE  Mutex'
  BY <1>12 DEF Rollback, RollbackThenRaise, Undo, Finish, Leave
<1>13. ASSUME NEW c \in Clients, PublishModel(c) PROVE Mutex'
  BY <1>13 DEF PublishModel, ledgerVars
<1>14. ASSUME NEW c \in Clients, PublishNodes(c) PROVE Mutex'
  BY <1>14 DEF PublishNodes, Finish, Leave
<1>15. CASE UNCHANGED vars
  BY <1>15 DEF vars, ledgerVars
<1> QED
  BY <1>1, <1>2, <1>3, <1>4, <1>5, <1>6, <1>7, <1>8, <1>9, <1>10, <1>11, <1>12, <1>13, <1>14,
     <1>15
  DEF Next, Step, Enter, Work, Settle

(* The type invariant and mutual exclusion hold together, always.          *)
LEMMA MutexCorrect == Spec => [](TypeOK /\ Mutex)
<1>1. Init => Mutex
  BY DEF Init, Mutex, Critical
<1> QED
  BY <1>1, TypeInit, TypeStep, MutexStep, PTL DEF Spec

(* PoisonIsFinal: once a rollback could not be verified, no step moves the  *)
(* versions, records a proposal as installed or touches the model.         *)
THEOREM PoisonStays == Spec => PoisonIsFinal
<1> DEFINE Kept == poisoned' /\ UNCHANGED <<versionVars, seen, state>>
<1>1. TypeOK /\ Mutex /\ [Next]_vars => [poisoned => Kept]_vars
  <2> SUFFICES ASSUME TypeOK, Mutex, poisoned, Next PROVE Kept
    BY DEF vars, versionVars
  <2>1. \A c \in Clients : phase[c] \notin Critical
    BY DEF Mutex, TypeOK
  <2>2. ASSUME NEW c \in Clients, NEW batch, NEW id, Call(c, batch, id) PROVE Kept
    BY <2>2 DEF Call, ledgerVars
  <2>3. ASSUME NEW c \in Clients, RefuseCommitId(c) PROVE Kept
    BY <2>3 DEF RefuseCommitId, ledgerVars
  <2>4. ASSUME NEW c \in Clients, NEW k \in Nat, Enter(c, k) PROVE Kept
    BY <2>4 DEF Enter, RejectAtPreflight, Admit, PreflightError
  <2>5. ASSUME NEW c \in Clients, Work(c) PROVE FALSE
    BY <2>1, <2>5 DEF Work, TakeSnapshot, Apply, ApplyRaises, CanaryAccepts, CanaryRejects,
       CanaryRaises, CanaryMalformed, Applied, Critical
  <2>6. ASSUME NEW c \in Clients, Settle(c) PROVE FALSE
    BY <2>1, <2>6 DEF Settle, SnapshotRaises, Rollback, RollbackThenRaise, PublishModel,
       PublishNodes, Critical
  <2> QED
    BY <2>2, <2>3, <2>4, <2>5, <2>6 DEF Next, Step
<1> QED
  BY <1>1, MutexCorrect, PTL DEF Spec, PoisonIsFinal

-----------------------------------------------------------------------------
(* Receipts                                                                *)

(* Exactly one receipt was recorded.                                       *)
Recorded(c, id, status, before, after) ==
  /\ Len(receipts') = Len(receipts) + 1
  /\ DOMAIN receipts' = DOMAIN receipts \cup {Len(receipts) + 1}
  /\ Len(receipts) + 1 \notin DOMAIN receipts
  /\ \A i \in DOMAIN receipts : receipts'[i] = receipts[i]
  /\ receipts'[Len(receipts) + 1].commitId = id
  /\ receipts'[Len(receipts) + 1].batch = request[c].batch
  /\ receipts'[Len(receipts) + 1].status = status
  /\ receipts'[Len(receipts) + 1].before = before
  /\ receipts'[Len(receipts) + 1].after = after

(* Finish appends one receipt and leaves the earlier ones alone.           *)
LEMMA FinishAppends ==
  ASSUME TypeOK, NEW c \in Clients, NEW id, NEW status, NEW before, NEW after,
         Finish(c, id, status, before, after)
  PROVE  Recorded(c, id, status, before, after)
<1> DEFINE r == [commitId |-> id, batch |-> request[c].batch, status |-> status,
                 before |-> before, after |-> after]
<1>1. receipts \in Seq(Receipt) /\ receipts' = Append(receipts, r)
  BY DEF Finish, TypeOK
<1>2. receipts \in Seq(Receipt \cup {r})
  BY <1>1
<1> HIDE DEF r
<1>3. /\ Len(receipts') = Len(receipts) + 1
      /\ DOMAIN receipts' = 1 .. Len(receipts) + 1
      /\ DOMAIN receipts = 1 .. Len(receipts)
      /\ Len(receipts) \in Nat
      /\ \A i \in 1 .. Len(receipts) : receipts'[i] = receipts[i]
      /\ receipts'[Len(receipts) + 1] = r
  BY <1>1, <1>2
<1> QED
  BY <1>3 DEF r, Recorded

(* Every id that was handed out is in the set of used ids, and the commit   *)
(* in progress has one that no receipt carries.                            *)
IdsInvariant ==
  /\ \A i \in DOMAIN receipts : receipts[i].commitId \in commitIds
  /\ lock # NoClient =>
       /\ currentId \in commitIds
       /\ \A i \in DOMAIN receipts : receipts[i].commitId # currentId
  /\ UniqueCommitIds

LEMMA IdsStep == TypeOK /\ Mutex /\ IdsInvariant /\ [Next]_vars => IdsInvariant'
<1> SUFFICES ASSUME TypeOK, Mutex, IdsInvariant, [Next]_vars PROVE IdsInvariant'
  OBVIOUS
<1> USE DEF IdsInvariant, UniqueCommitIds
<1>1. ASSUME UNCHANGED <<receipts, commitIds, lock, currentId>> PROVE IdsInvariant'
  BY <1>1
<1>2. ASSUME NEW c \in Clients, NEW k \in Nat, RejectAtPreflight(c, k) PROVE IdsInvariant'
  <2>1. k \notin commitIds /\ commitIds' = commitIds \cup {k}
    BY <1>2 DEF RejectAtPreflight, TakeCommitId, IsNextCommitId
  <2>2. Finish(c, k, "REJECTED", Versions, Versions) /\ lock' = NoClient
    BY <1>2 DEF RejectAtPreflight, Finish, Leave
  <2>3. Recorded(c, k, "REJECTED", Versions, Versions)
    BY <2>2, FinishAppends
  <2> QED
    BY <2>1, <2>2, <2>3 DEF Recorded
<1>3. ASSUME NEW c \in Clients, NEW k \in Nat, Admit(c, k) PROVE IdsInvariant'
  <2>1. k \notin commitIds /\ commitIds' = commitIds \cup {k}
    BY <1>3 DEF Admit, TakeCommitId, IsNextCommitId
  <2> QED
    BY <1>3, <2>1 DEF Admit, ledgerVars
<1>4. ASSUME NEW c \in Clients, NEW status, NEW before, NEW after,
             phase[c] \in Critical, Finish(c, currentId, status, before, after),
             UNCHANGED commitIds
      PROVE  IdsInvariant'
  <2>1. lock # NoClient /\ lock' = NoClient
    BY <1>4 DEF Mutex, Finish, Leave
  <2>2. Recorded(c, currentId, status, before, after)
    BY <1>4, FinishAppends
  <2> QED
    BY <1>4, <2>1, <2>2 DEF Recorded
<1>5. ASSUME NEW c \in Clients, SnapshotRaises(c) PROVE IdsInvariant'
  BY <1>4, <1>5 DEF SnapshotRaises, Critical, idVars
<1>6. ASSUME NEW c \in Clients, NEW raised, NEW damaged, Rollback(c, raised, damaged)
      PROVE  IdsInvariant'
  BY <1>4, <1>6 DEF Rollback, Undo, Critical, idVars
<1>m. ASSUME NEW c \in Clients, NEW raised, NEW damaged, RollbackThenRaise(c, raised, damaged)
      PROVE  IdsInvariant'
  BY <1>m DEF RollbackThenRaise, Undo, Leave, idVars
<1>7. ASSUME NEW c \in Clients, PublishNodes(c) PROVE IdsInvariant'
  BY <1>4, <1>7 DEF PublishNodes, Critical, idVars
<1>8. ASSUME NEW c \in Clients, Work(c) \/ PublishModel(c) \/ RefuseCommitId(c)
      PROVE  IdsInvariant'
  BY <1>1, <1>8 DEF Work, TakeSnapshot, Apply, ApplyRaises, CanaryAccepts, CanaryRejects,
     CanaryRaises, CanaryMalformed, PublishModel, RefuseCommitId, idVars, ledgerVars, workVars
<1>9. ASSUME NEW c \in Clients, NEW batch, NEW id, Call(c, batch, id) PROVE IdsInvariant'
  BY <1>1, <1>9 DEF Call, idVars, ledgerVars, workVars
<1>10. CASE UNCHANGED vars
  BY <1>1, <1>10 DEF vars, idVars, ledgerVars, workVars
<1> QED
  BY <1>2, <1>3, <1>5, <1>6, <1>m, <1>7, <1>8, <1>9, <1>10 DEF Next, Step, Enter, Settle

(* UniqueCommitIds: no two receipts carry the same commit id, however       *)
(* callers mix ids of their own with generated ones.                       *)
THEOREM CommitIdsAreUnique == Spec => []UniqueCommitIds
<1>1. Init => IdsInvariant
  BY DEF Init, IdsInvariant, UniqueCommitIds
<1>2. IdsInvariant => UniqueCommitIds
  BY DEF IdsInvariant
<1> QED
  BY <1>1, <1>2, MutexCorrect, IdsStep, PTL DEF Spec

-----------------------------------------------------------------------------
(* The chain of version vectors                                            *)

LastVector == VectorBefore(Len(receipts) + 1)

(* The commit in progress started from the vector the last receipt ended   *)
(* at, and moves the two attributes away from it one after the other.      *)
ChainInvariant ==
  /\ ReceiptsChain
  /\ lock # NoClient => versionsBefore = LastVector
  /\ \A c \in Clients : phase[c] \in Critical \ {"publishNodes"} => Versions = versionsBefore
  /\ \A c \in Clients : phase[c] = "publishNodes" =>
       Versions = [model |-> versionsBefore.model + 1, nodes |-> versionsBefore.nodes]

LEMMA ChainStep == TypeOK /\ Mutex /\ ChainInvariant /\ [Next]_vars => ChainInvariant'
<1> SUFFICES ASSUME TypeOK, Mutex, ChainInvariant, [Next]_vars PROVE ChainInvariant'
  OBVIOUS
<1> USE DEF ChainInvariant, ReceiptsChain
<1>u. \A c, d \in Clients : phase[c] \in Critical /\ phase[d] \in Critical => c = d
  BY DEF Mutex
<1>1. ASSUME receipts' = receipts
      PROVE  /\ LastVector' = LastVector
             /\ \A i \in DOMAIN receipts : VectorBefore(i)' = VectorBefore(i)
  BY <1>1 DEF LastVector, VectorBefore
<1>2. ASSUME UNCHANGED <<receipts, lock, modelVersion, nodeVersion, versionsBefore>>,
             NEW c \in Clients, NEW p \in Phases,
             phase' = [phase EXCEPT ![c] = p], p # "publishNodes",
             p \in Critical => phase[c] \in Critical \ {"publishNodes"}
      PROVE  ChainInvariant'
  BY <1>1, <1>2 DEF Versions, TypeOK, LastVector
<1>3. ASSUME NEW c \in Clients, NEW k \in Nat, Admit(c, k) PROVE ChainInvariant'
  <2>1. /\ UNCHANGED <<receipts, modelVersion, nodeVersion>>
        /\ versionsBefore' = Versions
        /\ phase' = [phase EXCEPT ![c] = "snapshot"]
        /\ lock = NoClient /\ lock' = c
    BY <1>3 DEF Admit, Entering, versionVars, ledgerVars
  <2>2. \A d \in Clients : phase[d] \notin Critical
    BY <2>1 DEF Mutex
  <2> QED
    BY <1>1, <2>1, <2>2 DEF Versions, LastVector, TypeOK, Critical
<1>4. ASSUME NEW c \in Clients, PublishModel(c) PROVE ChainInvariant'
  <2>1. /\ UNCHANGED <<receipts, nodeVersion, versionsBefore, lock>>
        /\ modelVersion' = modelVersion + 1
        /\ phase' = [phase EXCEPT ![c] = "publishNodes"]
        /\ phase[c] = "publishModel"
    BY <1>4 DEF PublishModel, ledgerVars, workVars
  <2>2. \A d \in Clients : d # c => phase[d] \notin Critical
    BY <1>u, <2>1 DEF Critical
  <2>3. lock # NoClient
    BY <2>1 DEF Mutex, Critical
  <2> QED
    BY <1>1, <2>1, <2>2, <2>3 DEF Versions, LastVector, TypeOK, Critical
<1>5. ASSUME NEW c \in Clients, NEW id, NEW status, NEW before, NEW after,
             Finish(c, id, status, before, after),
             before = LastVector, Versions' = after, status # "ACCEPTED" => after = before,
             \A d \in Clients : d # c => phase[d] \notin Critical
      PROVE  ChainInvariant'
  <2>1. /\ lock' = NoClient
        /\ phase' = [phase EXCEPT ![c] = "idle"]
    BY <1>5 DEF Finish, Leave
  <2>r. Recorded(c, id, status, before, after)
    BY <1>5, FinishAppends
  <2>2. /\ Len(receipts') = Len(receipts) + 1
        /\ DOMAIN receipts' = DOMAIN receipts \cup {Len(receipts) + 1}
        /\ \A i \in DOMAIN receipts : receipts'[i] = receipts[i]
        /\ receipts'[Len(receipts) + 1].status = status
        /\ receipts'[Len(receipts) + 1].before = before
        /\ receipts'[Len(receipts) + 1].after = after
    BY <2>r DEF Recorded
  <2>3. DOMAIN receipts = 1 .. Len(receipts) /\ Len(receipts) \in Nat
    BY DEF TypeOK
  <2>4. \A i \in 1 .. Len(receipts) + 1 : VectorBefore(i)' = VectorBefore(i)
    BY <2>2, <2>3 DEF VectorBefore
  <2>5. LastVector' = after
    BY <2>2, <2>3 DEF LastVector, VectorBefore
  <2>6. \A i \in DOMAIN receipts' :
          /\ receipts'[i].before = VectorBefore(i)'
          /\ receipts'[i].status # "ACCEPTED" => receipts'[i].after = receipts'[i].before
    BY <1>5, <2>2, <2>3, <2>4 DEF LastVector
  <2>7. \A d \in Clients : phase'[d] \notin Critical
    BY <1>5, <2>1 DEF TypeOK, Critical
  <2> QED
    BY <1>5, <2>1, <2>5, <2>6, <2>7 DEF LastVector, Critical
<1>6. ASSUME NEW c \in Clients, NEW k \in Nat, RejectAtPreflight(c, k) PROVE ChainInvariant'
  <2>1. /\ Finish(c, k, "REJECTED", Versions, Versions)
        /\ UNCHANGED versionVars
        /\ lock = NoClient
    BY <1>6 DEF RejectAtPreflight, Entering
  <2>2. Versions = LastVector /\ Versions' = Versions
    BY <2>1 DEF LastVector, Versions, versionVars
  <2>3. \A d \in Clients : phase[d] \notin Critical
    BY <2>1 DEF Mutex
  <2> QED
    BY <1>5, <2>1, <2>2, <2>3
<1>7. ASSUME NEW c \in Clients, NEW status, phase[c] \in Critical \ {"publishNodes"},
             Finish(c, currentId, status, versionsBefore, Versions), UNCHANGED versionVars
      PROVE  ChainInvariant'
  <2>1. versionsBefore = LastVector /\ Versions = versionsBefore
    BY <1>7 DEF Mutex
  <2>2. Versions' = Versions
    BY <1>7 DEF Versions, versionVars
  <2> QED
    BY <1>5, <1>7, <1>u, <2>1, <2>2
<1>8. ASSUME NEW c \in Clients, SnapshotRaises(c) PROVE ChainInvariant'
  BY <1>7, <1>8 DEF SnapshotRaises, Critical
<1>9. ASSUME NEW c \in Clients, NEW raised, NEW damaged, Rollback(c, raised, damaged)
      PROVE  ChainInvariant'
  <2>1. PICK status : Finish(c, currentId, status, versionsBefore, Versions)
    BY <1>9 DEF Rollback
  <2> QED
    BY <1>7, <1>9, <2>1 DEF Rollback, Undo, Critical
<1>m. ASSUME NEW c \in Clients, NEW raised, NEW damaged, RollbackThenRaise(c, raised, damaged)
      PROVE  ChainInvariant'
  <2>1. /\ phase[c] = "rollbackMalformed" /\ phase' = [phase EXCEPT ![c] = "idle"]
        /\ lock' = NoClient
        /\ UNCHANGED <<receipts, versionVars>>
    BY <1>m DEF RollbackThenRaise, Undo, Leave
  <2>2. versionsBefore = LastVector /\ Versions = versionsBefore
    BY <2>1 DEF Mutex, Critical
  <2>3. Versions' = LastVector'
    BY <1>1, <2>1, <2>2 DEF Versions, versionVars
  <2>4. \A d \in Clients : phase'[d] \notin Critical
    BY <1>u, <2>1 DEF TypeOK, Critical
  <2> QED
    BY <1>1, <2>1, <2>3, <2>4 DEF LastVector, Critical
<1>10. ASSUME NEW c \in Clients, PublishNodes(c) PROVE ChainInvariant'
  <2> DEFINE after == [model |-> modelVersion, nodes |-> nodeVersion']
  <2>1. /\ Finish(c, currentId, "ACCEPTED", versionsBefore, after)
        /\ UNCHANGED modelVersion
        /\ phase[c] = "publishNodes"
    BY <1>10 DEF PublishNodes
  <2>2. versionsBefore = LastVector
    BY <2>1 DEF Mutex, Critical
  <2>3. Versions' = after
    BY <2>1 DEF Versions
  <2>4. \A d \in Clients : d # c => phase[d] \notin Critical
    BY <1>u, <2>1 DEF Critical
  <2> HIDE DEF after
  <2> QED
    BY <1>5, <2>1, <2>2, <2>3, <2>4
<1>11. ASSUME NEW c \in Clients, NEW batch, NEW id, Call(c, batch, id) PROVE ChainInvariant'
  BY <1>2, <1>11 DEF Call, Phases, Critical, versionVars, ledgerVars, workVars
<1>12. ASSUME NEW c \in Clients, RefuseCommitId(c) PROVE ChainInvariant'
  BY <1>2, <1>12 DEF RefuseCommitId, Phases, Critical, versionVars, ledgerVars, workVars
<1>13. ASSUME NEW c \in Clients, TakeSnapshot(c) PROVE ChainInvariant'
  BY <1>2, <1>13 DEF TakeSnapshot, Phases, Critical, versionVars, ledgerVars
<1>14. ASSUME NEW c \in Clients, NEW q, Apply(c, q) PROVE ChainInvariant'
  <2>1. /\ UNCHANGED <<receipts, lock, modelVersion, nodeVersion, versionsBefore>>
        /\ phase' = [phase EXCEPT ![c] = "apply"] /\ phase[c] = "apply"
    BY <1>14 DEF Apply, TypeOK, versionVars, ledgerVars
  <2> QED
    BY <1>2, <2>1 DEF Phases, Critical
<1>15. ASSUME NEW c \in Clients, NEW q, ApplyRaises(c, q) PROVE ChainInvariant'
  BY <1>2, <1>15 DEF ApplyRaises, Phases, Critical, versionVars, ledgerVars, workVars
<1>16. ASSUME NEW c \in Clients, NEW verdict,
              CanaryAccepts(c, verdict) \/ CanaryRejects(c, verdict) \/ CanaryRaises(c)
                \/ CanaryMalformed(c)
       PROVE  ChainInvariant'
  BY <1>2, <1>16 DEF CanaryAccepts, CanaryRejects, CanaryRaises, CanaryMalformed, Applied,
     Phases, Critical,
     versionVars, ledgerVars, workVars
<1>17. CASE UNCHANGED vars
  BY <1>1, <1>17 DEF vars, versionVars, ledgerVars, workVars, Versions, LastVector
<1> QED
  BY <1>3, <1>4, <1>6, <1>8, <1>9, <1>m, <1>10, <1>11, <1>12, <1>13, <1>14, <1>15, <1>16, <1>17
  DEF Next, Step, Enter, Work, Settle

LEMMA ChainCorrect == Spec => []ChainInvariant
<1>1. Init => ChainInvariant
  BY DEF Init, ChainInvariant, ReceiptsChain, LastVector, VectorBefore, Versions, Critical
<1> QED
  BY <1>1, MutexCorrect, ChainStep, PTL DEF Spec

(* ReceiptsChain: the receipts account for every change of the version      *)
(* vector, each starting where the one before it ended.                    *)
THEOREM ReceiptsAccountForVersions == Spec => []ReceiptsChain
<1>1. ChainInvariant => ReceiptsChain
  BY DEF ChainInvariant
<1> QED
  BY <1>1, ChainCorrect, PTL

-----------------------------------------------------------------------------
(* The contents of the model                                               *)

(* What the accepted receipts say domain d holds.                          *)
Accounted(d) == UNION {Effects(receipts[i].batch, d) : i \in Accepted}

(* A commit in progress holds, for every participant, a snapshot of what    *)
(* the receipts account for, has disturbed nothing a participant does not  *)
(* cover, and has applied what is no longer pending.                       *)
InProgressConsistent(c) ==
  /\ ~Uncovered(request[c].batch)
  /\ phase[c] = "snapshot" => \A d \in Domains : state[d] = Accounted(d)
  /\ phase[c] # "snapshot" =>
       /\ \A d \in Participants : snapshot[d] = Accounted(d)
       /\ \A d \in Domains \ Participants : state[d] = Accounted(d)
  /\ phase[c] = "apply" =>
       /\ pending \subseteq request[c].batch
       /\ \A d \in Domains : state[d] = Accounted(d) \cup Effects(request[c].batch \ pending, d)
  /\ phase[c] \in {"publishModel", "publishNodes"} =>
       \A d \in Domains : state[d] = Accounted(d) \cup Effects(request[c].batch, d)

ContentsInvariant ==
  /\ LedgerMatchesState
  /\ \A c \in Clients : phase[c] \in Critical => InProgressConsistent(c)

(* A rejected or rolled back commit adds nothing to the account.           *)
LEMMA AccountedAppend ==
  ASSUME TypeOK, NEW c \in Clients, NEW id, NEW status, NEW before, NEW after,
         Finish(c, id, status, before, after)
  PROVE  \A d \in Domains :
           Accounted(d)' = IF status = "ACCEPTED"
                           THEN Accounted(d) \cup Effects(request[c].batch, d)
                           ELSE Accounted(d)
<1> DEFINE n == Len(receipts) + 1
<1>r. Recorded(c, id, status, before, after)
  BY FinishAppends
<1>1. /\ DOMAIN receipts' = DOMAIN receipts \cup {n}
      /\ n \notin DOMAIN receipts
      /\ \A i \in DOMAIN receipts : receipts'[i] = receipts[i]
      /\ receipts'[n].batch = request[c].batch
      /\ receipts'[n].status = status
  BY <1>r DEF Recorded
<1> HIDE DEF n
<1>2. Accepted' = IF status = "ACCEPTED" THEN Accepted \cup {n} ELSE Accepted
  BY <1>1 DEF Accepted
<1>3. \A i \in Accepted : receipts'[i] = receipts[i]
  BY <1>1 DEF Accepted
<1> SUFFICES ASSUME NEW d \in Domains
             PROVE  Accounted(d)' = IF status = "ACCEPTED"
                                    THEN Accounted(d) \cup Effects(request[c].batch, d)
                                    ELSE Accounted(d)
  OBVIOUS
<1>4. Accounted(d)' = UNION {Effects(receipts'[i].batch, d) : i \in Accepted'}
  BY DEF Accounted, Effects, Ids
<1>5. CASE status = "ACCEPTED"
  <2>1. {Effects(receipts'[i].batch, d) : i \in Accepted \cup {n}} =
          {Effects(receipts[i].batch, d) : i \in Accepted} \cup {Effects(request[c].batch, d)}
    BY <1>1, <1>3
  <2> QED
    BY <1>2, <1>4, <1>5, <2>1 DEF Accounted
<1>6. CASE status # "ACCEPTED"
  <2>1. {Effects(receipts'[i].batch, d) : i \in Accepted} =
          {Effects(receipts[i].batch, d) : i \in Accepted}
    BY <1>3
  <2> QED
    BY <1>2, <1>4, <1>6, <2>1 DEF Accounted
<1> QED
  BY <1>5, <1>6

(* Applying one more packet adds its effects.                              *)
LEMMA EffectsOfOneMore ==
  ASSUME NEW S, NEW q
  PROVE  \A d : Effects(S \cup {q}, d) = IF d \in Writes[q.node] THEN Effects(S, d) \cup {q.id}
                                         ELSE Effects(S, d)
BY DEF Effects, Ids

(* Every step preserves the agreement of contents and receipts.            *)
LEMMA ContentsStep ==
  TypeOK /\ Mutex /\ ContentsInvariant /\ [Next]_vars => ContentsInvariant'
<1> SUFFICES ASSUME TypeOK, Mutex, ContentsInvariant, [Next]_vars PROVE ContentsInvariant'
  OBVIOUS
<1>l. LedgerMatchesState =
        (lock = NoClient /\ ~poisoned => \A d \in Domains : state[d] = Accounted(d))
  BY DEF LedgerMatchesState, Accounted
<1>p. LedgerMatchesState' =
        (lock' = NoClient /\ ~poisoned' => \A d \in Domains : state'[d] = Accounted(d)')
  BY DEF LedgerMatchesState, Accounted
<1>1. ASSUME receipts' = receipts PROVE \A d : Accounted(d)' = Accounted(d)
  BY <1>1 DEF Accounted, Accepted, Effects, Ids
<1>c. ASSUME NEW c \in Clients, receipts' = receipts, request'[c] = request[c],
             ~Uncovered(request[c].batch),
             phase'[c] = "snapshot" => \A d \in Domains : state'[d] = Accounted(d),
             phase'[c] # "snapshot" =>
               /\ \A d \in Participants : snapshot'[d] = Accounted(d)
               /\ \A d \in Domains \ Participants : state'[d] = Accounted(d),
             phase'[c] = "apply" =>
               /\ pending' \subseteq request[c].batch
               /\ \A d \in Domains :
                    state'[d] = Accounted(d) \cup Effects(request[c].batch \ pending', d),
             phase'[c] \in {"publishModel", "publishNodes"} =>
               \A d \in Domains : state'[d] = Accounted(d) \cup Effects(request[c].batch, d)
      PROVE  InProgressConsistent(c)'
  BY <1>1, <1>c DEF InProgressConsistent, Effects, Ids, Uncovered
<1>i. ASSUME NEW c \in Clients, phase[c] \in Critical
      PROVE  /\ InProgressConsistent(c)
             /\ \A d \in Clients \ {c} : phase[d] \notin Critical
             /\ lock # NoClient
  BY <1>i DEF ContentsInvariant, Mutex
<1>2. ASSUME UNCHANGED <<receipts, lock, poisoned, snapshot, pending, state>>,
             NEW c \in Clients, phase'[c] \notin Critical,
             \A d \in Clients \ {c} : phase'[d] = phase[d] /\ request'[d] = request[d]
      PROVE  ContentsInvariant'
  <2>1. LedgerMatchesState'
    BY <1>1, <1>2, <1>l, <1>p DEF ContentsInvariant
  <2>2. ASSUME NEW d \in Clients, phase'[d] \in Critical PROVE InProgressConsistent(d)'
    <3>1. d # c /\ phase'[d] = phase[d] /\ request'[d] = request[d]
      BY <1>2, <2>2
    <3>2. InProgressConsistent(d)
      BY <1>i, <2>2, <3>1
    <3> QED
      BY <1>2, <1>c, <3>1, <3>2 DEF InProgressConsistent
  <2> QED
    BY <2>1, <2>2 DEF ContentsInvariant
<1>3. ASSUME NEW c \in Clients, \A d \in Clients \ {c} : phase[d] \notin Critical,
             NEW id, NEW status, NEW before, NEW after, Finish(c, id, status, before, after),
             poisoned' \/ (\A d \in Domains : state'[d] = Accounted(d)')
      PROVE  ContentsInvariant'
  <2>1. \A d \in Clients : phase'[d] \notin Critical
    BY <1>3 DEF Finish, Leave, TypeOK, Critical
  <2> QED
    BY <1>3, <2>1, <1>p DEF ContentsInvariant
<1>5. ASSUME NEW c \in Clients, phase[c] \in Critical, UNCHANGED lock,
             \A d \in Clients \ {c} : phase'[d] = phase[d],
             InProgressConsistent(c)'
      PROVE  ContentsInvariant'
  BY <1>5, <1>i, <1>p DEF ContentsInvariant
<1>6. ASSUME NEW c \in Clients, NEW k \in Nat, RejectAtPreflight(c, k)
      PROVE  ContentsInvariant'
  <2>1. /\ Finish(c, k, "REJECTED", Versions, Versions)
        /\ lock = NoClient
        /\ UNCHANGED <<poisoned, state>>
    BY <1>6 DEF RejectAtPreflight, Entering
  <2>2. \A d \in Clients \ {c} : phase[d] \notin Critical
    BY <2>1 DEF Mutex
  <2>3. \A d \in Domains : Accounted(d)' = Accounted(d)
    BY <2>1, AccountedAppend
  <2>4. poisoned' \/ \A d \in Domains : state'[d] = Accounted(d)'
    BY <2>1, <2>3, <1>l DEF ContentsInvariant
  <2> QED
    BY <1>3, <2>1, <2>2, <2>4
<1>7. ASSUME NEW c \in Clients, NEW k \in Nat, Admit(c, k) PROVE ContentsInvariant'
  <2>1. /\ lock = NoClient /\ lock' = c
        /\ ~poisoned /\ ~Uncovered(request[c].batch)
        /\ phase' = [phase EXCEPT ![c] = "snapshot"]
        /\ UNCHANGED <<receipts, request, state>>
    BY <1>7 DEF Admit, Entering, PreflightError, ledgerVars
  <2>2. \A d \in Clients \ {c} : phase'[d] \notin Critical
    BY <2>1 DEF Mutex, TypeOK
  <2>3. \A d \in Domains : state'[d] = Accounted(d)'
    BY <2>1, <1>1, <1>l DEF ContentsInvariant
  <2>4. InProgressConsistent(c)'
    BY <2>1, <2>3, <1>1, <1>c DEF TypeOK
  <2>5. LedgerMatchesState'
    BY <2>1, <1>p
  <2> QED
    BY <2>2, <2>4, <2>5 DEF ContentsInvariant
<1>8. ASSUME NEW c \in Clients, TakeSnapshot(c) PROVE ContentsInvariant'
  <2>1. /\ phase[c] = "snapshot" /\ phase' = [phase EXCEPT ![c] = "apply"]
        /\ snapshot' = [d \in Participants |-> state[d]]
        /\ pending' = request[c].batch
        /\ UNCHANGED <<receipts, lock, request, state>>
    BY <1>8 DEF TakeSnapshot, ledgerVars
  <2>2. ~Uncovered(request[c].batch) /\ \A d \in Domains : state[d] = Accounted(d)
    BY <2>1, <1>i DEF InProgressConsistent, Critical
  <2>3. \A d \in Domains : Effects(request[c].batch \ pending', d) = {}
    BY <2>1 DEF Effects, Ids
  <2>4. phase'[c] = "apply" /\ \A d \in Clients \ {c} : phase'[d] = phase[d]
    BY <2>1 DEF TypeOK
  <2>5. InProgressConsistent(c)'
    BY <2>1, <2>2, <2>3, <2>4, <1>c
  <2> QED
    BY <1>5, <2>1, <2>4, <2>5 DEF Critical
<1>9. ASSUME NEW c \in Clients, SnapshotRaises(c) PROVE ContentsInvariant'
  <2>1. /\ phase[c] = "snapshot"
        /\ Finish(c, currentId, "REJECTED", versionsBefore, Versions)
        /\ UNCHANGED state
    BY <1>9 DEF SnapshotRaises
  <2>2. \A d \in Domains : Accounted(d)' = Accounted(d)
    BY <2>1, AccountedAppend
  <2>3. \A d \in Domains : state'[d] = Accounted(d)'
    BY <2>1, <2>2, <1>i DEF InProgressConsistent, Critical
  <2>4. \A d \in Clients \ {c} : phase[d] \notin Critical
    BY <2>1, <1>i DEF Critical
  <2> QED
    BY <1>3, <2>1, <2>3, <2>4
<1>10. ASSUME NEW c \in Clients, NEW q, Apply(c, q) PROVE ContentsInvariant'
  <2>1. /\ phase[c] = "apply" /\ phase[c] \in Critical /\ q \in pending
        /\ pending' = pending \ {q}
        /\ state' = [d \in Domains |->
                      IF d \in Writes[q.node] THEN state[d] \cup {q.id} ELSE state[d]]
        /\ UNCHANGED <<receipts, lock, request, phase, snapshot>>
    BY <1>10 DEF Apply, NextToApply, Touch, ledgerVars, Critical
  <2>2. InProgressConsistent(c)
    BY <2>1, <1>i
  <2>3. pending \in SUBSET request[c].batch
    BY <2>1, <2>2 DEF InProgressConsistent
  <2>4. \A d \in Domains :
          Effects(request[c].batch \ (pending \ {q}), d) =
            IF d \in Writes[q.node] THEN Effects(request[c].batch \ pending, d) \cup {q.id}
            ELSE Effects(request[c].batch \ pending, d)
    <3> DEFINE batch == request[c].batch
               left  == pending
    <3>1. left \in SUBSET batch /\ q \in left
      BY <2>1, <2>3
    <3> HIDE DEF batch, left
    <3>2. batch \ (left \ {q}) = (batch \ left) \cup {q}
      BY <3>1
    <3>3. \A d : Effects((batch \ left) \cup {q}, d) =
                  IF d \in Writes[q.node] THEN Effects(batch \ left, d) \cup {q.id}
                  ELSE Effects(batch \ left, d)
      BY EffectsOfOneMore
    <3> QED
      BY <3>2, <3>3 DEF batch, left
  <2>5. ASSUME NEW d \in Domains
        PROVE  state'[d] = Accounted(d) \cup Effects(request[c].batch \ pending', d)
    <3>1. state[d] = Accounted(d) \cup Effects(request[c].batch \ pending, d)
      BY <2>1, <2>2 DEF InProgressConsistent
    <3>2. state'[d] = Accounted(d) \cup Effects(request[c].batch \ (pending \ {q}), d)
      BY <2>1, <2>4, <3>1
    <3> QED
      BY <2>1, <3>2
  <2>6. \A d \in Domains \ Participants : state'[d] = state[d]
    BY <2>1, <2>2, <2>3 DEF Uncovered, InProgressConsistent
  <2>7. InProgressConsistent(c)'
    BY <2>1, <2>2, <2>3, <2>5, <2>6, <1>c DEF InProgressConsistent
  <2> QED
    BY <1>5, <2>1, <2>7
<1>11. ASSUME NEW c \in Clients, NEW q, ApplyRaises(c, q) PROVE ContentsInvariant'
  <2>1. /\ phase[c] = "apply" /\ phase[c] \in Critical /\ q \in pending
        /\ phase' = [phase EXCEPT ![c] = "rollback"]
        /\ UNCHANGED <<receipts, lock, request, snapshot>>
    BY <1>11 DEF ApplyRaises, NextToApply, ledgerVars, workVars, Critical
  <2>2. InProgressConsistent(c)
    BY <2>1, <1>i
  <2>3. PICK reach \in SUBSET Writes[q.node] : Touch(q, reach)
    BY <1>11 DEF ApplyRaises
  <2>4. \A d \in Domains \ Participants : state'[d] = state[d]
    BY <2>1, <2>2, <2>3 DEF Touch, Uncovered, InProgressConsistent
  <2>5. phase'[c] = "rollback" /\ \A d \in Clients \ {c} : phase'[d] = phase[d]
    BY <2>1 DEF TypeOK
  <2>6. InProgressConsistent(c)'
    BY <2>1, <2>2, <2>4, <2>5, <1>c DEF InProgressConsistent
  <2> QED
    BY <1>5, <2>1, <2>5, <2>6
<1>12. ASSUME NEW c \in Clients, NEW verdict,
              CanaryAccepts(c, verdict) \/ CanaryRejects(c, verdict) \/ CanaryRaises(c)
                \/ CanaryMalformed(c)
       PROVE  ContentsInvariant'
  <2>1. /\ phase[c] = "apply" /\ phase[c] \in Critical /\ pending = {}
        /\ UNCHANGED <<receipts, lock, request, snapshot, state>>
    BY <1>12
    DEF CanaryAccepts, CanaryRejects, CanaryRaises, CanaryMalformed, Applied, ledgerVars,
       workVars, Critical
  <2>2. PICK p \in {"publishModel", "rollback", "rollbackMalformed"} :
          phase' = [phase EXCEPT ![c] = p]
    BY <1>12 DEF CanaryAccepts, CanaryRejects, CanaryRaises, CanaryMalformed
  <2>3. request[c].batch \ pending = request[c].batch
    BY <2>1
  <2>4. InProgressConsistent(c)
    BY <2>1, <1>i
  <2>5. phase'[c] = p /\ \A d \in Clients \ {c} : phase'[d] = phase[d]
    BY <2>2 DEF TypeOK
  <2>6. InProgressConsistent(c)'
    BY <2>1, <2>3, <2>4, <2>5, <1>c DEF InProgressConsistent
  <2> QED
    BY <1>5, <2>1, <2>5, <2>6
<1>r. ASSUME NEW c \in Clients, phase[c] \in {"rollback", "rollbackMalformed"},
             NEW raised, NEW damaged \in SUBSET Participants, Undo(raised, damaged),
             \A d \in Domains : Accounted(d)' = Accounted(d)
      PROVE  /\ poisoned' \/ \A d \in Domains : state'[d] = Accounted(d)'
             /\ \A d \in Clients \ {c} : phase[d] \notin Critical
  <2> DEFINE after == RestoredState(damaged)
  <2>1. phase[c] \in Critical /\ state' = after /\ (~poisoned' => SameFingerprints(after))
    BY <1>r DEF Undo, Verified, Critical
  <2>2. InProgressConsistent(c) /\ \A d \in Clients \ {c} : phase[d] \notin Critical
    BY <2>1, <1>i
  <2>3. \A d \in Domains \ Participants : after[d] = Accounted(d)
    BY <1>r, <2>2 DEF RestoredState, InProgressConsistent
  <2>4. SameFingerprints(after) => \A d \in Participants : after[d] = Accounted(d)
    BY <1>r, <2>2 DEF SameFingerprints, InProgressConsistent
  <2> QED
    BY <1>r, <2>1, <2>2, <2>3, <2>4
<1>14. ASSUME NEW c \in Clients, NEW raised, NEW damaged \in SUBSET Participants,
              Rollback(c, raised, damaged)
       PROVE  ContentsInvariant'
  <2>1. phase[c] = "rollback" /\ Undo(raised, damaged)
    BY <1>14 DEF Rollback
  <2>2. PICK status : Finish(c, currentId, status, versionsBefore, Versions) /\ status # "ACCEPTED"
    BY <1>14 DEF Rollback
  <2>3. \A d \in Domains : Accounted(d)' = Accounted(d)
    BY <2>2, AccountedAppend
  <2> QED
    BY <1>3, <1>r, <2>1, <2>2, <2>3
<1>m. ASSUME NEW c \in Clients, NEW raised, NEW damaged \in SUBSET Participants,
             RollbackThenRaise(c, raised, damaged)
      PROVE  ContentsInvariant'
  <2>1. /\ phase[c] = "rollbackMalformed" /\ Undo(raised, damaged) /\ UNCHANGED receipts
        /\ phase' = [phase EXCEPT ![c] = "idle"]
    BY <1>m DEF RollbackThenRaise, Leave
  <2>2. \A d \in Domains : Accounted(d)' = Accounted(d)
    BY <1>1, <2>1
  <2>3. /\ poisoned' \/ \A d \in Domains : state'[d] = Accounted(d)'
        /\ \A d \in Clients \ {c} : phase[d] \notin Critical
    BY <1>r, <2>1, <2>2
  <2>4. \A d \in Clients : phase'[d] \notin Critical
    BY <2>1, <2>3 DEF TypeOK, Critical
  <2> QED
    BY <1>p, <2>3, <2>4 DEF ContentsInvariant
<1>15. ASSUME NEW c \in Clients, PublishModel(c) PROVE ContentsInvariant'
  <2>1. /\ phase[c] = "publishModel" /\ phase[c] \in Critical
        /\ phase' = [phase EXCEPT ![c] = "publishNodes"]
        /\ UNCHANGED <<receipts, lock, request, snapshot, state>>
    BY <1>15 DEF PublishModel, ledgerVars, workVars, Critical
  <2>2. phase'[c] = "publishNodes" /\ \A d \in Clients \ {c} : phase'[d] = phase[d]
    BY <2>1 DEF TypeOK
  <2>3. InProgressConsistent(c)'
    BY <2>1, <2>2, <1>c, <1>i DEF InProgressConsistent
  <2> QED
    BY <1>5, <2>1, <2>2, <2>3
<1>16. ASSUME NEW c \in Clients, PublishNodes(c) PROVE ContentsInvariant'
  <2>1. /\ phase[c] = "publishNodes" /\ phase[c] \in Critical
        /\ UNCHANGED state
    BY <1>16 DEF PublishNodes, Critical
  <2>2. PICK after : Finish(c, currentId, "ACCEPTED", versionsBefore, after)
    BY <1>16 DEF PublishNodes
  <2>3. \A d \in Domains : Accounted(d)' = Accounted(d) \cup Effects(request[c].batch, d)
    BY <2>2, AccountedAppend
  <2>4. InProgressConsistent(c) /\ \A d \in Clients \ {c} : phase[d] \notin Critical
    BY <2>1, <1>i
  <2>5. \A d \in Domains : state'[d] = Accounted(d)'
    BY <2>1, <2>3, <2>4 DEF InProgressConsistent
  <2> QED
    BY <1>3, <2>2, <2>4, <2>5
<1>17. ASSUME NEW c \in Clients, NEW batch, NEW id, Call(c, batch, id)
       PROVE  ContentsInvariant'
  BY <1>2, <1>17 DEF Call, TypeOK, Critical, ledgerVars, workVars
<1>18. ASSUME NEW c \in Clients, RefuseCommitId(c) PROVE ContentsInvariant'
  BY <1>2, <1>18 DEF RefuseCommitId, TypeOK, Critical, ledgerVars, workVars
<1>19. CASE UNCHANGED vars
  <2>1. LedgerMatchesState'
    BY <1>1, <1>19, <1>l, <1>p DEF vars, ledgerVars, ContentsInvariant
  <2>2. ASSUME NEW d \in Clients, phase'[d] \in Critical PROVE InProgressConsistent(d)'
    BY <1>19, <1>c, <1>i, <2>2 DEF vars, ledgerVars, workVars, InProgressConsistent
  <2> QED
    BY <2>1, <2>2 DEF ContentsInvariant
<1> QED
  BY <1>6, <1>7, <1>8, <1>9, <1>10, <1>11, <1>12, <1>14, <1>m, <1>15, <1>16, <1>17,
     <1>18, <1>19
  DEF Next, Step, Enter, Work, Settle

(* Contents and receipts agree initially and always.                       *)
LEMMA ContentsCorrect == Spec => []ContentsInvariant
<1>1. Init => ContentsInvariant
  <2> SUFFICES ASSUME Init PROVE ContentsInvariant
    OBVIOUS
  <2>1. \A d \in Domains : Accounted(d) = {} /\ state[d] = {}
    BY DEF Init, Accounted, Accepted
  <2>2. \A c \in Clients : phase[c] = "idle"
    BY DEF Init
  <2> QED
    BY <2>1, <2>2 DEF ContentsInvariant, LedgerMatchesState, Accounted, Critical
<1> QED
  BY <1>1, MutexCorrect, ContentsStep, PTL DEF Spec

(* LedgerMatchesState: between commits, and as long as every rollback was   *)
(* verified, the model holds exactly the effects of the accepted batches.  *)
THEOREM ModelHoldsAcceptedEffects == Spec => []LedgerMatchesState
<1>1. ContentsInvariant => LedgerMatchesState
  BY DEF ContentsInvariant
<1> QED
  BY <1>1, ContentsCorrect, PTL

-----------------------------------------------------------------------------
(* Serial order and the ledger                                             *)

(* An admitted batch is still what preflight checked it to be.             *)
Admissible(c) ==
  /\ Ids(request[c].batch) \cap seen = {}
  /\ \A q \in request[c].batch :
       /\ q.base = versionsBefore.model
       /\ q.node \in Depends(q)
       /\ \A n \in Depends(q) : q.deps[n] = versionsBefore.nodes[n]

AdmissionInvariant ==
  /\ \A c \in Clients : phase[c] # "idle" => IsBatch(request[c].batch)
  /\ \A c \in Clients : phase[c] \in Critical => Admissible(c)

(* Every step preserves what preflight established.                        *)
LEMMA AdmissionStep ==
  TypeOK /\ Mutex /\ AdmissionInvariant /\ [Next]_vars => AdmissionInvariant'
<1> SUFFICES ASSUME TypeOK, Mutex, AdmissionInvariant, [Next]_vars PROVE AdmissionInvariant'
  OBVIOUS
<1>b. \A c \in Clients : IsBatch(request[c].batch)' = IsBatch(request'[c].batch)
  BY DEF IsBatch
<1>a. ASSUME NEW c \in Clients, Admissible(c), UNCHANGED <<seen, versionsBefore>>,
             request'[c] = request[c]
      PROVE  Admissible(c)'
  BY <1>a DEF Admissible, Ids, Depends
<1>u. ASSUME NEW c \in Clients, phase[c] \in Critical
      PROVE  \A d \in Clients \ {c} : phase[d] \notin Critical
  BY <1>u DEF Mutex
<1>1. ASSUME NEW c \in Clients, NEW p \in Phases, phase' = [phase EXCEPT ![c] = p],
             phase[c] # "idle", p \in Critical => phase[c] \in Critical,
             UNCHANGED <<seen, versionsBefore, request>>
      PROVE  AdmissionInvariant'
  <2>1. phase'[c] = p /\ \A d \in Clients \ {c} : phase'[d] = phase[d]
    BY <1>1 DEF TypeOK
  <2> QED
    BY <1>1, <1>a, <1>b, <2>1 DEF AdmissionInvariant
<1>2. ASSUME NEW c \in Clients, phase' = [phase EXCEPT ![c] = "idle"],
             \A d \in Clients \ {c} : phase[d] \notin Critical,
             request' = [request EXCEPT ![c] = NoRequest]
      PROVE  AdmissionInvariant'
  <2>1. /\ phase'[c] = "idle"
        /\ \A d \in Clients \ {c} : phase'[d] = phase[d] /\ request'[d] = request[d]
    BY <1>2 DEF TypeOK
  <2> QED
    BY <1>2, <1>b, <2>1 DEF AdmissionInvariant, Critical
<1>3. ASSUME NEW c \in Clients, NEW batch, NEW id, Call(c, batch, id)
      PROVE  AdmissionInvariant'
  <2>1. /\ phase'[c] = "waiting" /\ request'[c].batch = batch /\ IsBatch(batch)
        /\ \A d \in Clients \ {c} : phase'[d] = phase[d] /\ request'[d] = request[d]
        /\ UNCHANGED <<seen, versionsBefore>>
    BY <1>3 DEF Call, TypeOK, ledgerVars, workVars
  <2> QED
    BY <1>a, <1>b, <2>1 DEF AdmissionInvariant, Critical
<1>4. ASSUME NEW c \in Clients, RefuseCommitId(c) PROVE AdmissionInvariant'
  <2>1. /\ phase[c] = "waiting"
        /\ phase'[c] = "idle"
        /\ \A d \in Clients \ {c} : phase'[d] = phase[d] /\ request'[d] = request[d]
        /\ UNCHANGED <<seen, versionsBefore>>
    BY <1>4 DEF RefuseCommitId, Entering, TypeOK, ledgerVars, workVars
  <2> QED
    BY <1>a, <1>b, <2>1 DEF AdmissionInvariant, Critical
<1>5. ASSUME NEW c \in Clients, NEW k \in Nat, RejectAtPreflight(c, k) PROVE AdmissionInvariant'
  <2>1. \A d \in Clients : phase[d] \notin Critical
    BY <1>5 DEF RejectAtPreflight, Entering, Mutex
  <2> QED
    BY <1>2, <1>5, <2>1 DEF RejectAtPreflight, Finish, Leave
<1>6. ASSUME NEW c \in Clients, NEW k \in Nat, Admit(c, k) PROVE AdmissionInvariant'
  <2>1. /\ phase[c] = "waiting" /\ lock = NoClient
        /\ ~PreflightError(request[c].batch)
        /\ versionsBefore' = Versions
        /\ UNCHANGED <<request, seen>>
        /\ phase'[c] = "snapshot" /\ \A d \in Clients \ {c} : phase'[d] = phase[d]
    BY <1>6 DEF Admit, Entering, TypeOK, ledgerVars
  <2>2. \A d \in Clients : phase[d] \notin Critical
    BY <2>1 DEF Mutex
  <2>3. Admissible(c)'
    BY <2>1 DEF Admissible, PreflightError, AlreadyCommitted, OutOfDate, Versions, Ids, Depends
  <2> QED
    BY <1>b, <2>1, <2>2, <2>3 DEF AdmissionInvariant
<1>7. ASSUME NEW c \in Clients,
             SnapshotRaises(c) \/ PublishNodes(c)
               \/ \E raised \in BOOLEAN, damaged \in SUBSET Participants :
                    Rollback(c, raised, damaged) \/ RollbackThenRaise(c, raised, damaged)
      PROVE  AdmissionInvariant'
  <2>1. phase[c] \in Critical
    BY <1>7 DEF SnapshotRaises, PublishNodes, Rollback, RollbackThenRaise, Critical
  <2>2. /\ phase' = [phase EXCEPT ![c] = "idle"]
        /\ request' = [request EXCEPT ![c] = NoRequest]
    BY <1>7 DEF SnapshotRaises, PublishNodes, Rollback, RollbackThenRaise, Finish, Leave
  <2> QED
    BY <1>2, <1>u, <2>1, <2>2
<1>8. ASSUME NEW c \in Clients, Work(c) \/ PublishModel(c) PROVE AdmissionInvariant'
  <2>1. phase[c] \in Critical /\ UNCHANGED <<seen, versionsBefore, request>>
    BY <1>8 DEF Work, TakeSnapshot, Apply, ApplyRaises, CanaryAccepts, CanaryRejects,
       CanaryRaises, CanaryMalformed, Applied, PublishModel, Critical, ledgerVars, workVars
  <2>2. PICK p \in Critical : phase' = [phase EXCEPT ![c] = p]
    BY <1>8 DEF Work, TakeSnapshot, Apply, ApplyRaises, CanaryAccepts, CanaryRejects,
       CanaryRaises, CanaryMalformed, Applied, PublishModel, Critical, TypeOK
  <2> QED
    BY <1>1, <2>1, <2>2 DEF Critical, Phases
<1>9. CASE UNCHANGED vars
  BY <1>9, <1>a, <1>b DEF vars, ledgerVars, workVars, AdmissionInvariant
<1> QED
  BY <1>3, <1>4, <1>5, <1>6, <1>7, <1>8, <1>9 DEF Next, Step, Enter, Settle

(* What a commit holds the lock for: its batch is admissible and contents   *)
(* and receipts agree.                                                     *)
LEMMA AdmissionCorrect == Spec => []AdmissionInvariant
<1>1. Init => AdmissionInvariant
  BY DEF Init, AdmissionInvariant, Critical
<1> QED
  BY <1>1, MutexCorrect, AdmissionStep, PTL DEF Spec

-----------------------------------------------------------------------------
(* The mapped variables of the ledger.                                     *)

BarModel == IF Publishing THEN versionsBefore.model ELSE modelVersion
BarState == [d \in Domains |-> IF Working /\ d \in Participants THEN snapshot[d] ELSE state[d]]

(* The ledger's instance reads the graph as the coordinator does.           *)
LEMMA SameGraph == \A n : Ledger!InvalidatedBy(n) = InvalidatedBy(n)
<1>1. \A S : Ledger!DependentClosed(S) = DependentClosed(S)
  BY DEF Ledger!DependentClosed, DependentClosed, Ledger!Dependents, Dependents
<1>2. Ledger!Closure = Closure
  BY <1>1 DEF Ledger!Closure, Closure
<1> QED
  BY <1>2 DEF Ledger!InvalidatedBy, InvalidatedBy

(* The step invariant the refinement argument uses.                        *)
StepInvariant == TypeOK /\ Mutex /\ ChainInvariant /\ ContentsInvariant /\ AdmissionInvariant

LEMMA LedgerStep == StepInvariant /\ [Next]_vars => [Ledger!LedgerNext]_(Ledger!ledgerVars)
<1> SUFFICES ASSUME StepInvariant, [Next]_vars
             PROVE  \/ Ledger!LedgerNext
                    \/ UNCHANGED <<BarModel, nodeVersion, BarState, seen, poisoned>>
  BY DEF Ledger!ledgerVars, BarModel, BarState
<1> USE DEF StepInvariant
<1>i. ASSUME NEW c \in Clients, phase[c] \in Critical
      PROVE  /\ InProgressConsistent(c) /\ Admissible(c) /\ IsBatch(request[c].batch)
             /\ \A d \in Clients \ {c} : phase[d] \notin Critical
             /\ ~poisoned
  BY <1>i DEF ContentsInvariant, AdmissionInvariant, Mutex, Critical
<1> DEFINE Stutter == UNCHANGED <<BarModel, nodeVersion, BarState, seen, poisoned>>
<1>1. ASSUME UNCHANGED <<modelVersion, nodeVersion, versionsBefore, snapshot, state, seen,
                         poisoned>>,
             Working' = Working, Publishing' = Publishing
      PROVE  Stutter
  BY <1>1 DEF BarModel, BarState
<1>2. ASSUME ~Working, ~Working',
             UNCHANGED <<modelVersion, nodeVersion, state, seen, poisoned>>
      PROVE  Stutter
  BY <1>2 DEF BarModel, BarState, Working, Publishing
<1>3. ASSUME NEW c \in Clients, NEW batch, NEW id, Call(c, batch, id) PROVE Stutter
  <2>1. /\ UNCHANGED <<modelVersion, nodeVersion, versionsBefore, snapshot, state, seen, poisoned>>
        /\ phase[c] = "idle" /\ phase'[c] = "waiting"
        /\ \A d \in Clients \ {c} : phase'[d] = phase[d]
    BY <1>3 DEF Call, TypeOK, versionVars, ledgerVars, workVars
  <2> QED
    BY <1>1, <2>1 DEF Working, Publishing
<1>4. ASSUME NEW c \in Clients, RefuseCommitId(c) PROVE Stutter
  <2>1. /\ UNCHANGED <<modelVersion, nodeVersion, versionsBefore, snapshot, state, seen, poisoned>>
        /\ phase[c] = "waiting" /\ phase'[c] = "idle"
        /\ \A d \in Clients \ {c} : phase'[d] = phase[d]
    BY <1>4 DEF RefuseCommitId, Entering, TypeOK, versionVars, ledgerVars, workVars
  <2> QED
    BY <1>1, <2>1 DEF Working, Publishing
<1>5. ASSUME NEW c \in Clients, NEW k \in Nat, Enter(c, k) PROVE Stutter
  <2>1. /\ UNCHANGED <<modelVersion, nodeVersion, state, seen, poisoned>>
        /\ lock = NoClient
        /\ phase'[c] \in {"idle", "snapshot"}
        /\ \A d \in Clients \ {c} : phase'[d] = phase[d]
    BY <1>5 DEF Enter, RejectAtPreflight, Admit, Entering, Finish, Leave, TypeOK, versionVars,
       ledgerVars
  <2>2. \A d \in Clients : phase[d] \notin Critical
    BY <2>1 DEF Mutex
  <2> QED
    BY <1>2, <2>1, <2>2 DEF Working, Critical
<1>6. ASSUME NEW c \in Clients, SnapshotRaises(c) PROVE Stutter
  <2>1. /\ UNCHANGED <<modelVersion, nodeVersion, state, seen, poisoned>>
        /\ phase[c] = "snapshot" /\ phase'[c] = "idle"
        /\ \A d \in Clients \ {c} : phase'[d] = phase[d]
    BY <1>6 DEF SnapshotRaises, Finish, Leave, TypeOK, versionVars
  <2> QED
    BY <1>2, <1>i, <2>1 DEF Working, Critical
<1>7. ASSUME NEW c \in Clients, TakeSnapshot(c) PROVE Stutter
  <2>1. /\ UNCHANGED <<modelVersion, nodeVersion, versionsBefore, state, seen, poisoned>>
        /\ snapshot' = [d \in Participants |-> state[d]]
        /\ phase[c] = "snapshot" /\ phase'[c] = "apply"
        /\ \A d \in Clients \ {c} : phase'[d] = phase[d]
    BY <1>7 DEF TakeSnapshot, TypeOK, versionVars, ledgerVars, workVars
  <2>2. ~Working /\ ~Publishing /\ ~Publishing'
    BY <1>i, <2>1 DEF Working, Publishing, Critical
  <2>3. BarState' = BarState
    BY <2>1, <2>2 DEF BarState
  <2> QED
    BY <2>1, <2>2, <2>3 DEF BarModel
<1>8. ASSUME NEW c \in Clients, NEW q \in request[c].batch, Apply(c, q) \/ ApplyRaises(c, q)
      PROVE  Stutter
  <2>1. /\ UNCHANGED <<modelVersion, nodeVersion, versionsBefore, snapshot, seen, poisoned>>
        /\ phase[c] = "apply" /\ phase'[c] \in {"apply", "rollback"}
        /\ \A d \in Clients \ {c} : phase'[d] = phase[d]
    BY <1>8 DEF Apply, ApplyRaises, TypeOK, versionVars, ledgerVars, workVars
  <2>2. PICK reach \in SUBSET Writes[q.node] : Touch(q, reach)
    BY <1>8 DEF Apply, ApplyRaises
  <2>3. \A d \in Domains \ Participants : state'[d] = state[d]
    BY <1>i, <2>1, <2>2 DEF Touch, InProgressConsistent, Uncovered, Critical
  <2>4. Working /\ Working' /\ ~Publishing /\ ~Publishing'
    BY <1>i, <2>1 DEF Working, Publishing, Critical
  <2> QED
    BY <2>1, <2>3, <2>4 DEF BarModel, BarState
<1>9. ASSUME NEW c \in Clients, NEW verdict,
             CanaryAccepts(c, verdict) \/ CanaryRejects(c, verdict) \/ CanaryRaises(c)
               \/ CanaryMalformed(c)
      PROVE  Stutter
  <2>1. /\ UNCHANGED <<modelVersion, nodeVersion, versionsBefore, snapshot, state, seen, poisoned>>
        /\ phase[c] = "apply" /\ phase'[c] \in {"publishModel", "rollback", "rollbackMalformed"}
        /\ \A d \in Clients \ {c} : phase'[d] = phase[d]
    BY <1>9 DEF CanaryAccepts, CanaryRejects, CanaryRaises, CanaryMalformed, Applied, TypeOK,
       versionVars, ledgerVars, workVars
  <2> QED
    BY <1>1, <2>1 DEF Working, Publishing
<1>10. ASSUME NEW c \in Clients, PublishModel(c) PROVE Stutter
  <2>1. /\ UNCHANGED <<nodeVersion, versionsBefore, snapshot, state, seen, poisoned>>
        /\ phase[c] = "publishModel" /\ phase'[c] = "publishNodes"
        /\ \A d \in Clients \ {c} : phase'[d] = phase[d]
    BY <1>10 DEF PublishModel, TypeOK, versionVars, ledgerVars, workVars
  <2>2. versionsBefore = Versions
    BY <2>1 DEF ChainInvariant, Critical
  <2>3. Working /\ Working' /\ ~Publishing /\ Publishing'
    BY <1>i, <2>1 DEF Working, Publishing, Critical
  <2> QED
    BY <2>1, <2>2, <2>3 DEF BarModel, BarState, Versions
<1>11. ASSUME NEW c \in Clients, NEW raised \in BOOLEAN, NEW damaged \in SUBSET Participants,
              Rollback(c, raised, damaged) \/ RollbackThenRaise(c, raised, damaged)
       PROVE  Stutter \/ Ledger!Die
  <2> DEFINE after == RestoredState(damaged)
  <2>1. /\ UNCHANGED <<modelVersion, nodeVersion, seen>>
        /\ state' = after
        /\ ~poisoned' => SameFingerprints(after)
        /\ phase[c] \in {"rollback", "rollbackMalformed"} /\ phase'[c] = "idle"
        /\ \A d \in Clients \ {c} : phase'[d] = phase[d]
    BY <1>11 DEF Rollback, RollbackThenRaise, Undo, Verified, Finish, Leave, TypeOK, versionVars
  <2>2. Working /\ ~Working' /\ ~Publishing /\ ~Publishing' /\ ~poisoned
    BY <1>i, <2>1 DEF Working, Publishing, Critical
  <2>3. BarModel' = BarModel
    BY <2>1, <2>2 DEF BarModel
  <2>4. BarState' = [d \in Domains |-> after[d]]
    BY <2>1, <2>2 DEF BarState
  <2>5. CASE poisoned'
    <3>1. after \in [Domains -> SUBSET ProposalIds]
      BY DEF RestoredState, TypeOK
    <3> HIDE DEF after
    <3>2. BarState' \in [Domains -> SUBSET ProposalIds]
      BY <2>4, <3>1
    <3> QED
      BY <2>1, <2>2, <2>3, <2>5, <3>2 DEF Ledger!Die, BarModel, BarState
  <2>6. CASE ~poisoned'
    <3>1. \A d \in Domains : after[d] = IF d \in Participants THEN snapshot[d] ELSE state[d]
      BY <2>1, <2>6 DEF SameFingerprints, RestoredState
    <3>2. BarState' = BarState
      BY <2>2, <2>4, <3>1 DEF BarState
    <3> QED
      <4>1. poisoned = FALSE /\ poisoned' = FALSE
        BY <2>2, <2>6, TypeStep DEF TypeOK
      <4> QED
        BY <2>1, <2>3, <3>2, <4>1
  <2> QED
    BY <2>5, <2>6
<1>12. ASSUME NEW c \in Clients, NEW batch, batch = request[c].batch, PublishNodes(c)
       PROVE  Ledger!Install(batch)
  <2>1. /\ UNCHANGED <<modelVersion, poisoned, state>>
        /\ nodeVersion' = Advance(nodeVersion, batch)
        /\ seen' = seen \cup Ids(batch)
        /\ phase[c] = "publishNodes" /\ phase'[c] = "idle"
        /\ \A d \in Clients \ {c} : phase'[d] = phase[d]
    BY <1>12 DEF PublishNodes, Finish, Leave, TypeOK
  <2>2. Working /\ ~Working' /\ Publishing /\ ~Publishing'
    BY <1>i, <2>1 DEF Working, Publishing, Critical
  <2>3. /\ InProgressConsistent(c) /\ Admissible(c) /\ IsBatch(batch) /\ ~poisoned
    BY <1>i, <1>12, <2>1 DEF Critical
  <2>4. modelVersion = versionsBefore.model + 1 /\ nodeVersion = versionsBefore.nodes
    BY <2>1 DEF ChainInvariant, Versions
  <2>5. BarModel = versionsBefore.model /\ BarModel' = BarModel + 1
    BY <2>1, <2>2, <2>4 DEF BarModel
  <2>6. BarState' = [d \in Domains |-> BarState[d] \cup Effects(batch, d)]
    <3>1. BarState' = [d \in Domains |-> state[d]]
      BY <2>1, <2>2 DEF BarState
    <3>2. ASSUME NEW d \in Domains PROVE state[d] = BarState[d] \cup Effects(batch, d)
      <4>1. BarState[d] = IF d \in Participants THEN snapshot[d] ELSE state[d]
        BY <2>2 DEF BarState
      <4>2. BarState[d] = Accounted(d)
        BY <2>1, <2>3, <4>1 DEF InProgressConsistent
      <4> QED
        BY <1>12, <2>1, <2>3, <4>2 DEF InProgressConsistent
    <3> QED
      BY <3>1, <3>2
  <2>7. Ids(batch) \cap seen = {} /\ \A q \in batch : Ledger!ComputedFromCurrent(q)
    BY <1>12, <2>2, <2>3, <2>4 DEF Admissible, Ledger!ComputedFromCurrent, Ledger!Depends, Depends
  <2>8. nodeVersion' = Ledger!Advance(nodeVersion, batch)
    BY <2>1, SameGraph DEF Advance, Invalidated, Ledger!Advance, Ledger!Invalidated
  <2>9. Ledger!IsBatch(batch)
    BY <2>3 DEF IsBatch, Ledger!IsBatch
  <2>10. Ledger!Ids(batch) = Ids(batch)
    BY DEF Ids, Ledger!Ids
  <2>11. \A d \in Domains : Ledger!Effects(batch, d) = Effects(batch, d)
    BY DEF Effects, Ledger!Effects, Ids, Ledger!Ids
  <2>12. BarState' = [d \in Domains |-> BarState[d] \cup Ledger!Effects(batch, d)]
    BY <2>6, <2>11
  <2> QED
    BY <2>1, <2>3, <2>5, <2>7, <2>8, <2>9, <2>10, <2>12 DEF Ledger!Install, BarModel, BarState
<1>13. ASSUME UNCHANGED vars PROVE Stutter
  BY <1>13, <1>1 DEF vars, versionVars, ledgerVars, workVars, Working, Publishing
<1> HIDE DEF Stutter
<1>14. ASSUME NEW c \in Clients, PublishNodes(c) PROVE Ledger!LedgerNext
  <2>1. request[c].batch \in {request[d].batch : d \in InProgress}
    BY <1>14 DEF PublishNodes, InProgress
  <2> QED
    BY <1>12, <1>14, <2>1 DEF Ledger!LedgerNext
<1>15. ASSUME NEW c \in Clients, Settle(c) PROVE Stutter \/ Ledger!LedgerNext
  BY <1>6, <1>10, <1>11, <1>14, <1>15 DEF Settle, Ledger!LedgerNext
<1>16. ASSUME NEW c \in Clients, Work(c) PROVE Stutter
  BY <1>7, <1>8, <1>9, <1>16 DEF Work
<1>17. ASSUME NEW c \in Clients, Step(c, Nat) PROVE Stutter \/ Ledger!LedgerNext
  BY <1>4, <1>5, <1>15, <1>16, <1>17 DEF Step
<1>18. ASSUME Next PROVE Stutter \/ Ledger!LedgerNext
  BY <1>3, <1>17, <1>18 DEF Next
<1>19. Stutter \/ Ledger!LedgerNext
  BY <1>13, <1>18
<1> QED
  BY <1>19 DEF Stutter

(* The initial state of the coordinator is the ledger's.                   *)
LEMMA LedgerStart == Init => Ledger!LedgerInit
BY DEF Init, Ledger!LedgerInit, Working, Publishing

(* ImplementsLedger: whatever the interleaving of callers, and whatever     *)
(* raises or is left damaged inside a commit, the coordinator installs     *)
(* whole batches, each at the versions it was computed from, or dies.      *)
THEOREM CoordinatorImplementsLedger == Spec => ImplementsLedger
<1>1. Spec => []StepInvariant
  BY MutexCorrect, ChainCorrect, ContentsCorrect, AdmissionCorrect, PTL DEF StepInvariant
<1> QED
  BY <1>1, LedgerStart, LedgerStep, PTL DEF Spec, ImplementsLedger, Ledger!LedgerSpec

-----------------------------------------------------------------------------
(* Serializability.  The version vector counts the accepted receipts; the  *)
(* chain of receipts and the admission check carry that count to the next  *)
(* accepted batch.                                                         *)

Before(S, i) == {j \in S : j < i}
Invalidating(rs, S, n) == {j \in S : n \in Invalidated(rs[j].batch)}

(* The vector that the receipts of rs with an index in S add up to.        *)
CountOf(rs, S) ==
  [model |-> InitialVersions.model + Cardinality(S),
   nodes |-> [n \in Nodes |-> InitialVersions.nodes[n] + Cardinality(Invalidating(rs, S, n))]]

(* Every proposal of the batch was computed from vector v.                 *)
ComputedFrom(batch, v) ==
  \A q \in batch :
    /\ q.base = v.model
    /\ \A n \in Depends(q) : q.deps[n] = v.nodes[n]

CountInvariant ==
  /\ \A i \in Accepted : ComputedFrom(receipts[i].batch, CountOf(receipts, Before(Accepted, i)))
  /\ LastVector = CountOf(receipts, Accepted)

(* There are finitely many receipts.                                       *)
LEMMA AcceptedFinite == TypeOK => IsFiniteSet(Accepted)
<1> SUFFICES ASSUME TypeOK PROVE IsFiniteSet(Accepted)
  OBVIOUS
<1>1. DOMAIN receipts = 1 .. Len(receipts) /\ Len(receipts) \in Nat
  BY DEF TypeOK
<1>2. Accepted \in SUBSET (1 .. Len(receipts))
  BY <1>1 DEF Accepted
<1>3. IsFiniteSet(1 .. Len(receipts))
  BY <1>1, FS_Interval
<1> QED
  BY <1>2, <1>3, FS_Subset

(* Only the receipts with an index in S matter to CountOf.                 *)
LEMMA CountOfSame ==
  ASSUME NEW rs, NEW new, NEW S, \A i \in S : new[i] = rs[i]
  PROVE  CountOf(new, S) = CountOf(rs, S)
<1>1. \A n : Invalidating(new, S, n) = Invalidating(rs, S, n)
  BY DEF Invalidating
<1> QED
  BY <1>1 DEF CountOf

(* One more accepted receipt counts for the model, and for every node its  *)
(* batch invalidates.                                                      *)
LEMMA CountOfOneMore ==
  ASSUME NEW rs, NEW S, IsFiniteSet(S), NEW k, k \notin S
  PROVE  LET v == CountOf(rs, S)
         IN CountOf(rs, S \cup {k}) = [model |-> v.model + 1,
                                       nodes |-> Advance(v.nodes, rs[k].batch)]
<1>1. Cardinality(S) \in Nat /\ Cardinality(S \cup {k}) = Cardinality(S) + 1
  BY FS_AddElement, FS_CardinalityType
<1>2. ASSUME NEW n \in Nodes
      PROVE  /\ Cardinality(Invalidating(rs, S, n)) \in Nat
             /\ Cardinality(Invalidating(rs, S \cup {k}, n)) =
                  Cardinality(Invalidating(rs, S, n))
                    + IF n \in Invalidated(rs[k].batch) THEN 1 ELSE 0
  <2>1. Invalidating(rs, S, n) \in SUBSET S /\ k \notin Invalidating(rs, S, n)
    BY DEF Invalidating
  <2>2. IsFiniteSet(Invalidating(rs, S, n))
    BY <2>1, FS_Subset
  <2>3. Cardinality(Invalidating(rs, S, n)) \in Nat
    BY <2>2, FS_CardinalityType
  <2>4. CASE n \in Invalidated(rs[k].batch)
    <3>1. Invalidating(rs, S \cup {k}, n) = Invalidating(rs, S, n) \cup {k}
      BY <2>4 DEF Invalidating
    <3>2. Cardinality(Invalidating(rs, S, n) \cup {k}) = Cardinality(Invalidating(rs, S, n)) + 1
      BY <2>1, <2>2, FS_AddElement
    <3> QED
      BY <2>3, <2>4, <3>1, <3>2
  <2>5. CASE n \notin Invalidated(rs[k].batch)
    <3>1. Invalidating(rs, S \cup {k}, n) = Invalidating(rs, S, n)
      BY <2>5 DEF Invalidating
    <3> QED
      BY <2>3, <2>5, <3>1
  <2> QED
    BY <2>4, <2>5
<1>3. InitialVersions.model \in Nat /\ InitialVersions.nodes \in [Nodes -> Nat]
  OBVIOUS
<1>4. ASSUME NEW n \in Nodes
      PROVE  CountOf(rs, S \cup {k}).nodes[n] = Advance(CountOf(rs, S).nodes, rs[k].batch)[n]
  BY <1>2, <1>3 DEF CountOf, Advance
<1>5. CountOf(rs, S \cup {k}).nodes = Advance(CountOf(rs, S).nodes, rs[k].batch)
  BY <1>4 DEF CountOf, Advance
<1>6. CountOf(rs, S \cup {k}).model = CountOf(rs, S).model + 1
  BY <1>1, <1>3 DEF CountOf
<1>7. CountOf(rs, S \cup {k}) = [model |-> CountOf(rs, S \cup {k}).model,
                                 nodes |-> CountOf(rs, S \cup {k}).nodes]
  BY DEF CountOf
<1> QED
  BY <1>5, <1>6, <1>7

(* What a new receipt does to the sets that are counted.                   *)
LEMMA NewReceipt ==
  ASSUME TypeOK, NEW c \in Clients, NEW id, NEW status, NEW before, NEW after,
         Recorded(c, id, status, before, after),
         NEW k, k = Len(receipts) + 1
  PROVE  /\ Accepted' = IF status = "ACCEPTED" THEN Accepted \cup {k} ELSE Accepted
         /\ k \notin Accepted
         /\ receipts'[k].batch = request[c].batch
         /\ \A i \in Accepted : receipts'[i] = receipts[i]
         /\ \A i \in Accepted : Before(Accepted', i) = Before(Accepted, i)
         /\ Before(Accepted', k) = Accepted
         /\ LastVector' = after
<1>1. /\ DOMAIN receipts' = DOMAIN receipts \cup {k}
      /\ k \notin DOMAIN receipts
      /\ Len(receipts') = k
      /\ \A i \in DOMAIN receipts : receipts'[i] = receipts[i]
      /\ receipts'[k].batch = request[c].batch
      /\ receipts'[k].status = status
      /\ receipts'[k].after = after
  BY DEF Recorded
<1>2. DOMAIN receipts = 1 .. Len(receipts) /\ Len(receipts) \in Nat
  BY DEF TypeOK
<1>3. \A i \in DOMAIN receipts : i < k /\ ~(k < i)
  BY <1>2
<1>4. ~(k < k)
  BY <1>2
<1>5. LastVector' = after
  BY <1>1, <1>2 DEF LastVector, VectorBefore
<1>6. Accepted' = IF status = "ACCEPTED" THEN Accepted \cup {k} ELSE Accepted
  BY <1>1 DEF Accepted
<1>7. \A i \in Accepted : i \in DOMAIN receipts
  BY DEF Accepted
<1>9. \A i \in Accepted : Before(Accepted', i) = Before(Accepted, i)
  BY <1>3, <1>6, <1>7 DEF Before
<1>10. Before(Accepted', k) = Accepted
  BY <1>3, <1>4, <1>6, <1>7 DEF Before
<1> QED
  BY <1>1, <1>5, <1>6, <1>7, <1>9, <1>10

(* A receipt that is not ACCEPTED ends where the last one ended, and an    *)
(* ACCEPTED one ends at the vector its batch, computed from the last one,  *)
(* advances to.                                                            *)
Continues(c, status, after) ==
  IF status = "ACCEPTED"
  THEN /\ ComputedFrom(request[c].batch, LastVector)
       /\ after = [model |-> LastVector.model + 1,
                   nodes |-> Advance(LastVector.nodes, request[c].batch)]
  ELSE after = LastVector

LEMMA CountsContinue ==
  ASSUME TypeOK, CountInvariant, NEW c \in Clients, NEW id, NEW status, NEW before, NEW after,
         Recorded(c, id, status, before, after), Continues(c, status, after)
  PROVE  CountInvariant'
<1> PICK k : k = Len(receipts) + 1
  OBVIOUS
<1>1. /\ Accepted' = IF status = "ACCEPTED" THEN Accepted \cup {k} ELSE Accepted
      /\ k \notin Accepted
      /\ receipts'[k].batch = request[c].batch
      /\ \A i \in Accepted : receipts'[i] = receipts[i]
      /\ \A i \in Accepted : Before(Accepted', i) = Before(Accepted, i)
      /\ Before(Accepted', k) = Accepted
      /\ LastVector' = after
  BY NewReceipt
<1>2. \A S \in SUBSET Accepted : CountOf(receipts', S) = CountOf(receipts, S)
  BY <1>1, CountOfSame
<1>3. ASSUME NEW i \in Accepted
      PROVE  ComputedFrom(receipts'[i].batch, CountOf(receipts', Before(Accepted', i)))
  <2>1. Before(Accepted, i) \in SUBSET Accepted
    BY DEF Before
  <2> QED
    BY <1>1, <1>2, <2>1 DEF CountInvariant
<1>4. CountInvariant' =
        (/\ \A i \in Accepted' :
              ComputedFrom(receipts'[i].batch, CountOf(receipts', Before(Accepted', i)))
         /\ LastVector' = CountOf(receipts', Accepted'))
  BY DEF CountInvariant, ComputedFrom, CountOf, Before, Invalidating
<1>5. CASE status = "ACCEPTED"
  <2>1. ComputedFrom(receipts'[k].batch, CountOf(receipts', Before(Accepted', k)))
    BY <1>1, <1>2, <1>5 DEF Continues, CountInvariant
  <2>2. CountOf(receipts', Accepted \cup {k}) =
          [model |-> CountOf(receipts', Accepted).model + 1,
           nodes |-> Advance(CountOf(receipts', Accepted).nodes, receipts'[k].batch)]
    BY <1>1, AcceptedFinite, CountOfOneMore
  <2>3. LastVector' = CountOf(receipts', Accepted')
    BY <1>1, <1>2, <1>5, <2>2 DEF Continues, CountInvariant
  <2> QED
    BY <1>1, <1>3, <1>4, <1>5, <2>1, <2>3
<1>6. CASE status # "ACCEPTED"
  BY <1>1, <1>2, <1>3, <1>4, <1>6 DEF Continues, CountInvariant
<1> QED
  BY <1>5, <1>6

(* The counts are right after every step.                                  *)
LEMMA CountStep ==
  TypeOK /\ Mutex /\ ChainInvariant /\ AdmissionInvariant /\ CountInvariant /\ [Next]_vars
    => CountInvariant'
<1> SUFFICES ASSUME TypeOK, Mutex, ChainInvariant, AdmissionInvariant, CountInvariant, [Next]_vars
             PROVE  CountInvariant'
  OBVIOUS
<1>1. ASSUME UNCHANGED receipts PROVE CountInvariant'
  <2>1. Accepted' = Accepted /\ LastVector' = LastVector
    BY <1>1 DEF Accepted, LastVector, VectorBefore
  <2>2. CountInvariant' =
          (/\ \A i \in Accepted' :
                ComputedFrom(receipts'[i].batch, CountOf(receipts', Before(Accepted', i)))
           /\ LastVector' = CountOf(receipts', Accepted'))
    BY DEF CountInvariant, ComputedFrom, CountOf, Before, Invalidating
  <2> QED
    BY <1>1, <2>1, <2>2 DEF CountInvariant
<1>2. ASSUME NEW c \in Clients, NEW id, NEW status, NEW before, NEW after,
             Finish(c, id, status, before, after), Continues(c, status, after)
      PROVE  CountInvariant'
  BY <1>2, FinishAppends, CountsContinue
<1>3. ASSUME NEW c \in Clients, NEW k \in Nat, RejectAtPreflight(c, k) PROVE CountInvariant'
  <2>1. Finish(c, k, "REJECTED", Versions, Versions) /\ lock = NoClient
    BY <1>3 DEF RejectAtPreflight, Entering
  <2>2. Continues(c, "REJECTED", Versions)
    BY <2>1 DEF Continues, ChainInvariant, ReceiptsChain, LastVector
  <2> QED
    BY <1>2, <2>1, <2>2
<1>4. ASSUME NEW c \in Clients, NEW status, status # "ACCEPTED",
             phase[c] \in Critical \ {"publishNodes"},
             Finish(c, currentId, status, versionsBefore, Versions)
      PROVE  CountInvariant'
  <2>1. Versions = LastVector
    BY <1>4 DEF ChainInvariant, Mutex
  <2>2. Continues(c, status, Versions)
    BY <1>4, <2>1 DEF Continues
  <2> QED
    BY <1>2, <1>4, <2>2
<1>5. ASSUME NEW c \in Clients, SnapshotRaises(c) PROVE CountInvariant'
  BY <1>4, <1>5 DEF SnapshotRaises, Critical
<1>6. ASSUME NEW c \in Clients, NEW raised, NEW damaged, Rollback(c, raised, damaged)
      PROVE  CountInvariant'
  <2>1. PICK status : Finish(c, currentId, status, versionsBefore, Versions) /\ status # "ACCEPTED"
    BY <1>6 DEF Rollback
  <2> QED
    BY <1>4, <1>6, <2>1 DEF Rollback, Critical
<1>7. ASSUME NEW c \in Clients, PublishNodes(c) PROVE CountInvariant'
  <2>1. PICK after : /\ after = [model |-> modelVersion,
                                  nodes |-> Advance(nodeVersion, request[c].batch)]
                     /\ Finish(c, currentId, "ACCEPTED", versionsBefore, after)
    BY <1>7 DEF PublishNodes
  <2>2. phase[c] = "publishNodes" /\ phase[c] \in Critical
    BY <1>7 DEF PublishNodes, Critical
  <2>3. versionsBefore = LastVector
    BY <2>2 DEF ChainInvariant, Mutex
  <2>4. Versions = [model |-> versionsBefore.model + 1, nodes |-> versionsBefore.nodes]
    BY <2>2 DEF ChainInvariant
  <2>5. modelVersion = LastVector.model + 1 /\ nodeVersion = LastVector.nodes
    BY <2>3, <2>4 DEF Versions
  <2>6. ComputedFrom(request[c].batch, LastVector)
    BY <2>2, <2>3 DEF AdmissionInvariant, Admissible, ComputedFrom
  <2>7. Continues(c, "ACCEPTED", after)
    BY <2>1, <2>5, <2>6 DEF Continues
  <2> QED
    BY <1>2, <2>1, <2>7
<1>8. ASSUME NEW c \in Clients, NEW raised, NEW damaged, RollbackThenRaise(c, raised, damaged)
      PROVE  CountInvariant'
  BY <1>1, <1>8 DEF RollbackThenRaise
<1>9. ASSUME NEW c \in Clients, Work(c) PROVE CountInvariant'
  BY <1>1, <1>9 DEF Work, TakeSnapshot, Apply, ApplyRaises, CanaryAccepts, CanaryRejects,
     CanaryRaises, CanaryMalformed, ledgerVars
<1>10. ASSUME NEW c \in Clients, NEW k, Admit(c, k) \/ RefuseCommitId(c) \/ PublishModel(c)
       PROVE  CountInvariant'
  BY <1>1, <1>10 DEF Admit, RefuseCommitId, PublishModel, ledgerVars
<1>11. ASSUME NEW c \in Clients, NEW batch, NEW id, Call(c, batch, id) PROVE CountInvariant'
  BY <1>1, <1>11 DEF Call, ledgerVars
<1>12. CASE UNCHANGED vars
  BY <1>1, <1>12 DEF vars, ledgerVars
<1> QED
  BY <1>3, <1>5, <1>6, <1>7, <1>8, <1>9, <1>10, <1>11, <1>12 DEF Next, Step, Enter, Settle

LEMMA CountCorrect == Spec => []CountInvariant
<1>1. Init => CountInvariant
  <2> SUFFICES ASSUME Init PROVE CountInvariant
    OBVIOUS
  <2>1. Accepted = {} /\ LastVector = InitialVersions
    BY DEF Init, Accepted, LastVector, VectorBefore
  <2>2. Cardinality({}) = 0
    BY FS_EmptySet
  <2>3. \A n : Invalidating(receipts, {}, n) = {}
    BY DEF Invalidating
  <2>4. CountOf(receipts, {}) = [model |-> InitialVersions.model + 0,
                                 nodes |-> [n \in Nodes |-> InitialVersions.nodes[n] + 0]]
    BY <2>2, <2>3 DEF CountOf
  <2>5. InitialVersions = CountOf(receipts, {})
    BY <2>4
  <2> QED
    BY <2>1, <2>5 DEF CountInvariant
<1> QED
  BY <1>1, MutexCorrect, ChainCorrect, AdmissionCorrect, CountStep, PTL DEF Spec

(* Serializable: an accepted proposal was computed from the model that all *)
(* the batches accepted before it, and no others, produced, and the nodes  *)
(* it depends on were unchanged since.                                     *)
THEOREM CommitsAreSerializable == Spec => []Serializable
<1>1. TypeOK /\ CountInvariant => Serializable
  <2> SUFFICES ASSUME TypeOK, CountInvariant, NEW i \in Accepted, NEW q \in receipts[i].batch
               PROVE  LET earlier == {j \in Accepted : j < i}
                      IN /\ q.base = InitialVersions.model + Cardinality(earlier)
                         /\ \A n \in Depends(q) :
                              q.deps[n] = InitialVersions.nodes[n]
                               + Cardinality({j \in earlier : n \in Invalidated(receipts[j].batch)})
    BY DEF Serializable
  <2>1. ComputedFrom(receipts[i].batch, CountOf(receipts, Before(Accepted, i)))
    BY DEF CountInvariant
  <2>2. Depends(q) \in SUBSET Nodes
    BY DEF Depends
  <2> QED
    BY <2>1, <2>2 DEF ComputedFrom, CountOf, Invalidating, Before
<1> QED
  BY <1>1, CountCorrect, MutexCorrect, PTL

=============================================================================
