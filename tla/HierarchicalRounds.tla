------------------------- MODULE HierarchicalRounds -------------------------
(***************************************************************************)
(* HierarchicalProposalCoordinator.submit of typed_runtime/hierarchical.py *)
(* with the staleness policy of staleness.py and the merge of proposal.py, *)
(* on top of TransactionalCoordinator.  A round assesses its proposals one *)
(* by one, shrinks or corrects the stale ones, merges those of one node,   *)
(* and commits the result.  It takes no lock of its own: every read of the *)
(* version vector is a step, and commits of other threads fall between.    *)
(*                                                                         *)
(* The payload of a packet is abstracted to the set of contributions it    *)
(* was made from: which proposal and which data each came from, the        *)
(* versions it was computed at, by how much it was discounted for          *)
(* staleness, and the version vector a drift correction was computed for.  *)
(***************************************************************************)
EXTENDS TransactionalCoordinator, Integers

CONSTANTS
  Consistency,  \* Consistency[n]: "strict" (or exact), "bounded" or "corrected"
  MaxModelLag,  \* MaxModelLag[n], MaxNodeLag[n]: the staleness policy of node n
  MaxNodeLag,
  Mergeable     \* the nodes whose merge law and payload merger allow a merge

ASSUME RoundAssumption ==
  /\ Consistency \in [Nodes -> {"strict", "bounded", "corrected"}]
  /\ MaxModelLag \in [Nodes -> Nat]
  /\ MaxNodeLag \in [Nodes -> Nat]
  /\ Mergeable \subseteq Nodes

VARIABLES
  roundPhase,  \* roundPhase[c]: where c is inside submit(), or "idle"
  round,       \* round[c]: the locals of c's submit()
  rounds       \* receipts of the hierarchical coordinator

roundVars == <<roundPhase, round, rounds>>
allVars == <<vars, roundVars>>

RoundPhases ==
  {"idle", "rows", "model", "node", "decide", "ask", "rebase", "group", "commit", "committing"}

(* semantics: staleness_semantics of the packet a contribution is in.      *)
Semantics == {"current", "bounded_stale_approximation", "corrected_statistical_approximation",
              "exact_rebase"}

Contribution(Origins, Data) ==
  [origin : Origins, data : Data, base : Nat, nodeBase : Nat, discount : Nat,
   semantics : Semantics, correctedFor : SUBSET Vector]

NoRound ==
  [inputs |-> {}, todo |-> {}, row |-> {}, nodes |-> InitialVersions.nodes, modelLag |-> 0,
   nodeLag |-> 0, target |-> InitialVersions, correction |-> {}, admitted |-> {},
   rejected |-> {}, canonical |-> {}, merged |-> {}]

(* The row under assessment; row is {} or a singleton.                     *)
Row(c) == CHOOSE q \in round[c].row : TRUE

RoundInit ==
  /\ Init
  /\ roundPhase = [c \in Clients |-> "idle"]
  /\ round = [c \in Clients |-> NoRound]
  /\ rounds = <<>>

Goto(c, p) == roundPhase' = [roundPhase EXCEPT ![c] = p]

(* submit() ends, with a receipt or by raising.                            *)
EndRound(c) ==
  /\ Goto(c, "idle")
  /\ round' = [round EXCEPT ![c] = NoRound]

-----------------------------------------------------------------------------
(* One row of the loop over the proposals                                  *)

StartRound(c, rows) ==
  /\ roundPhase[c] = "idle"
  /\ phase[c] = "idle"
  /\ \A p, q \in rows : p.id = q.id => p = q
  /\ Goto(c, "rows")
  /\ round' = [round EXCEPT ![c].inputs = rows, ![c].todo = rows]
  /\ UNCHANGED <<vars, rounds>>

(* Mutant: a rejected row is looked at again.                              *)
MutReject(c) ==
  /\ round' = [round EXCEPT ![c].row = {}, ![c].correction = {},
                            ![c].todo = @ \cup round[c].row]
  /\ Goto(c, "rows")

Reject(c) ==
  /\ round' = [round EXCEPT ![c].row = {}, ![c].correction = {},
                            ![c].rejected = @ \cup {Row(c).id}]
  /\ Goto(c, "rows")

AdmitRow(c, q) ==
  /\ round' = [round EXCEPT ![c].row = {}, ![c].correction = {}, ![c].admitted = @ \cup {q}]
  /\ Goto(c, "rows")

(* assess_staleness first reads the node versions, as target_versions.     *)
BeginAssessment(c, q, correction) ==
  /\ round' = [round EXCEPT ![c].todo = @ \ {q}, ![c].row = {q}, ![c].nodes = nodeVersion,
                            ![c].correction = correction]
  /\ Goto(c, "model")

TakeRow(c, q) ==
  /\ roundPhase[c] = "rows"
  /\ q \in round[c].todo
  /\ BeginAssessment(c, q, {})
  /\ UNCHANGED <<vars, rounds>>

MissingNodeVersion(c) ==
  /\ roundPhase[c] = "model"
  /\ Row(c).node \notin Depends(Row(c))
  /\ Reject(c)
  /\ UNCHANGED <<vars, rounds>>

ReadModelVersion(c) ==
  /\ roundPhase[c] = "model"
  /\ Row(c).node \in Depends(Row(c))
  /\ round' = [round EXCEPT ![c].modelLag = modelVersion - Row(c).base]
  /\ Goto(c, "node")
  /\ UNCHANGED <<vars, rounds>>

ReadNodeVersion(c) ==
  /\ roundPhase[c] = "node"
  /\ round' = [round EXCEPT ![c].nodeLag = nodeVersion[Row(c).node] - Row(c).deps[Row(c).node]]
  /\ Goto(c, "decide")
  /\ UNCHANGED <<vars, rounds>>

-----------------------------------------------------------------------------
(* The decision of assess_staleness                                        *)

Current(c) == round[c].modelLag = 0 /\ round[c].nodeLag = 0
FutureVersion(c) == round[c].modelLag < 0 \/ round[c].nodeLag < 0

(* Mutant: the node's own lag is not limited.                              *)
MutLagExceeded(c) == round[c].modelLag > MaxModelLag[Row(c).node]

LagExceeded(c) ==
  \/ round[c].modelLag > MaxModelLag[Row(c).node]
  \/ round[c].nodeLag > MaxNodeLag[Row(c).node]

(* Mutant: the target's node versions are read when the receipt is built.  *)
MutTarget(c) == [model |-> modelVersion, nodes |-> nodeVersion]

(* The target of the receipt: the node versions read first, and the model  *)
(* version read once more when the receipt is built.                       *)
Target(c) == [model |-> modelVersion, nodes |-> round[c].nodes]

(* A correction of a row that is current by now raises, one for another    *)
(* target vector does too, and submit turns both into rejections.          *)
Refused(c) ==
  \/ FutureVersion(c)
  \/ Current(c) /\ round[c].correction # {}
  \/ /\ ~Current(c)
     /\ \/ Consistency[Row(c).node] = "strict"
        \/ LagExceeded(c)
        \/ \E k \in round[c].correction : k.for # Target(c)

RejectRow(c) ==
  /\ roundPhase[c] = "decide"
  /\ Refused(c)
  /\ Reject(c)
  /\ UNCHANGED <<vars, rounds>>

AcceptCurrent(c) ==
  /\ roundPhase[c] = "decide"
  /\ Current(c)
  /\ ~Refused(c)
  /\ AdmitRow(c, Row(c))
  /\ UNCHANGED <<vars, rounds>>

NeedsCorrection(c) == Consistency[Row(c).node] = "corrected" /\ round[c].correction = {}

(* missing-drift-correction: the provider is told the receipt's target.    *)
AskForCorrection(c) ==
  /\ roundPhase[c] = "decide"
  /\ ~Current(c) /\ ~Refused(c) /\ NeedsCorrection(c)
  /\ round' = [round EXCEPT ![c].target = Target(c)]
  /\ Goto(c, "ask")
  /\ UNCHANGED <<vars, rounds>>

(* There is no provider, or it raises or returns something else.           *)
CorrectionFails(c) ==
  /\ roundPhase[c] = "ask"
  /\ Reject(c)
  /\ UNCHANGED <<vars, rounds>>

(* The provider returns a correction for the target, and the row is        *)
(* assessed a second time with it.                                         *)
CorrectionArrives(c, exact) ==
  /\ roundPhase[c] = "ask"
  /\ BeginAssessment(c, Row(c), {[for |-> round[c].target, exact |-> exact]})
  /\ UNCHANGED <<vars, rounds>>

AcceptStale(c) ==
  /\ roundPhase[c] = "decide"
  /\ ~Current(c) /\ ~Refused(c) /\ ~NeedsCorrection(c)
  /\ round' = [round EXCEPT ![c].target = Target(c)]
  /\ Goto(c, "rebase")
  /\ UNCHANGED <<vars, rounds>>

-----------------------------------------------------------------------------
(* Mutant: the scale grows with the lag.                                   *)
MutDiscount(c) == -(round[c].modelLag + round[c].nodeLag)

Discount(c) == round[c].modelLag + round[c].nodeLag

(* shrink_proposal: the row is rebased to the receipt's target under an id *)
(* minted from the model version read at that moment.                      *)

RebasedId(i, version) == <<"rebased", i, version>>

Transformed(part, c) ==
  LET correction == round[c].correction
      exact == \E k \in correction : k.exact
  IN [part EXCEPT
        !.discount = IF exact THEN 0 ELSE Discount(c),
        !.semantics = CASE exact -> "exact_rebase"
                        [] correction # {} /\ ~exact -> "corrected_statistical_approximation"
                        [] correction = {} -> "bounded_stale_approximation",
        !.correctedFor = {k.for : k \in correction}]

Rebase(c) ==
  /\ roundPhase[c] = "rebase"
  /\ AdmitRow(c, [Row(c) EXCEPT
                    !.id = RebasedId(@, modelVersion),
                    !.base = round[c].target.model,
                    !.deps = round[c].target.nodes,
                    !.payload = {Transformed(part, c) : part \in @}])
  /\ UNCHANGED <<vars, rounds>>

(* The payload cannot be scaled, or the scale underflows to zero.          *)
RebaseFails(c) ==
  /\ roundPhase[c] = "rebase"
  /\ Reject(c)
  /\ UNCHANGED <<vars, rounds>>

(* OverflowError of an integer too large to scale is not caught: submit    *)
(* raises.                                                                 *)
RebaseOverflows(c) ==
  /\ roundPhase[c] = "rebase"
  /\ EndRound(c)
  /\ UNCHANGED <<vars, rounds>>

-----------------------------------------------------------------------------
(* Grouping and merging                                                    *)

RowsOf(c, n) == {q \in round[c].admitted : q.node = n}
Groups(c) == {n \in Nodes : Cardinality(RowsOf(c, n)) > 1}

MergedId(ids) == <<"merged", ids>>

SemanticsOf(q) == {part.semantics : part \in q.payload}
DataOf(q) == {part.data : part \in q.payload}

SameContract(p, q) ==
  /\ p.base = q.base /\ p.deps = q.deps
  /\ p.invalidates = q.invalidates
  /\ SemanticsOf(p) = SemanticsOf(q)

(* Mutant: nobody looks whether two rows report the same data.             *)
MutCanMerge(c, n) ==
  /\ n \in Mergeable
  /\ \A p, q \in RowsOf(c, n) : SameContract(p, q)

(* merge_same_node_proposals does not raise ValueError.                    *)
CanMerge(c, n) ==
  /\ n \in Mergeable
  /\ \A p, q \in RowsOf(c, n) :
       SameContract(p, q) /\ (p # q => DataOf(p) \cap DataOf(q) = {})

Merged(rows) ==
  LET anchor == CHOOSE q \in rows : TRUE
  IN [anchor EXCEPT !.id = MergedId(Ids(rows)),
                    !.wellFormed = \A q \in rows : q.wellFormed,
                    !.payload = UNION {q.payload : q \in rows}]

(* Mutant: the rows of a group that could not be merged are dropped.       *)
MutLostRows(c, failing) == {}

LostRows(c, failing) == UNION {RowsOf(c, n) : n \in failing}

(* The payload merger may raise TypeError or ValueError as well, so any    *)
(* group may fail; its rows are rejected under the ids they have now.      *)
Group(c, failing) ==
  LET merging == Groups(c) \ failing
  IN /\ roundPhase[c] = "rows"
     /\ round[c].todo = {}
     /\ failing \subseteq Groups(c)
     /\ \A n \in merging : CanMerge(c, n)
     /\ round' = [round EXCEPT
          ![c].canonical = {q \in round[c].admitted : q.node \notin Groups(c)}
                           \cup {Merged(RowsOf(c, n)) : n \in merging},
          ![c].merged = {[id |-> MergedId(Ids(RowsOf(c, n))), sources |-> Ids(RowsOf(c, n))]
                           : n \in merging},
          ![c].rejected = @ \cup Ids(LostRows(c, failing))]
     /\ Goto(c, "commit")
     /\ UNCHANGED <<vars, rounds>>

(* OverflowError of the built-in addition is not caught: submit raises.    *)
MergeOverflows(c) ==
  /\ roundPhase[c] = "rows"
  /\ round[c].todo = {}
  /\ \E n \in Groups(c) : CanMerge(c, n)
  /\ EndRound(c)
  /\ UNCHANGED <<vars, rounds>>

-----------------------------------------------------------------------------
(* Commit and receipt                                                      *)

(* ProposalBatch refuses packets rebased to different model versions, and  *)
(* nothing catches that: submit raises.                                    *)
MixedBases(c) ==
  /\ roundPhase[c] = "commit"
  /\ round[c].canonical # {}
  /\ ~IsBatch(round[c].canonical)
  /\ EndRound(c)
  /\ UNCHANGED <<vars, rounds>>

CommitRound(c) ==
  /\ roundPhase[c] = "commit"
  /\ Call(c, round[c].canonical, NoId)
  /\ Goto(c, "committing")
  /\ UNCHANGED <<round, rounds>>

(* HierarchicalRoundReceipt.__post_init__ accepts the outcome.             *)
Accounts(r) ==
  /\ {m.id : m \in r.merged} \subseteq Ids(r.canonical)
  /\ \A m \in r.merged : m.sources \subseteq Ids(r.inputs)
  /\ r.rejected \subseteq Ids(r.inputs)
  /\ Ids(r.canonical) \cap r.rejected = {}
  /\ \A m \in r.merged : m.sources \cap r.rejected = {}

Outcome(c, commit) ==
  [inputs |-> round[c].inputs, canonical |-> round[c].canonical, merged |-> round[c].merged,
   rejected |-> round[c].rejected, commit |-> commit]

(* The end of submit: the receipt is recorded, or refusing it raises.      *)
RecordRound(c, commit) ==
  /\ rounds' = IF Accounts(round[c]) THEN Append(rounds, Outcome(c, commit)) ELSE rounds
  /\ EndRound(c)
  /\ UNCHANGED vars

NothingToCommit(c) ==
  /\ roundPhase[c] = "commit"
  /\ round[c].canonical = {}
  /\ RecordRound(c, Raised)

CommitReturned(c) ==
  /\ roundPhase[c] = "committing"
  /\ phase[c] = "idle"
  /\ returned[c] # Raised
  /\ RecordRound(c, returned[c])

CommitRaised(c) ==
  /\ roundPhase[c] = "committing"
  /\ phase[c] = "idle"
  /\ returned[c] = Raised
  /\ EndRound(c)
  /\ UNCHANGED <<vars, rounds>>

-----------------------------------------------------------------------------
Assess(c) ==
  \/ \E q \in round[c].todo : TakeRow(c, q)
  \/ MissingNodeVersion(c)
  \/ ReadModelVersion(c)
  \/ ReadNodeVersion(c)
  \/ RejectRow(c)
  \/ AcceptCurrent(c)
  \/ AskForCorrection(c)
  \/ CorrectionFails(c)
  \/ \E exact \in BOOLEAN : CorrectionArrives(c, exact)
  \/ AcceptStale(c)
  \/ Rebase(c)
  \/ RebaseFails(c)

Conclude(c) ==
  \/ RebaseOverflows(c)
  \/ \E failing \in SUBSET Groups(c) : Group(c, failing)
  \/ MergeOverflows(c)
  \/ MixedBases(c)
  \/ CommitRound(c)
  \/ NothingToCommit(c)
  \/ CommitReturned(c)
  \/ CommitRaised(c)

(* One step of c inside submit(), or inside a commit().                    *)
RoundStep(c, ids) ==
  \/ Assess(c)
  \/ Conclude(c)
  \/ Step(c, ids) /\ UNCHANGED roundVars

(* A thread that is in no round may call commit() itself.                  *)
DirectCall(c, batch, id) ==
  /\ roundPhase[c] = "idle"
  /\ Call(c, batch, id)
  /\ UNCHANGED roundVars

(* Packets are what the callers of submit() and commit() hand in.          *)
RoundNext(Packets) ==
  \E c \in Clients :
    \/ \E rows \in SUBSET Packets : StartRound(c, rows)
    \/ \E batch \in SUBSET Packets, id \in Nat \cup {NoId} : DirectCall(c, batch, id)
    \/ RoundStep(c, Nat)

RoundSpec == RoundInit /\ [][RoundNext(Proposal)]_allVars

(* A packet as the worker that computed it hands it in, or somebody later  *)
(* once more: its one contribution was made at the versions that it        *)
(* declares, and its id is not one that a round makes.                     *)
Minted ==
  {RebasedId(i, version) : i \in ProposalIds, version \in Nat}
  \cup {MergedId(ids) : ids \in SUBSET ProposalIds}

Fresh(q) ==
  /\ q.id \notin Minted
  /\ \E part \in q.payload :
       /\ q.payload = {part}
       /\ part.origin = q.id
       /\ part.base = q.base
       /\ q.node \in Depends(q) => part.nodeBase = q.deps[q.node]
       /\ part.discount = 0 /\ part.semantics = "current" /\ part.correctedFor = {}

FreshPackets == {q \in Proposal : Fresh(q)}

(* The rounds and commits of callers that hand in such packets only.       *)
FreshSpec == RoundInit /\ [][RoundNext(FreshPackets)]_allVars

-----------------------------------------------------------------------------
(* properties                                                              *)

(* Type correctness of a round: what it handles are well-typed proposals,  *)
(* under minted ids too, and a row and the rows left are among its inputs. *)
RoundTypeOK ==
  /\ roundPhase \in [Clients -> RoundPhases]
  /\ \A c \in Clients :
       /\ round[c].nodes \in [Nodes -> Nat] /\ round[c].target \in Vector
       /\ round[c].modelLag \in Int /\ round[c].nodeLag \in Int
       /\ round[c].row = {} \/ \E q \in round[c].inputs : round[c].row = {q}
       /\ round[c].todo \subseteq round[c].inputs
       /\ round[c].admitted \cup round[c].canonical \subseteq Proposal
       /\ round[c].rejected \subseteq ProposalIds
       /\ round[c].merged \subseteq [id : ProposalIds, sources : SUBSET ProposalIds]
  /\ \A j \in DOMAIN rounds : rounds[j].commit \in 0..Len(receipts)

ModelLag(i, part) == receipts[i].before.model - part.base
NodeLag(i, q, part) == receipts[i].before.nodes[q.node] - part.nodeBase

(* A stale contribution is committed at exactly the lag it was discounted  *)
(* for, and a corrected one at the very vector its correction was computed *)
(* for, although the versions were read one by one without the lock.       *)
AppliedAtMeasuredLag ==
  \A i \in Accepted : \A q \in receipts[i].batch : \A part \in q.payload :
    /\ part.semantics # "exact_rebase" => part.discount = ModelLag(i, part) + NodeLag(i, q, part)
    /\ part.correctedFor \subseteq {receipts[i].before}

(* What was committed although it was stale is on a node that allows it,   *)
(* within the node's lag limits as of the commit, and corrected if the     *)
(* node's consistency asks for that.                                       *)
StaleWithinPolicy ==
  \A i \in Accepted : \A q \in receipts[i].batch : \A part \in q.payload :
    ModelLag(i, part) > 0 \/ NodeLag(i, q, part) > 0 =>
      /\ Consistency[q.node] # "strict"
      /\ ModelLag(i, part) <= MaxModelLag[q.node]
      /\ NodeLag(i, q, part) <= MaxNodeLag[q.node]
      /\ Consistency[q.node] = "corrected" => part.correctedFor # {}

(* On a node with strict consistency no data enters the same model version *)
(* twice: not through two proposals of a round, not through a proposal     *)
(* that is submitted again, and not through a round and a direct commit.   *)
StrictDataOnce ==
  \A i, j \in Accepted : \A p \in receipts[i].batch, q \in receipts[j].batch :
    \A a \in p.payload, b \in q.payload :
      /\ p.node = q.node /\ Consistency[p.node] = "strict"
      /\ a.data = b.data /\ a.base = b.base
      => i = j /\ p = q /\ a = b

(* A recorded round accounts for every input exactly once: it is rejected, *)
(* or it is in one of the committed packets; and the commit it names is    *)
(* the commit of those packets, whatever other threads committed.          *)
RoundsAccounted ==
  \A j \in DOMAIN rounds :
    LET r == rounds[j]
        Carriers(p) == {q \in r.canonical : \E part \in q.payload : part.origin = p.id}
    IN /\ \A p \in r.inputs : Cardinality(Carriers(p)) = IF p.id \in r.rejected THEN 0 ELSE 1
       /\ r.commit = Raised <=> r.canonical = {}
       /\ r.commit # Raised => receipts[r.commit].batch = r.canonical

(* submit() returns or raises, if the callbacks return.                    *)
RoundReturns == \A c \in Clients : roundPhase[c] # "idle" ~> roundPhase[c] = "idle"

(* A merge is credited only to proposals the round received, and a         *)
(* rejection names one of them.                                            *)
CreditsNameInputs ==
  \A c \in Clients : roundPhase[c] \in {"commit", "committing"} =>
    /\ \A m \in round[c].merged : m.sources \subseteq Ids(round[c].inputs)
    /\ round[c].rejected \subseteq Ids(round[c].inputs)

=============================================================================
