----------------------------- MODULE RoundProofs -----------------------------
(***************************************************************************)
(* Rounds are ways to call commit(): whatever submit() assesses, corrects, *)
(* rebases and merges, the coordinator below sees batches of well-typed    *)
(* proposals, and everything proved about it holds of systems that run     *)
(* rounds and direct commits next to each other.  What has to be shown is  *)
(* that the packets a round makes are packets.                             *)
(***************************************************************************)
EXTENDS HierarchicalRounds, TransactionProofs

USE CoordinatorAssumption, ProposalAssumption, RoundAssumption

(* The ids that rounds mint are ids, and payloads are sets of              *)
(* contributions: a rebase changes them one by one, a merge unites them.   *)
MintedIds ==
  /\ \A i \in ProposalIds, v \in Nat : RebasedId(i, v) \in ProposalIds
  /\ \A ids \in SUBSET ProposalIds : IsFiniteSet(ids) => MergedId(ids) \in ProposalIds

PayloadsAreSets == \E Origins, Data : Payloads = SUBSET Contribution(Origins, Data)

-----------------------------------------------------------------------------
(* The locals of submit()                                                  *)

Assessing == {"model", "node", "decide", "ask", "rebase"}

Corrections == [for : Vector, exact : BOOLEAN]
Merges == [id : ProposalIds, sources : SUBSET ProposalIds]
Locals ==
  [inputs : SUBSET Proposal, todo : SUBSET Proposal, row : SUBSET Proposal,
   nodes : [Nodes -> Nat], modelLag : Int, nodeLag : Int, target : Vector,
   correction : SUBSET Corrections, admitted : SUBSET Proposal, rejected : SUBSET ProposalIds,
   canonical : SUBSET Proposal, merged : SUBSET Merges]
Outcomes ==
  [inputs : SUBSET Proposal, canonical : SUBSET Proposal, merged : SUBSET Merges,
   rejected : SUBSET ProposalIds, commit : Nat]

(* r fits a round that is at p.                                            *)
Fits(p, r) ==
  /\ p \in RoundPhases
  /\ r \in Locals
  /\ IsFiniteSet(r.admitted)
  /\ r.todo \subseteq r.inputs
  /\ IF p \in Assessing THEN \E q \in r.inputs : r.row = {q} ELSE r.row = {}
  /\ p = "node" => \A q \in r.row : q.node \in Depends(q)
  /\ p = "rebase" => r.modelLag \in Nat /\ r.nodeLag \in Nat

RoundInv ==
  /\ TypeOK
  /\ roundPhase \in [Clients -> RoundPhases]
  /\ round \in [Clients -> Locals]
  /\ \A c \in Clients : Fits(roundPhase[c], round[c])
  /\ \A c \in Clients : returned[c] \in 0..Len(receipts)
  /\ rounds \in Seq(Outcomes)
  /\ \A j \in DOMAIN rounds : rounds[j].commit \in 0..Len(receipts)

LEMMA NoRoundFits == Fits("idle", NoRound)
<1>1. InitialVersions \in Vector /\ InitialVersions.nodes \in [Nodes -> Nat]
  BY DEF Vector
<1>2. NoRound \in Locals
  BY <1>1 DEF NoRound, Locals
<1>3. IsFiniteSet(NoRound.admitted)
  BY FS_EmptySet DEF NoRound
<1> QED
  BY <1>2, <1>3 DEF Fits, NoRound, RoundPhases, Assessing

(* The row under assessment is one of the inputs.                          *)
LEMMA RowIsInput ==
  ASSUME RoundInv, NEW c \in Clients, roundPhase[c] \in Assessing
  PROVE  Row(c) \in round[c].inputs /\ Row(c) \in Proposal /\ round[c].row = {Row(c)}
<1>1. Fits(roundPhase[c], round[c])
  BY DEF RoundInv
<1>2. PICK q \in round[c].inputs : round[c].row = {q}
  BY <1>1 DEF Fits
<1>3. Row(c) = q
  BY <1>2 DEF Row
<1> QED
  BY <1>1, <1>2, <1>3 DEF Fits, Locals

(* Only the locals of c move.                                              *)
LEMMA LocalStep ==
  ASSUME RoundInv, NEW c \in Clients, NEW p, NEW r, Fits(p, r),
         Goto(c, p), round' = [round EXCEPT ![c] = r], UNCHANGED <<vars, rounds>>
  PROVE  RoundInv'
<1>1. p \in RoundPhases /\ r \in Locals
  BY DEF Fits
<1>2. roundPhase' = [roundPhase EXCEPT ![c] = p]
  BY DEF Goto
<1>3. roundPhase' \in [Clients -> RoundPhases] /\ round' \in [Clients -> Locals]
  BY <1>1, <1>2 DEF RoundInv
<1>4. \A d \in Clients : Fits(roundPhase'[d], round'[d])
  BY <1>2 DEF RoundInv
<1>5. TypeOK'
  BY TypeStep DEF RoundInv
<1>6. UNCHANGED <<returned, receipts, rounds>>
  BY DEF vars, ledgerVars
<1> QED
  BY <1>3, <1>4, <1>5, <1>6 DEF RoundInv

LEMMA EndStep ==
  ASSUME RoundInv, NEW c \in Clients, EndRound(c), UNCHANGED <<vars, rounds>>
  PROVE  RoundInv'
BY NoRoundFits, LocalStep DEF EndRound

-----------------------------------------------------------------------------
(* The loop over the proposals                                             *)

LEMMA RejectStep ==
  ASSUME RoundInv, NEW c \in Clients, roundPhase[c] \in Assessing, Reject(c),
         UNCHANGED <<vars, rounds>>
  PROVE  RoundInv'
<1>f. Fits(roundPhase[c], round[c])
  BY DEF RoundInv
<1>1. Row(c).id \in ProposalIds
  BY RowIsInput DEF Proposal
<1>r. PICK r : r = [round[c] EXCEPT !.row = {}, !.correction = {},
                                    !.rejected = round[c].rejected \cup {Row(c).id}]
  OBVIOUS
<1>2. round' = [round EXCEPT ![c] = r] /\ Goto(c, "rows")
  BY <1>r DEF Reject
<1>3. round[c].rejected \cup {Row(c).id} \in SUBSET ProposalIds
  BY <1>f, <1>1 DEF Fits, Locals
<1>4. r \in Locals
  BY <1>f, <1>r, <1>3 DEF Fits, Locals
<1>5. r.row = {} /\ r.todo = round[c].todo /\ r.inputs = round[c].inputs
      /\ r.admitted = round[c].admitted
  BY <1>f, <1>r DEF Fits, Locals
<1>6. Fits("rows", r)
  BY <1>f, <1>4, <1>5 DEF Fits, RoundPhases, Assessing
<1> QED
  BY <1>2, <1>6, LocalStep

LEMMA AdmitStep ==
  ASSUME RoundInv, NEW c \in Clients, NEW q \in Proposal, AdmitRow(c, q),
         UNCHANGED <<vars, rounds>>
  PROVE  RoundInv'
<1>f. Fits(roundPhase[c], round[c])
  BY DEF RoundInv
<1>a. PICK a : a = round[c].admitted \cup {q}
  OBVIOUS
<1>r. PICK r : r = [round[c] EXCEPT !.row = {}, !.correction = {}, !.admitted = a]
  OBVIOUS
<1>1. round' = [round EXCEPT ![c] = r] /\ Goto(c, "rows")
  BY <1>a, <1>r DEF AdmitRow
<1>2. a \in SUBSET Proposal /\ IsFiniteSet(a)
  BY <1>f, <1>a, FS_AddElement DEF Fits, Locals
<1>3. r \in Locals
  BY <1>f, <1>r, <1>2 DEF Fits, Locals
<1>4. r.row = {} /\ r.todo = round[c].todo /\ r.inputs = round[c].inputs /\ r.admitted = a
  BY <1>f, <1>r DEF Fits, Locals
<1>5. Fits("rows", r)
  BY <1>f, <1>2, <1>3, <1>4 DEF Fits, RoundPhases, Assessing
<1> QED
  BY <1>1, <1>5, LocalStep

LEMMA BeginStep ==
  ASSUME RoundInv, NEW c \in Clients, NEW q \in round[c].inputs,
         NEW correction \in SUBSET Corrections, BeginAssessment(c, q, correction),
         UNCHANGED <<vars, rounds>>
  PROVE  RoundInv'
<1>f. Fits(roundPhase[c], round[c])
  BY DEF RoundInv
<1>r. PICK r : r = [round[c] EXCEPT !.todo = round[c].todo \ {q}, !.row = {q},
                                    !.nodes = nodeVersion, !.correction = correction]
  OBVIOUS
<1>1. round' = [round EXCEPT ![c] = r] /\ Goto(c, "model")
  BY <1>r DEF BeginAssessment
<1>2. nodeVersion \in [Nodes -> Nat] /\ q \in Proposal
  BY <1>f DEF RoundInv, TypeOK, Fits, Locals
<1>3. {q} \in SUBSET Proposal /\ round[c].todo \ {q} \in SUBSET Proposal
  BY <1>f, <1>2 DEF Fits, Locals
<1>4. r \in Locals
  BY <1>f, <1>r, <1>2, <1>3 DEF Fits, Locals
<1>5. r.row = {q} /\ r.todo = round[c].todo \ {q} /\ r.inputs = round[c].inputs
      /\ r.admitted = round[c].admitted
  BY <1>f, <1>r DEF Fits, Locals
<1>6. Fits("model", r)
  BY <1>f, <1>4, <1>5 DEF Fits, RoundPhases, Assessing
<1> QED
  BY <1>1, <1>6, LocalStep

LEMMA StartStep ==
  ASSUME RoundInv, NEW c \in Clients, NEW rows \in SUBSET Proposal, StartRound(c, rows)
  PROVE  RoundInv'
<1>f. Fits("idle", round[c])
  BY DEF RoundInv, StartRound
<1>r. PICK r : r = [round[c] EXCEPT !.inputs = rows, !.todo = rows]
  OBVIOUS
<1>1. round' = [round EXCEPT ![c] = r] /\ Goto(c, "rows") /\ UNCHANGED <<vars, rounds>>
  BY <1>r DEF StartRound, RoundInv
<1>2. r \in Locals /\ r.inputs = rows /\ r.todo = rows /\ r.row = round[c].row
      /\ r.admitted = round[c].admitted
  BY <1>f, <1>r DEF Fits, Locals
<1>3. Fits("rows", r)
  BY <1>f, <1>2 DEF Fits, RoundPhases, Assessing
<1> QED
  BY <1>1, <1>3, LocalStep

LEMMA ReadModelStep ==
  ASSUME RoundInv, NEW c \in Clients, ReadModelVersion(c)
  PROVE  RoundInv'
<1>1. roundPhase[c] = "model" /\ Row(c).node \in Depends(Row(c))
  BY DEF ReadModelVersion
<1>f. Fits("model", round[c])
  BY <1>1 DEF RoundInv
<1>2. Row(c) \in round[c].inputs /\ Row(c) \in Proposal /\ round[c].row = {Row(c)}
  BY <1>1, RowIsInput DEF Assessing
<1>r. PICK r : r = [round[c] EXCEPT !.modelLag = modelVersion - Row(c).base]
  OBVIOUS
<1>3. round' = [round EXCEPT ![c] = r] /\ Goto(c, "node") /\ UNCHANGED <<vars, rounds>>
  BY <1>r DEF ReadModelVersion
<1>4. modelVersion - Row(c).base \in Int
  <2>1. modelVersion \in Nat /\ Row(c).base \in Nat
    BY <1>2 DEF RoundInv, TypeOK, Proposal
  <2> QED
    BY <2>1
<1>5. r \in Locals /\ r.inputs = round[c].inputs /\ r.todo = round[c].todo
      /\ r.row = round[c].row /\ r.admitted = round[c].admitted
  BY <1>f, <1>r, <1>4 DEF Fits, Locals
<1>6. Fits("node", r)
  BY <1>f, <1>1, <1>2, <1>5 DEF Fits, RoundPhases, Assessing
<1> QED
  BY <1>3, <1>6, LocalStep

LEMMA ReadNodeStep ==
  ASSUME RoundInv, NEW c \in Clients, ReadNodeVersion(c)
  PROVE  RoundInv'
<1>1. roundPhase[c] = "node"
  BY DEF ReadNodeVersion
<1>f. Fits("node", round[c])
  BY <1>1 DEF RoundInv
<1>2. Row(c) \in round[c].inputs /\ Row(c) \in Proposal /\ round[c].row = {Row(c)}
  BY <1>1, RowIsInput DEF Assessing
<1>lag. PICK lag : lag = nodeVersion[Row(c).node] - Row(c).deps[Row(c).node]
  OBVIOUS
<1>r. PICK r : r = [round[c] EXCEPT !.nodeLag = lag]
  OBVIOUS
<1>3. round' = [round EXCEPT ![c] = r] /\ Goto(c, "decide") /\ UNCHANGED <<vars, rounds>>
  BY <1>r, <1>lag DEF ReadNodeVersion
<1>4. lag \in Int
  <2>1. Row(c).node \in Nodes /\ Row(c).deps \in DependencyVersions
    BY <1>2 DEF Proposal
  <2>2. Row(c).deps[Row(c).node] # Undeclared
    BY <1>f, <1>2 DEF Fits, Depends
  <2>3. Row(c).deps[Row(c).node] \in Nat
    BY <2>1, <2>2 DEF DependencyVersions
  <2>4. nodeVersion[Row(c).node] \in Nat
    BY <2>1 DEF RoundInv, TypeOK
  <2> QED
    BY <1>lag, <2>3, <2>4
<1>5. r \in Locals /\ r.inputs = round[c].inputs /\ r.todo = round[c].todo
      /\ r.row = round[c].row /\ r.admitted = round[c].admitted
  BY <1>f, <1>r, <1>4 DEF Fits, Locals
<1>6. Fits("decide", r)
  BY <1>f, <1>2, <1>5 DEF Fits, RoundPhases, Assessing
<1> QED
  BY <1>3, <1>6, LocalStep

(* The receipt's target is set.                                            *)
LEMMA TargetStep ==
  ASSUME RoundInv, NEW c \in Clients, AskForCorrection(c) \/ AcceptStale(c)
  PROVE  RoundInv'
<1>p. PICK p : p = IF AskForCorrection(c) THEN "ask" ELSE "rebase"
  OBVIOUS
<1>1. roundPhase[c] = "decide" /\ ~Current(c) /\ ~Refused(c)
  BY DEF AskForCorrection, AcceptStale
<1>f. Fits("decide", round[c])
  BY <1>1 DEF RoundInv
<1>r. PICK r : r = [round[c] EXCEPT !.target = Target(c)]
  OBVIOUS
<1>2. round' = [round EXCEPT ![c] = r] /\ UNCHANGED <<vars, rounds>>
      /\ Goto(c, IF AskForCorrection(c) THEN "ask" ELSE "rebase")
  BY <1>r DEF AskForCorrection, AcceptStale
<1>3. Target(c) \in Vector
  BY <1>f DEF Target, Vector, Fits, Locals, RoundInv, TypeOK
<1>4. r \in Locals /\ r.inputs = round[c].inputs /\ r.todo = round[c].todo
      /\ r.row = round[c].row /\ r.admitted = round[c].admitted
      /\ r.modelLag = round[c].modelLag /\ r.nodeLag = round[c].nodeLag
  BY <1>f, <1>r, <1>3 DEF Fits, Locals
<1>5. round[c].modelLag \in Nat /\ round[c].nodeLag \in Nat
  <2>1. round[c].modelLag \in Int /\ round[c].nodeLag \in Int
    BY <1>f DEF Fits, Locals
  <2>2. ~(round[c].modelLag < 0) /\ ~(round[c].nodeLag < 0)
    BY <1>1 DEF Refused, FutureVersion
  <2> QED
    BY <2>1, <2>2
<1>6. Fits(p, r)
  BY <1>f, <1>p, <1>4, <1>5 DEF Fits, RoundPhases, Assessing
<1> QED
  BY <1>p, <1>2, <1>6, LocalStep

(* Its contributions are marked one by one.                                *)
LEMMA RebasedPayload ==
  ASSUME RoundInv, NEW c \in Clients, roundPhase[c] = "rebase", PayloadsAreSets
  PROVE  {Transformed(part, c) : part \in Row(c).payload} \in Payloads
<1>f. Fits("rebase", round[c])
  BY DEF RoundInv
<1>r. Row(c) \in Proposal
  BY RowIsInput DEF Assessing
<1>o. PICK Origins, Data : Payloads = SUBSET Contribution(Origins, Data)
  BY DEF PayloadsAreSets
<1>1. Row(c).payload \in SUBSET Contribution(Origins, Data)
  BY <1>r, <1>o DEF Proposal
<1>2. round[c].correction \in SUBSET Corrections
  BY <1>f DEF Fits, Locals
<1>3. Discount(c) \in Nat
  BY <1>f DEF Discount, Fits
<1>4. ASSUME NEW part \in Contribution(Origins, Data)
      PROVE  Transformed(part, c) \in Contribution(Origins, Data)
  <2>x. PICK exact \in BOOLEAN : exact <=> \E k \in round[c].correction : k.exact
    OBVIOUS
  <2>d. PICK discount : discount = IF exact THEN 0 ELSE Discount(c)
    OBVIOUS
  <2>s. PICK semantics : semantics =
          CASE exact -> "exact_rebase"
            [] round[c].correction # {} /\ ~exact -> "corrected_statistical_approximation"
            [] round[c].correction = {} -> "bounded_stale_approximation"
    OBVIOUS
  <2>v. PICK for : for = {k.for : k \in round[c].correction}
    OBVIOUS
  <2>1. Transformed(part, c) = [part EXCEPT !.discount = discount, !.semantics = semantics,
                                            !.correctedFor = for]
    BY <2>x, <2>d, <2>s, <2>v DEF Transformed
  <2>2. discount \in Nat
    BY <1>3, <2>d
  <2>3. semantics \in Semantics
    BY <2>x, <2>s DEF Semantics
  <2>4. for \in SUBSET Vector
    BY <1>2, <2>v DEF Corrections
  <2> QED
    BY <2>1, <2>2, <2>3, <2>4 DEF Contribution
<1> QED
  BY <1>o, <1>1, <1>4

(* A rebased packet is a packet.                                           *)
LEMMA RebaseStep ==
  ASSUME RoundInv, NEW c \in Clients, Rebase(c), MintedIds, PayloadsAreSets
  PROVE  RoundInv'
<1>1. roundPhase[c] = "rebase"
  BY DEF Rebase
<1>f. Fits("rebase", round[c])
  BY <1>1 DEF RoundInv
<1>2. Row(c) \in Proposal
  BY <1>1, RowIsInput DEF Assessing
<1>i. PICK id : id = RebasedId(Row(c).id, modelVersion)
  OBVIOUS
<1>y. PICK payload : payload = {Transformed(part, c) : part \in Row(c).payload}
  OBVIOUS
<1>q. PICK q : q = [Row(c) EXCEPT !.id = id, !.base = round[c].target.model,
                                  !.deps = round[c].target.nodes, !.payload = payload]
  OBVIOUS
<1>3. AdmitRow(c, q) /\ UNCHANGED <<vars, rounds>>
  BY <1>i, <1>y, <1>q DEF Rebase
<1>4. id \in ProposalIds
  BY <1>i, <1>2 DEF MintedIds, Proposal, RoundInv, TypeOK
<1>5. round[c].target.model \in Nat /\ round[c].target.nodes \in DependencyVersions
  BY <1>f DEF Fits, Locals, Vector, DependencyVersions
<1>6. payload \in Payloads
  BY <1>1, <1>y, RebasedPayload
<1>7. q \in Proposal
  BY <1>q, <1>2, <1>4, <1>5, <1>6 DEF Proposal
<1> QED
  BY <1>3, <1>7, AdmitStep

-----------------------------------------------------------------------------
(* Grouping and merging                                                    *)

(* The rows of a node with more than one are merged into one packet.       *)
LEMMA MergedIsProposal ==
  ASSUME NEW rows \in SUBSET Proposal, IsFiniteSet(rows), rows # {}, MintedIds, PayloadsAreSets
  PROVE  Merged(rows) \in Proposal
<1>a. PICK anchor \in rows : anchor = CHOOSE q \in rows : TRUE
  OBVIOUS
<1>i. PICK id : id = MergedId(Ids(rows))
  OBVIOUS
<1>w. PICK formed \in BOOLEAN : formed <=> \A q \in rows : q.wellFormed
  OBVIOUS
<1>y. PICK payload : payload = UNION {q.payload : q \in rows}
  OBVIOUS
<1>1. Merged(rows) = [anchor EXCEPT !.id = id, !.wellFormed = formed, !.payload = payload]
  BY <1>a, <1>i, <1>w, <1>y DEF Merged
<1>2. id \in ProposalIds
  <2>1. Ids(rows) \in SUBSET ProposalIds
    BY DEF Ids, Proposal
  <2>2. IsFiniteSet(Ids(rows))
    <3>f. PICK f : f = [q \in rows |-> q.id]
      OBVIOUS
    <3>1. f \in Surjection(rows, Ids(rows))
      BY <3>f DEF Surjection, Ids
    <3> QED
      BY <3>1, FS_Surjection
  <2> QED
    BY <1>i, <2>1, <2>2 DEF MintedIds
<1>3. payload \in Payloads
  <2>o. PICK Origins, Data : Payloads = SUBSET Contribution(Origins, Data)
    BY DEF PayloadsAreSets
  <2>1. \A q \in rows : q.payload \in SUBSET Contribution(Origins, Data)
    BY <2>o DEF Proposal
  <2> QED
    BY <1>y, <2>o, <2>1
<1>4. anchor \in Proposal
  OBVIOUS
<1> QED
  BY <1>1, <1>2, <1>3, <1>4 DEF Proposal

LEMMA GroupStep ==
  ASSUME RoundInv, NEW c \in Clients, NEW failing \in SUBSET Groups(c), Group(c, failing),
         MintedIds, PayloadsAreSets
  PROVE  RoundInv'
<1>m. PICK merging : merging = Groups(c) \ failing
  OBVIOUS
<1>1. roundPhase[c] = "rows" /\ Goto(c, "commit") /\ UNCHANGED <<vars, rounds>>
  BY DEF Group
<1>f. Fits("rows", round[c])
  BY <1>1 DEF RoundInv
<1>2. round[c].admitted \in SUBSET Proposal /\ IsFiniteSet(round[c].admitted)
  BY <1>f DEF Fits, Locals
<1>3. \A n : /\ RowsOf(c, n) \in SUBSET Proposal /\ IsFiniteSet(RowsOf(c, n))
             /\ Ids(RowsOf(c, n)) \in SUBSET ProposalIds
  <2> TAKE n
  <2>1. RowsOf(c, n) \subseteq round[c].admitted
    BY DEF RowsOf
  <2>2. IsFiniteSet(RowsOf(c, n))
    BY <1>2, <2>1, FS_Subset
  <2>3. Ids(RowsOf(c, n)) \in SUBSET ProposalIds
    BY <1>2, <2>1 DEF Ids, Proposal
  <2> QED
    BY <1>2, <2>1, <2>2, <2>3
<1>4. ASSUME NEW n \in merging PROVE Merged(RowsOf(c, n)) \in Proposal
                                     /\ Merged(RowsOf(c, n)).id = MergedId(Ids(RowsOf(c, n)))
  <2>1. RowsOf(c, n) # {}
    <3>1. Cardinality(RowsOf(c, n)) > 1
      BY <1>m DEF Groups
    <3>2. Cardinality({}) = 0
      BY FS_EmptySet
    <3>3. ~(0 > 1)
      OBVIOUS
    <3> HIDE DEF RowsOf
    <3> QED
      BY <3>1, <3>2, <3>3
  <2>2. Merged(RowsOf(c, n)) \in Proposal
    BY <1>3, <2>1, MergedIsProposal
  <2>3. (CHOOSE q \in RowsOf(c, n) : TRUE) \in Proposal
    BY <1>3, <2>1
  <2>4. Merged(RowsOf(c, n)).id = MergedId(Ids(RowsOf(c, n)))
    BY <2>3 DEF Merged, Proposal
  <2> QED
    BY <2>2, <2>4
<1>can. PICK canonical : canonical = {q \in round[c].admitted : q.node \notin Groups(c)}
                                     \cup {Merged(RowsOf(c, n)) : n \in merging}
  OBVIOUS
<1>mer. PICK merged : merged = {[id |-> MergedId(Ids(RowsOf(c, n))),
                                 sources |-> Ids(RowsOf(c, n))] : n \in merging}
  OBVIOUS
<1>rej. PICK rejected : rejected = round[c].rejected \cup Ids(LostRows(c, failing))
  OBVIOUS
<1>r. PICK r : r = [round[c] EXCEPT !.canonical = canonical, !.merged = merged,
                                    !.rejected = rejected]
  OBVIOUS
<1>5. round' = [round EXCEPT ![c] = r]
  BY <1>m, <1>can, <1>mer, <1>rej, <1>r DEF Group, RoundInv
<1>6. canonical \in SUBSET Proposal
  BY <1>2, <1>4, <1>can
<1>7. merged \in SUBSET Merges
  <2>1. \A n \in merging : MergedId(Ids(RowsOf(c, n))) \in ProposalIds
    BY <1>4 DEF Proposal
  <2> QED
    BY <1>3, <1>mer, <2>1 DEF Merges
<1>8. rejected \in SUBSET ProposalIds
  <2>1. LostRows(c, failing) \subseteq Proposal
    BY <1>3 DEF LostRows
  <2>2. Ids(LostRows(c, failing)) \subseteq ProposalIds
    BY <2>1 DEF Ids, Proposal
  <2> QED
    BY <1>f, <1>rej, <2>2 DEF Fits, Locals
<1>9. r \in Locals /\ r.inputs = round[c].inputs /\ r.todo = round[c].todo
      /\ r.row = round[c].row /\ r.admitted = round[c].admitted
  BY <1>f, <1>r, <1>6, <1>7, <1>8 DEF Fits, Locals
<1>10. Fits("commit", r)
  BY <1>f, <1>9 DEF Fits, RoundPhases, Assessing
<1> QED
  BY <1>1, <1>5, <1>10, LocalStep

-----------------------------------------------------------------------------
(* Commits and receipts                                                    *)

(* A receipt that a call returned stays in the ledger.                     *)
LEMMA ReturnsAReceipt ==
  ASSUME TypeOK, \A c \in Clients : returned[c] \in 0..Len(receipts), [Next]_vars
  PROVE  /\ Len(receipts') >= Len(receipts)
         /\ \A c \in Clients : returned'[c] \in 0..Len(receipts')
<1>0. /\ Len(receipts) \in Nat /\ returned \in [Clients -> Nat] /\ receipts \in Seq(Receipt)
      /\ Raised \in 0..Len(receipts)
  BY DEF TypeOK, Raised
<1>1. CASE UNCHANGED <<returned, receipts>>
  BY <1>0, <1>1
<1>2. ASSUME NEW c \in Clients, NEW id, NEW status, NEW before, NEW after,
             Finish(c, id, status, before, after)
      PROVE  /\ Len(receipts') >= Len(receipts)
             /\ \A d \in Clients : returned'[d] \in 0..Len(receipts')
  <2>1. Len(receipts') = Len(receipts) + 1
        /\ returned' = [returned EXCEPT ![c] = Len(receipts) + 1]
    BY <1>0, <1>2 DEF Finish
  <2> QED
    BY <1>0, <2>1
<1>3. ASSUME NEW c \in Clients, returned' = [returned EXCEPT ![c] = Raised], UNCHANGED receipts
      PROVE  /\ Len(receipts') >= Len(receipts)
             /\ \A d \in Clients : returned'[d] \in 0..Len(receipts')
  BY <1>0, <1>3
<1>4. CASE UNCHANGED vars
  BY <1>1, <1>4 DEF vars, ledgerVars
<1>5. CASE Next
  <2>1. PICK c \in Clients :
          \/ \E batch \in SUBSET Proposal, id \in Nat \cup {NoId} : Call(c, batch, id)
          \/ Step(c, Nat)
    BY <1>5 DEF Next
  <2>2. CASE \E batch \in SUBSET Proposal, id \in Nat \cup {NoId} : Call(c, batch, id)
    BY <1>1, <2>2 DEF Call, ledgerVars
  <2>3. CASE RefuseCommitId(c)
    BY <1>3, <2>3 DEF RefuseCommitId, ledgerVars
  <2>4. CASE \E k \in Nat : Enter(c, k)
    BY <1>1, <1>2, <2>4 DEF Enter, RejectAtPreflight, Admit, ledgerVars
  <2>5. CASE Work(c)
    BY <1>1, <2>5 DEF Work, TakeSnapshot, Apply, ApplyRaises, CanaryAccepts, CanaryRejects,
                      CanaryRaises, CanaryMalformed, ledgerVars
  <2>6. CASE Settle(c)
    BY <1>1, <1>2, <1>3, <2>6
    DEF Settle, SnapshotRaises, Rollback, RollbackThenRaise, PublishModel, PublishNodes, ledgerVars
  <2> QED
    BY <2>1, <2>2, <2>3, <2>4, <2>5, <2>6 DEF Step
<1> QED
  BY <1>4, <1>5

LEMMA CoordinatorStep ==
  ASSUME RoundInv, [Next]_vars, UNCHANGED <<round, rounds>>,
         roundPhase' \in [Clients -> RoundPhases],
         \A c \in Clients : Fits(roundPhase'[c], round[c])
  PROVE  RoundInv'
<1>1. TypeOK'
  BY TypeStep DEF RoundInv
<1>2. /\ Len(receipts') >= Len(receipts)
      /\ \A c \in Clients : returned'[c] \in 0..Len(receipts')
  BY ReturnsAReceipt DEF RoundInv
<1>3. \A j \in DOMAIN rounds : rounds[j].commit \in 0..Len(receipts')
  <2>1. Len(receipts) \in Nat /\ Len(receipts') \in Nat
    BY <1>1 DEF RoundInv, TypeOK
  <2> QED
    BY <1>2, <2>1 DEF RoundInv
<1> QED
  BY <1>1, <1>2, <1>3 DEF RoundInv

LEMMA CommitRoundStep ==
  ASSUME RoundInv, NEW c \in Clients, CommitRound(c)
  PROVE  RoundInv' /\ [Next]_vars
<1>1. roundPhase[c] = "commit" /\ Call(c, round[c].canonical, NoId) /\ Goto(c, "committing")
      /\ UNCHANGED <<round, rounds>>
  BY DEF CommitRound
<1>f. Fits("commit", round[c])
  BY <1>1 DEF RoundInv
<1>2. round[c].canonical \in SUBSET Proposal
  BY <1>f DEF Fits, Locals
<1>3. Next
  BY <1>1, <1>2 DEF Next
<1>4. Fits("committing", round[c])
  BY <1>f DEF Fits, RoundPhases, Assessing
<1>5. roundPhase' \in [Clients -> RoundPhases]
      /\ \A d \in Clients : Fits(roundPhase'[d], round[d])
  BY <1>1, <1>4 DEF Goto, RoundInv, RoundPhases
<1> QED
  BY <1>1, <1>3, <1>5, CoordinatorStep

LEMMA RecordStep ==
  ASSUME RoundInv, NEW c \in Clients, NEW commit \in 0..Len(receipts), RecordRound(c, commit)
  PROVE  RoundInv'
<1>f. Fits(roundPhase[c], round[c])
  BY DEF RoundInv
<1>0. Len(receipts) \in Nat /\ rounds \in Seq(Outcomes)
  BY DEF RoundInv, TypeOK
<1>o. PICK o : o = Outcome(c, commit)
  OBVIOUS
<1>1. o \in Outcomes /\ o.commit = commit
  BY <1>f, <1>o, <1>0 DEF Outcome, Outcomes, Fits, Locals
<1>2. rounds' = rounds \/ rounds' = Append(rounds, o)
  BY <1>o DEF RecordRound
<1>3. rounds' \in Seq(Outcomes) /\ \A j \in DOMAIN rounds' : rounds'[j].commit \in 0..Len(receipts)
  <2>1. CASE rounds' = rounds
    BY <2>1 DEF RoundInv
  <2>2. CASE rounds' = Append(rounds, o)
    <3>1. rounds' \in Seq(Outcomes) /\ Len(rounds') = Len(rounds) + 1
      BY <1>0, <1>1, <2>2
    <3>2. ASSUME NEW j \in DOMAIN rounds'
          PROVE  (rounds'[j] = o) \/ (j \in DOMAIN rounds /\ rounds'[j] = rounds[j])
      BY <1>0, <1>1, <2>2, <3>1
    <3> QED
      BY <1>1, <3>1, <3>2 DEF RoundInv
  <2> QED
    BY <1>2, <2>1, <2>2
<1>4. UNCHANGED vars /\ roundPhase' = [roundPhase EXCEPT ![c] = "idle"]
      /\ round' = [round EXCEPT ![c] = NoRound]
  BY DEF RecordRound, EndRound, Goto
<1>5. NoRound \in Locals /\ "idle" \in RoundPhases
  BY NoRoundFits DEF Fits
<1>6. /\ roundPhase' \in [Clients -> RoundPhases] /\ round' \in [Clients -> Locals]
      /\ \A d \in Clients : Fits(roundPhase'[d], round'[d])
  BY <1>4, <1>5, NoRoundFits DEF RoundInv
<1>7. TypeOK' /\ UNCHANGED <<returned, receipts>>
  BY <1>4, TypeStep DEF RoundInv, vars, ledgerVars
<1> QED
  BY <1>3, <1>6, <1>7 DEF RoundInv

-----------------------------------------------------------------------------
(* Every step of a round is a step of the coordinator, or none.            *)
LEMMA RoundNextStep ==
  ASSUME RoundInv, [RoundNext(Proposal)]_allVars, MintedIds, PayloadsAreSets
  PROVE  RoundInv' /\ [Next]_vars
<1>1. CASE UNCHANGED allVars
  <2>1. UNCHANGED vars /\ UNCHANGED <<roundPhase, round, rounds>>
    BY <1>1 DEF allVars, roundVars
  <2>2. /\ roundPhase' \in [Clients -> RoundPhases]
        /\ \A c \in Clients : Fits(roundPhase'[c], round[c])
    BY <2>1 DEF RoundInv
  <2> QED
    BY <2>1, <2>2, CoordinatorStep
<1>2. CASE RoundNext(Proposal)
  <2>1. PICK c \in Clients :
          \/ \E rows \in SUBSET Proposal : StartRound(c, rows)
          \/ \E batch \in SUBSET Proposal, id \in Nat \cup {NoId} : DirectCall(c, batch, id)
          \/ RoundStep(c, Nat)
    BY <1>2 DEF RoundNext
  <2>2. CASE \E rows \in SUBSET Proposal : StartRound(c, rows)
    BY <2>2, StartStep DEF StartRound
  <2>3. ASSUME Next, UNCHANGED roundVars PROVE RoundInv'
    <3>1. UNCHANGED <<roundPhase, round, rounds>>
      BY <2>3 DEF roundVars
    <3>2. roundPhase' \in [Clients -> RoundPhases]
          /\ \A d \in Clients : Fits(roundPhase'[d], round[d])
      BY <3>1 DEF RoundInv
    <3> QED
      BY <2>3, <3>1, <3>2, CoordinatorStep
  <2>4. CASE \E batch \in SUBSET Proposal, id \in Nat \cup {NoId} : DirectCall(c, batch, id)
    <3>1. Next /\ UNCHANGED roundVars
      BY <2>4 DEF DirectCall, Next
    <3> QED
      BY <2>3, <3>1
  <2>5. CASE Step(c, Nat) /\ UNCHANGED roundVars
    <3>1. Next
      BY <2>5 DEF Next
    <3> QED
      BY <2>3, <2>5, <3>1
  <2>6. CASE Assess(c)
    <3>1. UNCHANGED <<vars, rounds>>
      BY <2>6 DEF Assess, TakeRow, MissingNodeVersion, ReadModelVersion, ReadNodeVersion, RejectRow,
         AcceptCurrent, AskForCorrection, CorrectionFails, CorrectionArrives, AcceptStale, Rebase,
         RebaseFails
    <3>2. CASE \E q \in round[c].todo : TakeRow(c, q)
      <4>1. PICK q \in round[c].todo : BeginAssessment(c, q, {})
        BY <3>2 DEF TakeRow
      <4>2. q \in round[c].inputs
        BY DEF RoundInv, Fits
      <4> QED
        BY <3>1, <4>1, <4>2, BeginStep
    <3>3. CASE MissingNodeVersion(c) \/ RejectRow(c) \/ CorrectionFails(c) \/ RebaseFails(c)
      BY <3>1, <3>3, RejectStep
      DEF MissingNodeVersion, RejectRow, CorrectionFails, RebaseFails, Assessing
    <3>4. CASE ReadModelVersion(c)
      BY <3>1, <3>4, ReadModelStep
    <3>5. CASE ReadNodeVersion(c)
      BY <3>1, <3>5, ReadNodeStep
    <3>6. CASE AcceptCurrent(c)
      BY <3>1, <3>6, RowIsInput, AdmitStep DEF AcceptCurrent, Assessing
    <3>7. CASE AskForCorrection(c) \/ AcceptStale(c)
      BY <3>1, <3>7, TargetStep
    <3>8. CASE \E exact \in BOOLEAN : CorrectionArrives(c, exact)
      <4>1. PICK exact \in BOOLEAN : CorrectionArrives(c, exact)
        BY <3>8
      <4>2. Row(c) \in round[c].inputs
        BY <4>1, RowIsInput DEF CorrectionArrives, Assessing
      <4>3. [for |-> round[c].target, exact |-> exact] \in Corrections
        BY DEF RoundInv, Fits, Locals, Corrections
      <4> QED
        BY <3>1, <4>1, <4>2, <4>3, BeginStep DEF CorrectionArrives
    <3>9. CASE Rebase(c)
      BY <3>1, <3>9, RebaseStep
    <3> QED
      BY <2>6, <3>1, <3>2, <3>3, <3>4, <3>5, <3>6, <3>7, <3>8, <3>9 DEF Assess
  <2>7. CASE Conclude(c)
    <3>1. CASE \E failing \in SUBSET Groups(c) : Group(c, failing)
      BY <3>1, GroupStep DEF Group
    <3>2. CASE RebaseOverflows(c) \/ MergeOverflows(c) \/ MixedBases(c) \/ CommitRaised(c)
      BY <3>2, EndStep DEF RebaseOverflows, MergeOverflows, MixedBases, CommitRaised
    <3>3. CASE CommitRound(c)
      BY <3>3, CommitRoundStep
    <3>4. CASE NothingToCommit(c) \/ CommitReturned(c)
      <4>1. \E commit \in 0..Len(receipts) : RecordRound(c, commit)
        BY <3>4 DEF NothingToCommit, CommitReturned, RoundInv, TypeOK, Raised
      <4> QED
        BY <4>1, RecordStep DEF RecordRound
    <3> QED
      BY <2>7, <3>1, <3>2, <3>3, <3>4 DEF Conclude
  <2> QED
    BY <2>1, <2>2, <2>4, <2>5, <2>6, <2>7, <2>3 DEF RoundStep, DirectCall, Next
<1> QED
  BY <1>1, <1>2

LEMMA RoundStart == RoundInit => RoundInv /\ Init
<1> SUFFICES ASSUME RoundInit PROVE RoundInv /\ Init
  OBVIOUS
<1>1. Init /\ TypeOK
  BY TypeInit DEF RoundInit
<1>2. NoRound \in Locals /\ "idle" \in RoundPhases
  BY NoRoundFits DEF Fits
<1>3. \A c \in Clients : Fits(roundPhase[c], round[c])
  BY NoRoundFits DEF RoundInit
<1>4. Len(receipts) = 0 /\ \A c \in Clients : returned[c] = 0
  BY <1>1 DEF Init, Raised
<1>5. rounds \in Seq(Outcomes) /\ DOMAIN rounds = {}
  BY DEF RoundInit
<1> QED
  BY <1>1, <1>2, <1>3, <1>4, <1>5 DEF RoundInit, RoundInv

LEMMA RoundInvariant ==
  ASSUME MintedIds, PayloadsAreSets
  PROVE  RoundSpec => []RoundInv /\ Spec
<1>1. RoundInit => RoundInv /\ Init
  BY RoundStart
<1>2. RoundInv /\ [RoundNext(Proposal)]_allVars => RoundInv' /\ [Next]_vars
  BY RoundNextStep
<1> QED
  BY <1>1, <1>2, PTL DEF RoundSpec, Spec

(* Rounds do nothing to the coordinator that calls of commit() could not:  *)
(* submit() reads and writes no part of it but through such a call.        *)
THEOREM RoundsAreCommits ==
  ASSUME MintedIds, PayloadsAreSets
  PROVE  RoundSpec => Spec
BY RoundInvariant, PTL

(* Types: a rebase, a correction and a merge make well-typed packets, and  *)
(* a recorded round names a receipt of the coordinator.                    *)
THEOREM RoundTypes ==
  ASSUME MintedIds, PayloadsAreSets
  PROVE  RoundSpec => []RoundTypeOK
<1>1. RoundInv => RoundTypeOK
  <2> SUFFICES ASSUME RoundInv PROVE RoundTypeOK
    OBVIOUS
  <2>1. ASSUME NEW c \in Clients
        PROVE  /\ round[c].nodes \in [Nodes -> Nat] /\ round[c].target \in Vector
               /\ round[c].modelLag \in Int /\ round[c].nodeLag \in Int
               /\ round[c].row = {} \/ \E q \in round[c].inputs : round[c].row = {q}
               /\ round[c].todo \subseteq round[c].inputs
               /\ round[c].admitted \cup round[c].canonical \subseteq Proposal
               /\ round[c].rejected \subseteq ProposalIds
               /\ round[c].merged \subseteq [id : ProposalIds, sources : SUBSET ProposalIds]
    <3>1. Fits(roundPhase[c], round[c])
      BY DEF RoundInv
    <3> QED
      BY <3>1 DEF Fits, Locals, Merges
  <2> QED
    BY <2>1 DEF RoundTypeOK, RoundInv
<1> QED
  BY <1>1, RoundInvariant, PTL

(* With rounds and direct commits of any number of threads, an accepted    *)
(* packet was still computed from what the accepted ones before produced,  *)
(* rebased and merged packets included.                                    *)
THEOREM RoundsAreSerializable ==
  ASSUME MintedIds, PayloadsAreSets
  PROVE  RoundSpec => []Serializable
BY RoundsAreCommits, CommitsAreSerializable, PTL

(* And the model holds exactly the effects of the accepted packets.        *)
THEOREM RoundsLeaveNoTrace ==
  ASSUME MintedIds, PayloadsAreSets
  PROVE  RoundSpec => []LedgerMatchesState
BY RoundsAreCommits, ModelHoldsAcceptedEffects, PTL

-----------------------------------------------------------------------------
(* What a step of commit() by c does to what the rounds read of it         *)

OthersStay(c) ==
  \A d \in Clients \ {c} :
    phase'[d] = phase[d] /\ request'[d] = request[d] /\ returned'[d] = returned[d]

(* The commit goes on, the publication of the model version included.      *)
GoesOn(c) ==
  /\ phase[c] \in Critical \ {"publishNodes"} /\ phase'[c] \in Critical
  /\ UNCHANGED <<request, versionsBefore, receipts, returned, nodeVersion>>
  /\ phase'[c] # "publishNodes" => modelVersion' = modelVersion

IsAdmitted(c) ==
  /\ phase[c] = "waiting" /\ lock = NoClient /\ phase'[c] = "snapshot"
  /\ ~PreflightError(request[c].batch)
  /\ versionsBefore' = Versions
  /\ UNCHANGED <<request, receipts, returned, versionVars>>

(* It returns a receipt that it recorded, or raises.                       *)
IsLeft(c) ==
  /\ phase[c] \in Critical \/ (phase[c] = "waiting" /\ lock = NoClient)
  /\ phase'[c] = "idle"
  /\ modelVersion' = modelVersion
  /\ nodeVersion' = IF phase[c] = "publishNodes" THEN Advance(nodeVersion, request[c].batch)
                    ELSE nodeVersion
  /\ \/ returned'[c] = Raised /\ receipts' = receipts
     \/ /\ returned'[c] = Len(receipts) + 1
        /\ \E id, status, before, after :
             /\ Recorded(c, id, status, before, after)
             /\ status = "ACCEPTED" => phase[c] = "publishNodes" /\ before = versionsBefore

LEMMA CommitStep ==
  ASSUME TypeOK, NEW c \in Clients, Step(c, Nat)
  PROVE  OthersStay(c) /\ (GoesOn(c) \/ IsAdmitted(c) \/ IsLeft(c))
<1>0. /\ phase \in [Clients -> Phases] /\ request \in [Clients -> Request]
      /\ returned \in [Clients -> Nat]
  BY DEF TypeOK
<1>1. ASSUME NEW p, phase' = [phase EXCEPT ![c] = p], UNCHANGED <<request, returned>>
      PROVE  OthersStay(c) /\ phase'[c] = p
  BY <1>0, <1>1 DEF OthersStay
<1>2. ASSUME phase' = [phase EXCEPT ![c] = "idle"], request' = [request EXCEPT ![c] = NoRequest],
             NEW k, returned' = [returned EXCEPT ![c] = k]
      PROVE  OthersStay(c) /\ phase'[c] = "idle" /\ returned'[c] = k
  BY <1>0, <1>2 DEF OthersStay
<1>3. ASSUME NEW id, NEW status, NEW before, NEW after, Finish(c, id, status, before, after),
             status = "ACCEPTED" => phase[c] = "publishNodes" /\ before = versionsBefore,
             phase[c] \in Critical \/ (phase[c] = "waiting" /\ lock = NoClient),
             modelVersion' = modelVersion,
             nodeVersion' = IF phase[c] = "publishNodes"
                            THEN Advance(nodeVersion, request[c].batch) ELSE nodeVersion
      PROVE  OthersStay(c) /\ IsLeft(c)
  <2>1. Recorded(c, id, status, before, after)
    BY <1>3, FinishAppends
  <2>2. OthersStay(c) /\ phase'[c] = "idle" /\ returned'[c] = Len(receipts) + 1
    BY <1>2, <1>3 DEF Finish, Leave
  <2> QED
    BY <1>3, <2>1, <2>2 DEF IsLeft
<1>4. CASE RefuseCommitId(c)
  <2>1. OthersStay(c) /\ phase'[c] = "idle" /\ returned'[c] = Raised
    BY <1>2, <1>4 DEF RefuseCommitId
  <2> QED
    BY <1>4, <2>1 DEF RefuseCommitId, Entering, IsLeft, versionVars, ledgerVars
<1>5. ASSUME NEW k \in Nat, RejectAtPreflight(c, k) PROVE OthersStay(c) /\ IsLeft(c)
  <2>1. Finish(c, k, "REJECTED", Versions, Versions) /\ phase[c] = "waiting"
        /\ lock = NoClient /\ UNCHANGED versionVars
    BY <1>5 DEF RejectAtPreflight, Entering
  <2> QED
    BY <1>3, <2>1 DEF versionVars
<1>6. ASSUME NEW k \in Nat, Admit(c, k) PROVE OthersStay(c) /\ IsAdmitted(c)
  BY <1>1, <1>6 DEF Admit, Entering, IsAdmitted, ledgerVars
<1>7. CASE Work(c)
  <2>1. /\ phase[c] \in Critical \ {"publishNodes"}
        /\ UNCHANGED <<request, versionsBefore, receipts, returned, nodeVersion, modelVersion>>
    BY <1>7 DEF Work, TakeSnapshot, Apply, ApplyRaises, CanaryAccepts, CanaryRejects,
       CanaryRaises, CanaryMalformed, Applied, Critical, versionVars, ledgerVars, workVars
  <2>2. PICK p \in Critical : phase' = [phase EXCEPT ![c] = p]
    BY <1>0, <1>7 DEF Work, TakeSnapshot, Apply, ApplyRaises, CanaryAccepts, CanaryRejects,
       CanaryRaises, CanaryMalformed, Applied, Critical
  <2> QED
    BY <1>1, <2>1, <2>2 DEF GoesOn
<1>8. CASE PublishModel(c)
  <2>1. OthersStay(c) /\ phase'[c] = "publishNodes"
    BY <1>1, <1>8 DEF PublishModel
  <2> QED
    BY <1>8, <2>1 DEF PublishModel, GoesOn, Critical, ledgerVars, workVars
<1>9. CASE PublishNodes(c)
  <2>1. phase[c] \in Critical
    BY <1>9 DEF PublishNodes, Critical
  <2> QED
    BY <1>3, <1>9, <2>1 DEF PublishNodes
<1>10. CASE SnapshotRaises(c)
  <2>1. phase[c] \in Critical
    BY <1>10 DEF SnapshotRaises, Critical
  <2> QED
    BY <1>3, <1>10, <2>1 DEF SnapshotRaises, versionVars
<1>11. ASSUME NEW raised \in BOOLEAN, NEW damaged \in SUBSET Participants,
              Rollback(c, raised, damaged)
       PROVE  OthersStay(c) /\ IsLeft(c)
  <2>1. phase[c] \in Critical
    BY <1>11 DEF Rollback, Critical
  <2> QED
    BY <1>3, <1>11, <2>1 DEF Rollback, Undo, versionVars
<1>12. ASSUME NEW raised \in BOOLEAN, NEW damaged \in SUBSET Participants,
              RollbackThenRaise(c, raised, damaged)
       PROVE  OthersStay(c) /\ IsLeft(c)
  <2>1. OthersStay(c) /\ phase'[c] = "idle" /\ returned'[c] = Raised
    BY <1>2, <1>12 DEF RollbackThenRaise, Leave
  <2>2. phase[c] \in Critical
    BY <1>12 DEF RollbackThenRaise, Critical
  <2> QED
    BY <1>12, <2>1, <2>2 DEF RollbackThenRaise, Undo, IsLeft, versionVars
<1> QED
  BY <1>4, <1>5, <1>6, <1>7, <1>8, <1>9, <1>10, <1>11, <1>12 DEF Step, Enter, Settle

-----------------------------------------------------------------------------
(* Versions only grow, also when they are read one by one                  *)

(* A commit that has published the model version is about to publish the   *)
(* node versions of what it invalidates.                                   *)
Announced(n) ==
  \E c \in Clients :
    /\ phase[c] = "publishNodes"
    /\ \E q \in request[c].batch : n \in InvalidatedBy(q.node) \/ n \in q.invalidates

Coming == [n \in Nodes |-> IF Announced(n) THEN nodeVersion[n] + 1 ELSE nodeVersion[n]]

VersionsGrow ==
  /\ \A n \in Nodes : nodeVersion[n] <= nodeVersion'[n] /\ Coming[n] <= Coming'[n]
  /\ modelVersion' # modelVersion => \E n \in Nodes : nodeVersion[n] < Coming'[n]

LEMMA ComingType ==
  ASSUME TypeOK
  PROVE  Coming \in [Nodes -> Nat] /\ \A n \in Nodes : nodeVersion[n] <= Coming[n]
<1>1. nodeVersion \in [Nodes -> Nat]
  BY DEF TypeOK
<1>2. \A n \in Nodes : Coming[n] = IF Announced(n) THEN nodeVersion[n] + 1 ELSE nodeVersion[n]
  BY DEF Coming
<1>3. ASSUME NEW n \in Nodes PROVE Coming[n] \in Nat /\ nodeVersion[n] <= Coming[n]
  <2>1. nodeVersion[n] \in Nat /\ (Coming[n] = nodeVersion[n] + 1 \/ Coming[n] = nodeVersion[n])
    BY <1>1, <1>2
  <2> QED
    BY <2>1
<1> QED
  BY <1>3 DEF Coming

(* An update invalidates its own node.                                     *)
LEMMA OwnNode == \A n \in Nodes : n \in InvalidatedBy(n)
BY DEF InvalidatedBy, Closure

LEMMA VersionsGrowNext ==
  ASSUME TypeOK, Mutex, AdmissionInvariant, [Next]_vars
  PROVE  VersionsGrow
<1>0. nodeVersion \in [Nodes -> Nat] /\ nodeVersion' \in [Nodes -> Nat]
  BY TypeStep DEF TypeOK
<1>2. \A n \in Nodes :
        /\ Coming[n] = IF Announced(n) THEN nodeVersion[n] + 1 ELSE nodeVersion[n]
        /\ Coming'[n] = IF Announced(n)' THEN nodeVersion'[n] + 1 ELSE nodeVersion'[n]
  BY DEF Coming
<1>1. ASSUME NEW n \in Nodes
      PROVE  /\ Coming[n] \in Nat /\ Coming'[n] \in Nat
             /\ nodeVersion[n] <= Coming[n] /\ nodeVersion'[n] <= Coming'[n]
  <2>1. /\ nodeVersion[n] \in Nat /\ nodeVersion'[n] \in Nat
        /\ Coming[n] = nodeVersion[n] + 1 \/ Coming[n] = nodeVersion[n]
        /\ Coming'[n] = nodeVersion'[n] + 1 \/ Coming'[n] = nodeVersion'[n]
    BY <1>0, <1>2
  <2> QED
    BY <2>1
<1>3. ASSUME UNCHANGED nodeVersion, \A n \in Nodes : Announced(n) => Announced(n)',
             modelVersion' # modelVersion => \E n \in Nodes : Announced(n)'
      PROVE  VersionsGrow
  BY <1>0, <1>2, <1>3 DEF VersionsGrow
<1>4. ASSUME UNCHANGED <<nodeVersion, modelVersion>>,
             \A d \in Clients : phase[d] = "publishNodes" =>
               phase'[d] = "publishNodes" /\ request'[d] = request[d]
      PROVE  VersionsGrow
  <2>1. \A n \in Nodes : Announced(n) => Announced(n)'
    BY <1>4 DEF Announced
  <2> QED
    BY <1>3, <1>4, <2>1
<1>5. CASE UNCHANGED vars
  BY <1>4, <1>5 DEF vars, versionVars
<1>6. ASSUME NEW c \in Clients, NEW batch, NEW id, Call(c, batch, id) PROVE VersionsGrow
  BY <1>4, <1>6 DEF Call, versionVars, TypeOK
<1>7. ASSUME NEW c \in Clients, Step(c, Nat) PROVE VersionsGrow
  <2>o. OthersStay(c) /\ (GoesOn(c) \/ IsAdmitted(c) \/ IsLeft(c))
    BY <1>7, CommitStep
  <2>1. CASE GoesOn(c) /\ phase'[c] # "publishNodes"
    BY <1>4, <2>o, <2>1 DEF GoesOn, OthersStay
  <2>2. CASE GoesOn(c) /\ phase'[c] = "publishNodes"
    <3>1. \A n \in Nodes : Announced(n) => Announced(n)'
      BY <2>o, <2>2 DEF GoesOn, OthersStay, Announced
    <3>2. PICK q \in request[c].batch : TRUE
      BY <2>2 DEF GoesOn, Critical, AdmissionInvariant, IsBatch
    <3>3. q.node \in Nodes
      BY DEF TypeOK, Request, Proposal
    <3>4. Announced(q.node)'
      BY <2>2, <3>3, OwnNode DEF GoesOn, Announced
    <3> QED
      BY <1>3, <2>2, <3>1, <3>3, <3>4 DEF GoesOn
  <2>3. CASE IsAdmitted(c)
    BY <1>4, <2>o, <2>3 DEF IsAdmitted, OthersStay, versionVars
  <2>4. CASE IsLeft(c) /\ phase[c] # "publishNodes"
    BY <1>4, <2>o, <2>4 DEF IsLeft, OthersStay
  <2>5. CASE IsLeft(c) /\ phase[c] = "publishNodes"
    <3>1. \A d \in Clients : phase[d] = "publishNodes" => d = c
      BY <2>5 DEF Mutex, Critical
    <3>2. \A n \in Nodes : Announced(n) <=> n \in Invalidated(request[c].batch)
      BY <2>5, <3>1 DEF Announced, Invalidated
    <3>3. \A n \in Nodes : nodeVersion'[n] = Coming[n]
      BY <1>2, <2>5, <3>2 DEF IsLeft, Advance
    <3> QED
      BY <1>0, <1>1, <2>5, <3>3 DEF VersionsGrow, IsLeft
  <2> QED
    BY <2>o, <2>1, <2>2, <2>3, <2>4, <2>5
<1> QED
  BY <1>5, <1>6, <1>7 DEF Next

-----------------------------------------------------------------------------
(* Packets that may be applied wherever they can be                        *)

(* Preflight would admit q at vector v.                                    *)
AdmissibleAt(q, v) ==
  /\ q.base = v.model
  /\ q.node \in Depends(q)
  /\ \A n \in Depends(q) : q.deps[n] = v.nodes[n]

(* Applying the contribution to node at v is what its discount, its        *)
(* correction and the staleness policy of the node allow.                  *)
SoundAt(part, node, v) ==
  LET modelLag == v.model - part.base
      nodeLag == v.nodes[node] - part.nodeBase
  IN /\ part.base \in Nat /\ part.nodeBase \in Nat
     /\ part.base <= v.model /\ part.nodeBase <= v.nodes[node]
     /\ part.semantics # "exact_rebase" => part.discount = modelLag + nodeLag
     /\ part.correctedFor \subseteq {v}
     /\ modelLag > 0 \/ nodeLag > 0 =>
          /\ Consistency[node] # "strict"
          /\ modelLag <= MaxModelLag[node]
          /\ nodeLag <= MaxNodeLag[node]
          /\ Consistency[node] = "corrected" => part.correctedFor # {}

SoundPacket(q, v) == \A part \in q.payload : SoundAt(part, q.node, v)

(* No commit from now on can start from an earlier vector than v; coming   *)
(* are the node versions as they are or are about to be published.         *)
UpToDate(v, coming) == \A n \in Nodes : coming[n] <= v.nodes[n]

(* Whichever vector the packet will be admitted at, it is sound there.     *)
Honest(q, coming) ==
  \A v \in Vector : AdmissibleAt(q, v) /\ UpToDate(v, coming) => SoundPacket(q, v)

Distinct(q) == \A a, b \in q.payload : a.data = b.data => a = b

Proper(q, coming) == Honest(q, coming) /\ Distinct(q)

LEMMA ProperLater ==
  ASSUME NEW coming \in [Nodes -> Nat], NEW later \in [Nodes -> Nat],
         \A n \in Nodes : coming[n] <= later[n], NEW q, Proper(q, coming)
  PROVE  Proper(q, later)
<1>1. ASSUME NEW v \in Vector, UpToDate(v, later) PROVE UpToDate(v, coming)
  <2> SUFFICES ASSUME NEW n \in Nodes PROVE coming[n] <= v.nodes[n]
    BY DEF UpToDate
  <2>1. coming[n] <= later[n] /\ later[n] <= v.nodes[n]
    BY <1>1 DEF UpToDate
  <2>2. coming[n] \in Nat /\ later[n] \in Nat /\ v.nodes[n] \in Nat
    BY DEF Vector
  <2> QED
    BY <2>1, <2>2
<1> QED
  BY <1>1 DEF Proper, Honest

(* A fresh packet is sound wherever it is admissible: it is current there. *)
LEMMA FreshIsProper ==
  ASSUME PayloadsAreSets, NEW q \in FreshPackets, NEW coming
  PROVE  Proper(q, coming)
<1>1. q \in Proposal /\ Fresh(q)
  BY DEF FreshPackets
<1>o. PICK Origins, Data : Payloads = SUBSET Contribution(Origins, Data)
  BY DEF PayloadsAreSets
<1>2. PICK part \in q.payload :
        /\ q.payload = {part}
        /\ part.base = q.base
        /\ q.node \in Depends(q) => part.nodeBase = q.deps[q.node]
        /\ part.discount = 0 /\ part.semantics = "current" /\ part.correctedFor = {}
  BY <1>1 DEF Fresh
<1>3. part.base \in Nat /\ part.nodeBase \in Nat
  BY <1>1, <1>o DEF Proposal, Contribution
<1>4. ASSUME NEW v \in Vector, AdmissibleAt(q, v) PROVE SoundAt(part, q.node, v)
  <2>1. part.base = v.model /\ part.nodeBase = v.nodes[q.node]
    BY <1>2, <1>4 DEF AdmissibleAt
  <2>2. v.model - part.base = 0 /\ v.nodes[q.node] - part.nodeBase = 0
    BY <1>3, <2>1
  <2>3. part.base <= v.model /\ part.nodeBase <= v.nodes[q.node]
    BY <1>3, <2>1
  <2> QED
    BY <1>2, <1>3, <2>2, <2>3 DEF SoundAt
<1> QED
  BY <1>2, <1>4 DEF Proper, Honest, Distinct, SoundPacket

(* What r knows of the stale row when it is about to rebase it.            *)
Accepting(r, row, coming) ==
  /\ r.modelLag \in Nat /\ r.nodeLag \in Nat
  /\ row.node \in Depends(row) /\ r.target.nodes = r.nodes
  /\ \/ \E n \in Nodes : r.nodes[n] < coming[n]
     \/ /\ r.modelLag = r.target.model - row.base
        /\ r.nodeLag = r.nodes[row.node] - row.deps[row.node]
  /\ \A k \in r.correction : k.for = r.target
  /\ Consistency[row.node] # "strict"
  /\ r.modelLag <= MaxModelLag[row.node] /\ r.nodeLag <= MaxNodeLag[row.node]
  /\ Consistency[row.node] = "corrected" => r.correction # {}

(* A rebased packet is admissible at its target only, and it was measured  *)
(* against that unless a commit has fallen in between.                     *)
LEMMA RebasedIsProper ==
  ASSUME PayloadsAreSets, TypeOK, NEW c \in Clients, NEW row \in FreshPackets, Row(c) = row,
         NEW r \in Locals, round[c] = r, Accepting(r, row, Coming),
         NEW q, q.node = row.node, q.base = r.target.model, q.deps = r.target.nodes,
         q.payload = {Transformed(part, c) : part \in row.payload}
  PROVE  Proper(q, Coming)
<1>h. /\ r.modelLag \in Nat /\ r.nodeLag \in Nat
      /\ row.node \in Depends(row) /\ r.target.nodes = r.nodes
      /\ \/ \E n \in Nodes : r.nodes[n] < Coming[n]
         \/ /\ r.modelLag = r.target.model - row.base
            /\ r.nodeLag = r.nodes[row.node] - row.deps[row.node]
      /\ \A k \in r.correction : k.for = r.target
      /\ Consistency[row.node] # "strict"
      /\ r.modelLag <= MaxModelLag[row.node] /\ r.nodeLag <= MaxNodeLag[row.node]
      /\ Consistency[row.node] = "corrected" => r.correction # {}
  BY DEF Accepting
<1>1. row \in Proposal /\ Fresh(row) /\ row.node \in Nodes
  BY DEF FreshPackets, Proposal
<1>o. PICK Origins, Data : Payloads = SUBSET Contribution(Origins, Data)
  BY DEF PayloadsAreSets
<1>p. PICK part \in row.payload :
        row.payload = {part} /\ part.base = row.base /\ part.nodeBase = row.deps[row.node]
  BY <1>1, <1>h DEF Fresh
<1>2. part \in Contribution(Origins, Data)
  BY <1>1, <1>o DEF Proposal
<1>x. PICK exact \in BOOLEAN : exact <=> \E k \in r.correction : k.exact
  OBVIOUS
<1>d. PICK discount : discount = IF exact THEN 0 ELSE Discount(c)
  OBVIOUS
<1>s. PICK semantics : semantics =
        CASE exact -> "exact_rebase"
          [] r.correction # {} /\ ~exact -> "corrected_statistical_approximation"
          [] r.correction = {} -> "bounded_stale_approximation"
  OBVIOUS
<1>f. PICK for : for = {k.for : k \in r.correction}
  OBVIOUS
<1>t. PICK new : new = Transformed(part, c)
  OBVIOUS
<1>3. new = [part EXCEPT !.discount = discount, !.semantics = semantics, !.correctedFor = for]
  BY <1>x, <1>d, <1>s, <1>f, <1>t DEF Transformed
<1>4. /\ new.base = part.base /\ new.nodeBase = part.nodeBase
      /\ new.discount = discount /\ new.semantics = semantics /\ new.correctedFor = for
      /\ new.base \in Nat /\ new.nodeBase \in Nat
  BY <1>2, <1>3 DEF Contribution
<1>5. q.payload = {new}
  BY <1>p, <1>t
<1>6. semantics # "exact_rebase" => discount = r.modelLag + r.nodeLag
  BY <1>x, <1>d, <1>s DEF Discount
<1>7. ASSUME NEW v \in Vector, AdmissibleAt(q, v), UpToDate(v, Coming)
      PROVE  SoundAt(new, q.node, v)
  <2>1. r.target \in Vector /\ r.nodes \in [Nodes -> Nat]
    BY DEF Locals
  <2>2. Depends(q) = Nodes
    BY <1>h, <2>1 DEF Depends, Vector
  <2>3. v.model = r.target.model /\ \A n \in Nodes : v.nodes[n] = r.nodes[n]
    BY <1>7, <1>h, <2>2 DEF AdmissibleAt
  <2>4. v = r.target
    <3>1. v.nodes = r.target.nodes
      BY <1>h, <2>1, <2>3 DEF Vector
    <3> QED
      BY <2>1, <2>3, <3>1 DEF Vector
  <2>5. \A n \in Nodes : ~(r.nodes[n] < Coming[n])
    <3> TAKE n \in Nodes
    <3>1. Coming[n] <= r.nodes[n] /\ Coming[n] \in Nat /\ r.nodes[n] \in Nat
      BY <1>7, <2>1, <2>3, ComingType DEF UpToDate
    <3> QED
      BY <3>1
  <2>6. /\ r.modelLag = v.model - new.base
        /\ r.nodeLag = v.nodes[q.node] - new.nodeBase
    BY <1>1, <1>4, <1>h, <1>p, <2>3, <2>5
  <2>7. v.model \in Nat /\ v.nodes[q.node] \in Nat
    BY <1>1 DEF Vector
  <2>8. new.base <= v.model /\ new.nodeBase <= v.nodes[q.node]
    BY <1>4, <1>h, <2>6, <2>7
  <2>9. for \subseteq {v} /\ (r.correction # {} => for # {})
    BY <1>f, <1>h, <2>4
  <2> QED
    BY <1>4, <1>6, <1>h, <2>6, <2>8, <2>9 DEF SoundAt
<1> QED
  BY <1>5, <1>7 DEF Proper, Honest, Distinct, SoundPacket

(* Merging adds nothing that one of the rows did not bring.                *)
LEMMA MergedIsProper ==
  ASSUME NEW c \in Clients, NEW n \in Nodes, CanMerge(c, n),
         NEW rows \in SUBSET Proposal, rows = RowsOf(c, n), rows # {},
         NEW coming, \A q \in rows : Proper(q, coming)
  PROVE  Proper(Merged(rows), coming)
<1>a. PICK anchor \in rows : anchor = CHOOSE q \in rows : TRUE
  OBVIOUS
<1>i. PICK id : id = MergedId(Ids(rows))
  OBVIOUS
<1>w. PICK formed \in BOOLEAN : formed <=> \A q \in rows : q.wellFormed
  OBVIOUS
<1>y. PICK payload : payload = UNION {q.payload : q \in rows}
  OBVIOUS
<1>m. PICK m : m = Merged(rows)
  OBVIOUS
<1>1. m = [anchor EXCEPT !.id = id, !.wellFormed = formed, !.payload = payload]
  BY <1>a, <1>i, <1>w, <1>y, <1>m DEF Merged
<1>2. m.node = anchor.node /\ m.base = anchor.base /\ m.deps = anchor.deps /\ m.payload = payload
  BY <1>1 DEF Proposal
<1>3. \A q \in rows : q.node = n /\ q.base = anchor.base /\ q.deps = anchor.deps
  BY DEF CanMerge, SameContract, RowsOf
<1>4. ASSUME NEW v \in Vector, AdmissibleAt(m, v), UpToDate(v, coming), NEW part \in payload
      PROVE  SoundAt(part, m.node, v)
  <2>1. PICK q \in rows : part \in q.payload
    BY <1>y
  <2>2. AdmissibleAt(q, v)
    BY <1>2, <1>3, <1>4 DEF AdmissibleAt, Depends
  <2>3. SoundAt(part, q.node, v)
    BY <1>4, <2>1, <2>2 DEF Proper, Honest, SoundPacket
  <2> QED
    BY <1>2, <1>3, <2>3
<1>5. ASSUME NEW a \in payload, NEW b \in payload, a.data = b.data PROVE a = b
  <2>1. PICK p \in rows : a \in p.payload
    BY <1>y
  <2>2. PICK q \in rows : b \in q.payload
    BY <1>y
  <2>3. p = q
    <3>1. a.data \in DataOf(p) /\ a.data \in DataOf(q)
      BY <1>5, <2>1, <2>2 DEF DataOf
    <3> QED
      BY <3>1 DEF CanMerge
  <2> QED
    BY <1>5, <2>1, <2>2, <2>3 DEF Proper, Distinct
<1> QED
  BY <1>2, <1>4, <1>5, <1>m DEF Proper, Honest, Distinct, SoundPacket

-----------------------------------------------------------------------------
(* What waits for the lock is proper; what is being committed, and what    *)
(* was, is sound at the vector it is committed at.                         *)

InOrder(batch, v) ==
  /\ ~HasConflict(batch)
  /\ \A q \in batch : q.base = v.model /\ SoundPacket(q, v) /\ Distinct(q)

Delivered ==
  /\ \A c \in Clients : phase[c] = "waiting" =>
       \A q \in request[c].batch : Proper(q, Coming)
  /\ \A c \in Clients : phase[c] \in Critical => InOrder(request[c].batch, versionsBefore)
  /\ \A i \in Accepted :
       IsBatch(receipts[i].batch) /\ InOrder(receipts[i].batch, receipts[i].before)

LEMMA ComingLater ==
  ASSUME TypeOK, [Next]_vars, VersionsGrow, NEW q, Proper(q, Coming)
  PROVE  Proper(q, Coming')
<1>1. Coming \in [Nodes -> Nat]
  BY ComingType
<1>2. Coming' \in [Nodes -> Nat]
  <2>1. nodeVersion' \in [Nodes -> Nat]
    BY TypeStep DEF TypeOK
  <2>2. Coming' = [n \in Nodes |-> IF Announced(n)' THEN nodeVersion'[n] + 1 ELSE nodeVersion'[n]]
    BY DEF Coming
  <2>3. ASSUME NEW n \in Nodes PROVE Coming'[n] \in Nat
    <3>1. nodeVersion'[n] \in Nat
          /\ (Coming'[n] = nodeVersion'[n] + 1 \/ Coming'[n] = nodeVersion'[n])
      BY <2>1, <2>2
    <3> QED
      BY <3>1
  <2> QED
    BY <2>2, <2>3
<1> QED
  BY <1>1, <1>2, ProperLater DEF VersionsGrow

LEMMA DeliveredStep ==
  ASSUME TypeOK, Mutex, AdmissionInvariant, Delivered, [Next]_vars,
         \A c \in Clients : phase[c] = "idle" /\ phase'[c] = "waiting" =>
           \A q \in request'[c].batch : Proper(q, Coming)
  PROVE  Delivered'
<1>g. VersionsGrow
  BY VersionsGrowNext
<1>p. \A q : Proper(q, Coming) => Proper(q, Coming')
  BY <1>g, ComingLater
<1>u. \A c, d \in Clients : phase[c] \in Critical /\ phase[d] \in Critical => c = d
  BY DEF Mutex
<1>1. ASSUME UNCHANGED receipts,
             \A c \in Clients : phase'[c] = "waiting" =>
               \A q \in request'[c].batch : Proper(q, Coming),
             \A c \in Clients :
               phase'[c] \in Critical => InOrder(request'[c].batch, versionsBefore')
      PROVE  Delivered'
  <2>1. Accepted' = Accepted
    BY <1>1 DEF Accepted
  <2> QED
    BY <1>1, <1>p, <2>1 DEF Delivered
<1>2. CASE UNCHANGED vars
  <2>1. UNCHANGED <<receipts, phase, request, versionsBefore>>
    BY <1>2 DEF vars, ledgerVars, workVars
  <2> QED
    BY <1>1, <2>1 DEF Delivered
<1>3. ASSUME NEW c \in Clients, NEW batch, NEW id, Call(c, batch, id) PROVE Delivered'
  <2>1. /\ phase[c] = "idle" /\ phase'[c] = "waiting"
        /\ \A d \in Clients \ {c} : phase'[d] = phase[d] /\ request'[d] = request[d]
        /\ UNCHANGED <<receipts, versionsBefore>>
    BY <1>3 DEF Call, TypeOK, ledgerVars, workVars
  <2> QED
    BY <1>1, <2>1 DEF Delivered, Critical
<1>4. ASSUME NEW c \in Clients, Step(c, Nat) PROVE Delivered'
  <2>o. OthersStay(c) /\ (GoesOn(c) \/ IsAdmitted(c) \/ IsLeft(c))
    BY <1>4, CommitStep
  <2>1. CASE GoesOn(c)
    <3>1. UNCHANGED <<request, versionsBefore, receipts>> /\ phase[c] \in Critical
          /\ phase'[c] \in Critical
      BY <2>1 DEF GoesOn
    <3>2. \A d \in Clients \ {c} : phase'[d] = phase[d]
      BY <2>o DEF OthersStay
    <3> QED
      BY <1>1, <3>1, <3>2 DEF Delivered, Critical
  <2>2. CASE IsAdmitted(c)
    <3>1. \A d \in Clients : phase[d] \notin Critical
      BY <2>2 DEF IsAdmitted, Mutex
    <3>2. \A n \in Nodes : Coming[n] = nodeVersion[n]
      <4>1. \A n \in Nodes : ~Announced(n)
        BY <3>1 DEF Announced, Critical
      <4> QED
        BY <4>1 DEF Coming
    <3>3. Versions \in Vector /\ Versions.model = modelVersion /\ Versions.nodes = nodeVersion
      BY VersionsType DEF Versions
    <3>4. UpToDate(Versions, Coming)
      <4> SUFFICES ASSUME NEW n \in Nodes PROVE Coming[n] <= Versions.nodes[n]
        BY DEF UpToDate
      <4>1. nodeVersion[n] \in Nat
        BY DEF TypeOK
      <4> QED
        BY <3>2, <3>3, <4>1
    <3>5. ~HasConflict(request[c].batch)
          /\ \A q \in request[c].batch : AdmissibleAt(q, Versions)
      BY <2>2, <3>3 DEF IsAdmitted, PreflightError, OutOfDate, AdmissibleAt
    <3>6. InOrder(request[c].batch, Versions)
      <4>1. \A q \in request[c].batch : Proper(q, Coming)
        BY <2>2 DEF IsAdmitted, Delivered
      <4> QED
        BY <3>3, <3>4, <3>5, <4>1 DEF InOrder, Proper, Honest, AdmissibleAt
    <3>7. \A d \in Clients \ {c} : phase'[d] = phase[d]
      BY <2>o DEF OthersStay
    <3>8. UNCHANGED <<request, receipts>> /\ versionsBefore' = Versions /\ phase'[c] = "snapshot"
      BY <2>2 DEF IsAdmitted
    <3> QED
      BY <1>1, <3>1, <3>6, <3>7, <3>8 DEF Delivered
  <2>3. CASE IsLeft(c)
    <3>1. \A d \in Clients \ {c} : phase[d] \notin Critical
      BY <1>u, <2>3 DEF IsLeft, Mutex
    <3>2. \A d \in Clients \ {c} : phase'[d] = phase[d] /\ request'[d] = request[d]
      BY <2>o DEF OthersStay
    <3>3. /\ \A d \in Clients : phase'[d] = "waiting" =>
               \A q \in request'[d].batch : Proper(q, Coming)
          /\ \A d \in Clients : phase'[d] \notin Critical
      BY <2>3, <3>1, <3>2 DEF IsLeft, Delivered, Critical
    <3>4. CASE receipts' = receipts
      BY <1>1, <3>3, <3>4
    <3>5. ASSUME NEW id, NEW status, NEW before, NEW after,
                 Recorded(c, id, status, before, after),
                 status = "ACCEPTED" => phase[c] = "publishNodes" /\ before = versionsBefore
          PROVE  Delivered'
      <4>k. PICK k : k = Len(receipts) + 1
        OBVIOUS
      <4>1. /\ Accepted' = IF status = "ACCEPTED" THEN Accepted \cup {k} ELSE Accepted
            /\ \A i \in Accepted : receipts'[i] = receipts[i]
            /\ receipts'[k].batch = request[c].batch
        BY <3>5, <4>k, NewReceipt
      <4>2. receipts'[k].before = before
        BY <3>5, <4>k DEF Recorded
      <4>3. status = "ACCEPTED" =>
              IsBatch(request[c].batch) /\ InOrder(request[c].batch, before)
        BY <3>5 DEF AdmissionInvariant, Delivered, Critical
      <4>4. \A i \in Accepted' :
              IsBatch(receipts'[i].batch) /\ InOrder(receipts'[i].batch, receipts'[i].before)
        BY <4>1, <4>2, <4>3 DEF Delivered
      <4> QED
        BY <1>p, <3>3, <4>4 DEF Delivered
    <3> QED
      BY <2>3, <3>4, <3>5 DEF IsLeft
  <2> QED
    BY <2>o, <2>1, <2>2, <2>3
<1> QED
  BY <1>2, <1>3, <1>4 DEF Next

-----------------------------------------------------------------------------
(* What a round knows of the versions                                      *)

(* A commit has been published, or is about to be, since the round read    *)
(* the node versions: what it measured then will not be admitted.          *)
Outdated(r, coming) == \E n \in Nodes : r.nodes[n] < coming[n]

(* The locals r of a round that is at p, when the coordinator's versions   *)
(* are model, nodes and (nearly) coming: unless it is outdated, the round  *)
(* has measured what is the case, and it respects the node's policy.       *)
Measured(p, r, model, nodes, coming) ==
  /\ r.inputs \subseteq FreshPackets
  /\ \A q \in r.admitted \cup r.canonical : Proper(q, coming)
  /\ p \in Assessing => \A n \in Nodes : r.nodes[n] <= nodes[n]
  /\ p \in {"node", "decide", "rebase"} =>
       \A q \in r.row : /\ q.node \in Depends(q)
                        /\ Outdated(r, coming) \/ r.modelLag = model - q.base
  /\ p \in {"decide", "rebase"} =>
       \A q \in r.row : Outdated(r, coming) \/ r.nodeLag = r.nodes[q.node] - q.deps[q.node]
  /\ p = "rebase" =>
       /\ r.target.nodes = r.nodes
       /\ Outdated(r, coming) \/ r.target.model = model
       /\ \A k \in r.correction : k.for = r.target
       /\ \A q \in r.row :
            /\ Consistency[q.node] # "strict"
            /\ r.modelLag <= MaxModelLag[q.node] /\ r.nodeLag <= MaxNodeLag[q.node]
            /\ Consistency[q.node] = "corrected" => r.correction # {}

LEMMA MeasuredLater ==
  ASSUME NEW p, NEW r \in Locals, NEW model \in Nat, NEW later \in Nat,
         NEW nodes \in [Nodes -> Nat], NEW nodesLater \in [Nodes -> Nat],
         NEW coming \in [Nodes -> Nat], NEW comingLater \in [Nodes -> Nat],
         \A n \in Nodes : nodes[n] <= nodesLater[n] /\ coming[n] <= comingLater[n],
         later # model => \E n \in Nodes : nodes[n] < comingLater[n],
         Measured(p, r, model, nodes, coming)
  PROVE  Measured(p, r, later, nodesLater, comingLater)
<1>0. r.nodes \in [Nodes -> Nat]
  BY DEF Locals
<1>1. \A q \in r.admitted \cup r.canonical : Proper(q, comingLater)
  BY ProperLater DEF Measured
<1>2. Outdated(r, coming) => Outdated(r, comingLater)
  <2> SUFFICES ASSUME NEW n \in Nodes, r.nodes[n] < coming[n] PROVE r.nodes[n] < comingLater[n]
    BY DEF Outdated
  <2>1. r.nodes[n] \in Nat /\ coming[n] \in Nat /\ comingLater[n] \in Nat
        /\ coming[n] <= comingLater[n]
    BY <1>0
  <2> QED
    BY <2>1
<1>3. ASSUME p \in Assessing PROVE \A n \in Nodes : r.nodes[n] <= nodesLater[n]
  <2> TAKE n \in Nodes
  <2>1. r.nodes[n] \in Nat /\ nodes[n] \in Nat /\ nodesLater[n] \in Nat
        /\ nodes[n] <= nodesLater[n] /\ r.nodes[n] <= nodes[n]
    BY <1>0, <1>3 DEF Measured
  <2> QED
    BY <2>1
<1>4. ASSUME p \in Assessing, later # model PROVE Outdated(r, comingLater)
  <2>1. PICK n \in Nodes : nodes[n] < comingLater[n]
    BY <1>4
  <2>2. r.nodes[n] \in Nat /\ nodes[n] \in Nat /\ comingLater[n] \in Nat
        /\ r.nodes[n] <= nodes[n]
    BY <1>0, <1>4 DEF Measured
  <2>3. r.nodes[n] < comingLater[n]
    BY <2>1, <2>2
  <2> QED
    BY <2>3 DEF Outdated
<1> QED
  BY <1>1, <1>2, <1>3, <1>4 DEF Measured, Assessing

-----------------------------------------------------------------------------
(* Where a round keeps each of its inputs                                  *)

(* q is p, or p rebased.                                                   *)
IsFrom(q, p) ==
  /\ q.id = p.id \/ \E version \in Nat : q.id = RebasedId(p.id, version)
  /\ q.payload # {}
  /\ \A part \in q.payload : part.origin = p.id

Assessed(r) == r.inputs \ (r.todo \cup r.row)

(* Before the rows are grouped, an input that was assessed is rejected or  *)
(* is in one of the admitted packets, which are all of such inputs.        *)
Placed(r) ==
  /\ \A p, q \in r.inputs : p.id = q.id => p = q
  /\ r.todo \cap r.row = {}
  /\ r.rejected \subseteq Ids(Assessed(r))
  /\ \A q \in r.admitted : \E p \in Assessed(r) : IsFrom(q, p) /\ p.id \notin r.rejected
  /\ \A p \in r.inputs, a, b \in r.admitted : IsFrom(a, p) /\ IsFrom(b, p) => a = b
  /\ \A p \in Assessed(r) : p.id \in r.rejected \/ \E q \in r.admitted : IsFrom(q, p)

(* The packets in which r would commit input p.                            *)
CarriersOf(r, p) == {q \in r.canonical : \E part \in q.payload : part.origin = p.id}

Carried(r) ==
  \A p \in r.inputs :
    IF p.id \in r.rejected THEN CarriersOf(r, p) = {} ELSE \E q : CarriersOf(r, p) = {q}

Traced(p, r) ==
  /\ p = "idle" => r = NoRound
  /\ p \in Assessing \cup {"rows"} => Placed(r)
  /\ p \in {"commit", "committing"} => (Accounts(r) => Carried(r))
  /\ p = "committing" => r.canonical # {}

RoundsKept ==
  \A c \in Clients :
    /\ Measured(roundPhase[c], round[c], modelVersion, nodeVersion, Coming)
    /\ Traced(roundPhase[c], round[c])

(* A step of one round that leaves the coordinator alone.                  *)
LEMMA KeptStep ==
  ASSUME RoundInv, RoundsKept, NEW c \in Clients, NEW p, NEW r,
         Measured(p, r, modelVersion, nodeVersion, Coming), Traced(p, r),
         Goto(c, p), round' = [round EXCEPT ![c] = r], UNCHANGED vars
  PROVE  RoundsKept'
<1>1. UNCHANGED <<modelVersion, nodeVersion, phase, request>>
  BY DEF vars, versionVars
<1>2. Coming' = Coming
  BY <1>1 DEF Coming, Announced
<1>3. /\ roundPhase'[c] = p /\ round'[c] = r
      /\ \A d \in Clients \ {c} : roundPhase'[d] = roundPhase[d] /\ round'[d] = round[d]
  BY DEF Goto, RoundInv
<1> QED
  BY <1>1, <1>2, <1>3 DEF RoundsKept

LEMMA NoRoundIsKept ==
  ASSUME NEW model, NEW nodes, NEW coming
  PROVE  Measured("idle", NoRound, model, nodes, coming) /\ Traced("idle", NoRound)
<1>1. NoRound.inputs = {} /\ NoRound.admitted = {} /\ NoRound.canonical = {}
  BY DEF NoRound
<1> QED
  BY <1>1 DEF Measured, Traced, Assessing

LEMMA EndIsKept ==
  ASSUME RoundInv, RoundsKept, NEW c \in Clients, EndRound(c), UNCHANGED vars
  PROVE  RoundsKept'
BY NoRoundIsKept, KeptStep DEF EndRound

LEMMA StartIsKept ==
  ASSUME RoundInv, RoundsKept, NEW c \in Clients, NEW rows \in SUBSET FreshPackets,
         StartRound(c, rows)
  PROVE  RoundsKept'
<1>1. roundPhase[c] = "idle" /\ Goto(c, "rows") /\ UNCHANGED vars
      /\ \A p, q \in rows : p.id = q.id => p = q
  BY DEF StartRound
<1>2. round[c] = NoRound
  BY <1>1 DEF RoundsKept, Traced
<1>r. PICK r : r = [NoRound EXCEPT !.inputs = rows, !.todo = rows]
  OBVIOUS
<1>3. round' = [round EXCEPT ![c] = r]
  BY <1>2, <1>r DEF StartRound, RoundInv
<1>4. /\ r.inputs = rows /\ r.todo = rows /\ r.row = {} /\ r.admitted = {} /\ r.canonical = {}
      /\ r.rejected = {}
  BY <1>r DEF NoRound
<1>5. Measured("rows", r, modelVersion, nodeVersion, Coming)
  BY <1>4 DEF Measured, Assessing
<1>6. Placed(r)
  BY <1>1, <1>4 DEF Placed, Assessed, Ids
<1>7. Traced("rows", r)
  BY <1>6 DEF Traced
<1> QED
  BY <1>1, <1>3, <1>5, <1>7, KeptStep

LEMMA BeginIsKept ==
  ASSUME RoundInv, RoundsKept, NEW c \in Clients, NEW q \in round[c].inputs,
         NEW correction \in SUBSET Corrections, BeginAssessment(c, q, correction), UNCHANGED vars,
         \/ roundPhase[c] = "rows" /\ q \in round[c].todo
         \/ roundPhase[c] \in Assessing /\ round[c].row = {q}
  PROVE  RoundsKept'
<1>f. Fits(roundPhase[c], round[c]) /\ Placed(round[c])
      /\ Measured(roundPhase[c], round[c], modelVersion, nodeVersion, Coming)
  BY DEF RoundInv, RoundsKept, Traced
<1>r. PICK r : r = [round[c] EXCEPT !.todo = round[c].todo \ {q}, !.row = {q},
                                    !.nodes = nodeVersion, !.correction = correction]
  OBVIOUS
<1>1. round' = [round EXCEPT ![c] = r] /\ Goto(c, "model")
  BY <1>r DEF BeginAssessment
<1>2. /\ r.inputs = round[c].inputs /\ r.todo = round[c].todo \ {q} /\ r.row = {q}
      /\ r.nodes = nodeVersion /\ r.admitted = round[c].admitted
      /\ r.canonical = round[c].canonical /\ r.rejected = round[c].rejected
  BY <1>f, <1>r DEF Fits, Locals
<1>3. Assessed(r) = Assessed(round[c])
  <2>1. CASE roundPhase[c] = "rows" /\ q \in round[c].todo
    <3>1. round[c].row = {}
      BY <1>f, <2>1 DEF Fits, Assessing
    <3> QED
      BY <1>2, <2>1, <3>1 DEF Assessed
  <2>2. CASE round[c].row = {q}
    BY <1>2, <2>2 DEF Assessed
  <2> QED
    BY <2>1, <2>2
<1>4. Placed(r)
  BY <1>f, <1>2, <1>3 DEF Placed
<1>5. \A n \in Nodes : r.nodes[n] <= nodeVersion[n]
  <2> TAKE n \in Nodes
  <2>1. nodeVersion[n] \in Nat
    BY DEF RoundInv, TypeOK
  <2> QED
    BY <1>2, <2>1
<1>6. Measured("model", r, modelVersion, nodeVersion, Coming)
  BY <1>f, <1>2, <1>5 DEF Measured
<1>7. Traced("model", r)
  BY <1>4 DEF Traced
<1> QED
  BY <1>1, <1>6, <1>7, KeptStep

LEMMA RejectIsKept ==
  ASSUME RoundInv, RoundsKept, NEW c \in Clients, roundPhase[c] \in Assessing, Reject(c),
         UNCHANGED vars
  PROVE  RoundsKept'
<1>f. Fits(roundPhase[c], round[c]) /\ Placed(round[c])
      /\ Measured(roundPhase[c], round[c], modelVersion, nodeVersion, Coming)
  BY DEF RoundInv, RoundsKept, Traced
<1>q. PICK q \in round[c].inputs : q = Row(c) /\ round[c].row = {q}
  BY RowIsInput
<1>r. PICK r : r = [round[c] EXCEPT !.row = {}, !.correction = {},
                                    !.rejected = round[c].rejected \cup {q.id}]
  OBVIOUS
<1>1. round' = [round EXCEPT ![c] = r] /\ Goto(c, "rows")
  BY <1>q, <1>r DEF Reject
<1>2. /\ r.inputs = round[c].inputs /\ r.todo = round[c].todo /\ r.row = {}
      /\ r.admitted = round[c].admitted /\ r.canonical = round[c].canonical
      /\ r.rejected = round[c].rejected \cup {q.id}
  BY <1>f, <1>r DEF Fits, Locals
<1>3. Assessed(r) = Assessed(round[c]) \cup {q} /\ q \notin Assessed(round[c])
  BY <1>f, <1>q, <1>2 DEF Assessed, Placed
<1>4. \A p \in Assessed(round[c]) : p.id # q.id
  BY <1>f, <1>q, <1>3 DEF Assessed, Placed
<1>5. Placed(r)
  BY <1>f, <1>q, <1>2, <1>3, <1>4 DEF Placed, Ids
<1>6. Measured("rows", r, modelVersion, nodeVersion, Coming)
  BY <1>f, <1>2 DEF Measured, Assessing
<1>7. Traced("rows", r)
  BY <1>5 DEF Traced
<1> QED
  BY <1>1, <1>6, <1>7, KeptStep

LEMMA AdmitIsKept ==
  ASSUME RoundInv, RoundsKept, NEW c \in Clients, roundPhase[c] \in Assessing,
         NEW a \in Proposal, AdmitRow(c, a), UNCHANGED vars,
         Proper(a, Coming), IsFrom(a, Row(c))
  PROVE  RoundsKept'
<1>f. Fits(roundPhase[c], round[c]) /\ Placed(round[c])
      /\ Measured(roundPhase[c], round[c], modelVersion, nodeVersion, Coming)
  BY DEF RoundInv, RoundsKept, Traced
<1>q. PICK q \in round[c].inputs : q = Row(c) /\ round[c].row = {q}
  BY RowIsInput
<1>r. PICK r : r = [round[c] EXCEPT !.row = {}, !.correction = {},
                                    !.admitted = round[c].admitted \cup {a}]
  OBVIOUS
<1>1. round' = [round EXCEPT ![c] = r] /\ Goto(c, "rows")
  BY <1>r DEF AdmitRow
<1>2. /\ r.inputs = round[c].inputs /\ r.todo = round[c].todo /\ r.row = {}
      /\ r.admitted = round[c].admitted \cup {a} /\ r.canonical = round[c].canonical
      /\ r.rejected = round[c].rejected
  BY <1>f, <1>r DEF Fits, Locals
<1>3. Assessed(r) = Assessed(round[c]) \cup {q} /\ q \notin Assessed(round[c])
  BY <1>f, <1>q, <1>2 DEF Assessed, Placed
<1>4. \A p \in Assessed(round[c]) : p.id # q.id
  BY <1>f, <1>q, <1>3 DEF Assessed, Placed
<1>5. q.id \notin r.rejected
  BY <1>f, <1>2, <1>4 DEF Placed, Ids
<1>6. \A p, b : IsFrom(b, p) /\ IsFrom(b, q) => p.id = q.id
  BY DEF IsFrom
<1>7. ASSUME NEW p \in r.inputs, NEW b \in round[c].admitted, IsFrom(a, p), IsFrom(b, p)
      PROVE  FALSE
  <2>1. p = q
    BY <1>f, <1>q, <1>2, <1>6, <1>7 DEF Placed
  <2>2. PICK s \in Assessed(round[c]) : IsFrom(b, s)
    BY <1>f DEF Placed
  <2>3. s.id = q.id
    BY <1>6, <1>7, <2>1, <2>2
  <2> QED
    BY <1>4, <2>2, <2>3
<1>8. Placed(r)
  <2>1. \A p \in r.inputs, b, d \in r.admitted : IsFrom(b, p) /\ IsFrom(d, p) => b = d
    BY <1>f, <1>2, <1>7 DEF Placed
  <2>2. \A b \in r.admitted : \E p \in Assessed(r) : IsFrom(b, p) /\ p.id \notin r.rejected
    BY <1>f, <1>q, <1>2, <1>3, <1>5 DEF Placed
  <2>3. \A p \in Assessed(r) : p.id \in r.rejected \/ \E b \in r.admitted : IsFrom(b, p)
    BY <1>f, <1>q, <1>2, <1>3 DEF Placed
  <2>4. r.rejected \subseteq Ids(Assessed(r))
    BY <1>f, <1>2, <1>3 DEF Placed, Ids
  <2> QED
    BY <1>f, <1>2, <2>1, <2>2, <2>3, <2>4 DEF Placed
<1>9. Measured("rows", r, modelVersion, nodeVersion, Coming)
  BY <1>f, <1>2 DEF Measured, Assessing
<1>10. Traced("rows", r)
  BY <1>8 DEF Traced
<1> QED
  BY <1>1, <1>9, <1>10, KeptStep

(* The model version is read after the node versions: if a commit is half  *)
(* published by then, the node versions are outdated.                      *)
LEMMA ReadModelIsKept ==
  ASSUME RoundInv, RoundsKept, NEW c \in Clients, ReadModelVersion(c)
  PROVE  RoundsKept'
<1>1. roundPhase[c] = "model" /\ Row(c).node \in Depends(Row(c)) /\ UNCHANGED vars
  BY DEF ReadModelVersion
<1>f. Fits("model", round[c]) /\ Placed(round[c])
      /\ Measured("model", round[c], modelVersion, nodeVersion, Coming)
  BY <1>1 DEF RoundInv, RoundsKept, Traced, Assessing
<1>q. PICK q \in round[c].inputs : q = Row(c) /\ round[c].row = {q}
  BY <1>1, RowIsInput DEF Assessing
<1>l. PICK lag : lag = modelVersion - q.base
  OBVIOUS
<1>r. PICK r : r = [round[c] EXCEPT !.modelLag = lag]
  OBVIOUS
<1>2. round' = [round EXCEPT ![c] = r] /\ Goto(c, "node")
  BY <1>q, <1>l, <1>r DEF ReadModelVersion
<1>3. /\ r.inputs = round[c].inputs /\ r.todo = round[c].todo /\ r.row = {q}
      /\ r.nodes = round[c].nodes /\ r.admitted = round[c].admitted
      /\ r.canonical = round[c].canonical /\ r.rejected = round[c].rejected
      /\ r.modelLag = lag
  BY <1>f, <1>q, <1>r DEF Fits, Locals
<1>4. Placed(r)
  BY <1>f, <1>q, <1>3 DEF Placed, Assessed
<1>5. Measured("node", r, modelVersion, nodeVersion, Coming)
  BY <1>f, <1>1, <1>q, <1>l, <1>3 DEF Measured, Assessing
<1>6. Traced("node", r)
  BY <1>4 DEF Traced
<1> QED
  BY <1>1, <1>2, <1>5, <1>6, KeptStep

(* A lag of the node that is read later than its version belongs to it, if *)
(* nothing was published in between.                                       *)
LEMMA ReadNodeIsKept ==
  ASSUME RoundInv, RoundsKept, NEW c \in Clients, ReadNodeVersion(c)
  PROVE  RoundsKept'
<1>1. roundPhase[c] = "node" /\ UNCHANGED vars
  BY DEF ReadNodeVersion
<1>f. Fits("node", round[c]) /\ Placed(round[c])
      /\ Measured("node", round[c], modelVersion, nodeVersion, Coming)
  BY <1>1 DEF RoundInv, RoundsKept, Traced, Assessing
<1>q. PICK q \in round[c].inputs : q = Row(c) /\ round[c].row = {q} /\ q \in Proposal
  BY <1>1, RowIsInput DEF Assessing
<1>l. PICK lag : lag = nodeVersion[q.node] - q.deps[q.node]
  OBVIOUS
<1>r. PICK r : r = [round[c] EXCEPT !.nodeLag = lag]
  OBVIOUS
<1>2. round' = [round EXCEPT ![c] = r] /\ Goto(c, "decide")
  BY <1>q, <1>l, <1>r DEF ReadNodeVersion
<1>3. /\ r.inputs = round[c].inputs /\ r.todo = round[c].todo /\ r.row = {q}
      /\ r.nodes = round[c].nodes /\ r.admitted = round[c].admitted
      /\ r.canonical = round[c].canonical /\ r.rejected = round[c].rejected
      /\ r.modelLag = round[c].modelLag /\ r.nodeLag = lag
  BY <1>f, <1>q, <1>r DEF Fits, Locals
<1>4. Placed(r)
  BY <1>f, <1>q, <1>3 DEF Placed, Assessed
<1>5. Outdated(r, Coming) \/ r.nodeLag = r.nodes[q.node] - q.deps[q.node]
  <2>1. q.node \in Nodes
    BY <1>q DEF Proposal
  <2>2. nodeVersion[q.node] \in Nat /\ Coming[q.node] \in Nat /\ r.nodes[q.node] \in Nat
        /\ nodeVersion[q.node] <= Coming[q.node]
    BY <1>f, <1>3, <2>1, ComingType DEF RoundInv, TypeOK, Fits, Locals
  <2>3. r.nodes[q.node] <= nodeVersion[q.node]
    BY <1>f, <1>3, <2>1 DEF Measured, Assessing
  <2>4. r.nodes[q.node] < Coming[q.node] \/ r.nodes[q.node] = nodeVersion[q.node]
    BY <2>2, <2>3
  <2> QED
    BY <1>l, <1>3, <2>1, <2>4 DEF Outdated
<1>6. Measured("decide", r, modelVersion, nodeVersion, Coming)
  BY <1>f, <1>q, <1>3, <1>5 DEF Measured, Assessing, Outdated
<1>7. Traced("decide", r)
  BY <1>4 DEF Traced
<1> QED
  BY <1>1, <1>2, <1>6, <1>7, KeptStep

LEMMA AskIsKept ==
  ASSUME RoundInv, RoundsKept, NEW c \in Clients, AskForCorrection(c)
  PROVE  RoundsKept'
<1>1. roundPhase[c] = "decide" /\ UNCHANGED vars
  BY DEF AskForCorrection
<1>f. Fits("decide", round[c]) /\ Placed(round[c])
      /\ Measured("decide", round[c], modelVersion, nodeVersion, Coming)
  BY <1>1 DEF RoundInv, RoundsKept, Traced, Assessing
<1>r. PICK r : r = [round[c] EXCEPT !.target = Target(c)]
  OBVIOUS
<1>2. round' = [round EXCEPT ![c] = r] /\ Goto(c, "ask")
  BY <1>r DEF AskForCorrection
<1>3. /\ r.inputs = round[c].inputs /\ r.todo = round[c].todo /\ r.row = round[c].row
      /\ r.nodes = round[c].nodes /\ r.admitted = round[c].admitted
      /\ r.canonical = round[c].canonical /\ r.rejected = round[c].rejected
  BY <1>f, <1>r DEF Fits, Locals
<1>4. Placed(r)
  BY <1>f, <1>3 DEF Placed, Assessed
<1>5. Measured("ask", r, modelVersion, nodeVersion, Coming)
  BY <1>f, <1>3 DEF Measured, Assessing
<1>6. Traced("ask", r)
  BY <1>4 DEF Traced
<1> QED
  BY <1>1, <1>2, <1>5, <1>6, KeptStep

(* What is accepted although it is stale is within the policy, and its     *)
(* target is what was measured, or is outdated.                            *)
LEMMA AcceptStaleIsKept ==
  ASSUME RoundInv, RoundsKept, NEW c \in Clients, AcceptStale(c)
  PROVE  RoundsKept'
<1>1. roundPhase[c] = "decide" /\ UNCHANGED vars
      /\ ~Current(c) /\ ~Refused(c) /\ ~NeedsCorrection(c)
  BY DEF AcceptStale
<1>f. Fits("decide", round[c]) /\ Placed(round[c])
      /\ Measured("decide", round[c], modelVersion, nodeVersion, Coming)
  BY <1>1 DEF RoundInv, RoundsKept, Traced, Assessing
<1>q. PICK q \in round[c].inputs : q = Row(c) /\ round[c].row = {q} /\ q \in Proposal
  BY <1>1, RowIsInput DEF Assessing
<1>r. PICK r : r = [round[c] EXCEPT !.target = Target(c)]
  OBVIOUS
<1>2. round' = [round EXCEPT ![c] = r] /\ Goto(c, "rebase")
  BY <1>r DEF AcceptStale
<1>3. /\ r.inputs = round[c].inputs /\ r.todo = round[c].todo /\ r.row = {q}
      /\ r.nodes = round[c].nodes /\ r.admitted = round[c].admitted
      /\ r.canonical = round[c].canonical /\ r.rejected = round[c].rejected
      /\ r.modelLag = round[c].modelLag /\ r.nodeLag = round[c].nodeLag
      /\ r.correction = round[c].correction
      /\ r.target = Target(c)
  BY <1>f, <1>q, <1>r DEF Fits, Locals
<1>4. Placed(r)
  BY <1>f, <1>q, <1>3 DEF Placed, Assessed
<1>5. r.target.model = modelVersion /\ r.target.nodes = r.nodes
  BY <1>3 DEF Target
<1>6. \A k \in r.correction : k.for = r.target
  BY <1>1, <1>3 DEF Refused
<1>7. /\ Consistency[q.node] # "strict"
      /\ r.modelLag <= MaxModelLag[q.node] /\ r.nodeLag <= MaxNodeLag[q.node]
      /\ Consistency[q.node] = "corrected" => r.correction # {}
  <2>1. /\ Consistency[q.node] # "strict"
        /\ ~(r.modelLag > MaxModelLag[q.node]) /\ ~(r.nodeLag > MaxNodeLag[q.node])
        /\ Consistency[q.node] = "corrected" => r.correction # {}
    BY <1>1, <1>q, <1>3 DEF Refused, LagExceeded, NeedsCorrection
  <2>2. /\ r.modelLag \in Int /\ r.nodeLag \in Int
        /\ MaxModelLag[q.node] \in Nat /\ MaxNodeLag[q.node] \in Nat
    BY <1>f, <1>q, <1>3 DEF Fits, Locals, Proposal
  <2> QED
    BY <2>1, <2>2
<1>8. Measured("rebase", r, modelVersion, nodeVersion, Coming)
  BY <1>f, <1>q, <1>3, <1>5, <1>6, <1>7 DEF Measured, Assessing, Outdated
<1>9. Traced("rebase", r)
  BY <1>4 DEF Traced
<1> QED
  BY <1>1, <1>2, <1>8, <1>9, KeptStep

LEMMA RebaseIsKept ==
  ASSUME RoundInv, RoundsKept, NEW c \in Clients, Rebase(c), MintedIds, PayloadsAreSets
  PROVE  RoundsKept'
<1>1. roundPhase[c] = "rebase" /\ UNCHANGED vars
  BY DEF Rebase
<1>r. PICK r : r = round[c]
  OBVIOUS
<1>f. Fits("rebase", r) /\ Measured("rebase", r, modelVersion, nodeVersion, Coming)
  BY <1>1, <1>r DEF RoundInv, RoundsKept
<1>q. PICK row \in FreshPackets : row = Row(c) /\ r.row = {row} /\ row \in Proposal /\ Fresh(row)
  BY <1>1, <1>f, <1>r, RowIsInput DEF Assessing, Measured, FreshPackets
<1>i. PICK id : id = RebasedId(row.id, modelVersion)
  OBVIOUS
<1>y. PICK payload : payload = {Transformed(part, c) : part \in row.payload}
  OBVIOUS
<1>a. PICK a : a = [row EXCEPT !.id = id, !.base = r.target.model, !.deps = r.target.nodes,
                               !.payload = payload]
  OBVIOUS
<1>2. AdmitRow(c, a)
  BY <1>q, <1>r, <1>i, <1>y, <1>a DEF Rebase
<1>3. a.id = id /\ a.node = row.node /\ a.base = r.target.model /\ a.deps = r.target.nodes
      /\ a.payload = payload
  BY <1>q, <1>a DEF Proposal
<1>4. r \in Locals /\ Accepting(r, row, Coming)
  BY <1>f, <1>q DEF Fits, Measured, Outdated, Accepting
<1>5. a.payload = {Transformed(part, c) : part \in row.payload}
  BY <1>y, <1>3
<1>6. Proper(a, Coming)
  BY <1>r, <1>q, <1>3, <1>4, <1>5, RebasedIsProper DEF RoundInv
<1>7. IsFrom(a, row)
  <2>o. PICK Origins, Data : Payloads = SUBSET Contribution(Origins, Data)
    BY DEF PayloadsAreSets
  <2>1. PICK part \in row.payload : row.payload = {part} /\ part.origin = row.id
    BY <1>q DEF Fresh
  <2>2. part \in Contribution(Origins, Data)
    BY <1>q, <2>o DEF Proposal
  <2>3. Transformed(part, c).origin = part.origin
    BY <2>2 DEF Transformed, Contribution
  <2>4. a.payload = {Transformed(part, c)}
    BY <1>y, <1>3, <2>1
  <2>5. modelVersion \in Nat
    BY DEF RoundInv, TypeOK
  <2> QED
    BY <1>i, <1>3, <2>1, <2>3, <2>4, <2>5 DEF IsFrom
<1>8. a \in Proposal
  <2>1. id \in ProposalIds
    BY <1>i, <1>q DEF MintedIds, Proposal, RoundInv, TypeOK
  <2>2. r.target.model \in Nat /\ r.target.nodes \in DependencyVersions
    BY <1>4 DEF Locals, Vector, DependencyVersions
  <2>3. payload \in Payloads
    BY <1>1, <1>q, <1>y, RebasedPayload
  <2> QED
    BY <1>a, <1>q, <2>1, <2>2, <2>3 DEF Proposal
<1> QED
  BY <1>1, <1>2, <1>6, <1>7, <1>8, <1>q, AdmitIsKept DEF Assessing

-----------------------------------------------------------------------------
(* Grouping keeps what was admitted together                               *)

(* The packet in which an admitted row of c is committed.                  *)
PacketOf(c, a) == IF a.node \in Groups(c) THEN Merged(RowsOf(c, a.node)) ELSE a

(* The packets to commit once the groups in failing are given up.          *)
Grouped(c, failing) ==
  {q \in round[c].admitted : q.node \notin Groups(c)}
    \cup {Merged(RowsOf(c, n)) : n \in Groups(c) \ failing}

LEMMA MergedPayload ==
  ASSUME NEW rows \in SUBSET Proposal, rows # {}
  PROVE  Merged(rows).payload = UNION {q.payload : q \in rows}
<1>a. PICK anchor \in rows : anchor = CHOOSE q \in rows : TRUE
  OBVIOUS
<1>i. PICK id : id = MergedId(Ids(rows))
  OBVIOUS
<1>w. PICK formed \in BOOLEAN : formed <=> \A q \in rows : q.wellFormed
  OBVIOUS
<1>y. PICK payload : payload = UNION {q.payload : q \in rows}
  OBVIOUS
<1>m. PICK m : m = Merged(rows)
  OBVIOUS
<1>1. m = [anchor EXCEPT !.id = id, !.wellFormed = formed, !.payload = payload]
  BY <1>a, <1>i, <1>w, <1>y, <1>m DEF Merged
<1>2. anchor \in Proposal
  OBVIOUS
<1>3. m.payload = payload
  BY <1>1, <1>2 DEF Proposal
<1> QED
  BY <1>3, <1>m, <1>y

(* A contribution is in the packet of the row that brought it, and nowhere *)
(* else.                                                                   *)
LEMMA GroupedKeepsParts ==
  ASSUME RoundInv, NEW c \in Clients, NEW failing \in SUBSET Groups(c)
  PROVE  /\ \A x \in Grouped(c, failing) : \A part \in x.payload :
              \E a \in round[c].admitted :
                a.node \notin failing /\ part \in a.payload /\ x = PacketOf(c, a)
         /\ \A a \in round[c].admitted : a.node \notin failing =>
              PacketOf(c, a) \in Grouped(c, failing) /\ a.payload \subseteq PacketOf(c, a).payload
<1>1. round[c].admitted \in SUBSET Proposal
  BY DEF RoundInv, Locals
<1>2. \A n : RowsOf(c, n) \in SUBSET Proposal /\ RowsOf(c, n) \subseteq round[c].admitted
             /\ \A a \in RowsOf(c, n) : a.node = n
  BY <1>1 DEF RowsOf
<1>3. ASSUME NEW n \in Groups(c) PROVE RowsOf(c, n) # {}
  <2>1. Cardinality(RowsOf(c, n)) > 1
    BY DEF Groups
  <2>2. Cardinality({}) = 0 /\ ~(0 > 1)
    BY FS_EmptySet
  <2> HIDE DEF RowsOf
  <2> QED
    BY <2>1, <2>2
<1>4. \A n \in Groups(c) :
        Merged(RowsOf(c, n)).payload = UNION {q.payload : q \in RowsOf(c, n)}
  BY <1>2, <1>3, MergedPayload
<1>5. ASSUME NEW x \in Grouped(c, failing), NEW part \in x.payload
      PROVE  \E a \in round[c].admitted :
               a.node \notin failing /\ part \in a.payload /\ x = PacketOf(c, a)
  <2>1. CASE x \in round[c].admitted /\ x.node \notin Groups(c)
    BY <2>1 DEF PacketOf
  <2>2. ASSUME NEW n \in Groups(c) \ failing, x = Merged(RowsOf(c, n))
        PROVE  \E a \in round[c].admitted :
                 a.node \notin failing /\ part \in a.payload /\ x = PacketOf(c, a)
    <3>1. PICK a \in RowsOf(c, n) : part \in a.payload
      BY <1>4, <2>2
    <3>2. a \in round[c].admitted /\ a.node = n
      BY <1>2, <3>1
    <3> QED
      BY <2>2, <3>1, <3>2 DEF PacketOf
  <2> QED
    BY <2>1, <2>2 DEF Grouped
<1>6. ASSUME NEW a \in round[c].admitted, a.node \notin failing
      PROVE  PacketOf(c, a) \in Grouped(c, failing) /\ a.payload \subseteq PacketOf(c, a).payload
  <2>1. CASE a.node \in Groups(c)
    <3>1. a \in RowsOf(c, a.node)
      BY DEF RowsOf
    <3>2. PacketOf(c, a) = Merged(RowsOf(c, a.node))
      BY <2>1 DEF PacketOf
    <3> QED
      BY <1>4, <1>6, <2>1, <3>1, <3>2 DEF Grouped
  <2>2. CASE a.node \notin Groups(c)
    BY <2>2 DEF PacketOf, Grouped
  <2> QED
    BY <2>1, <2>2
<1> QED
  BY <1>5, <1>6

(* What is admitted under an id that callers use was not rebased.          *)
LEMMA SameId ==
  ASSUME NEW p \in FreshPackets, NEW s \in FreshPackets, NEW a, IsFrom(a, s), a.id = p.id
  PROVE  a.id = s.id
<1>1. p.id \notin Minted /\ s.id \in ProposalIds
  BY DEF FreshPackets, Fresh, Proposal
<1>2. ASSUME NEW version \in Nat, a.id = RebasedId(s.id, version) PROVE FALSE
  <2>1. a.id \in Minted
    BY <1>1, <1>2 DEF Minted
  <2> QED
    BY <1>1, <2>1
<1> QED
  BY <1>2 DEF IsFrom

(* If the receipt is accepted, every input is rejected or is in one of the *)
(* packets to commit.                                                      *)
LEMMA GroupedIsCarried ==
  ASSUME RoundInv, NEW c \in Clients, NEW failing \in SUBSET Groups(c),
         Placed(round[c]), round[c].todo = {}, round[c].row = {},
         round[c].inputs \subseteq FreshPackets,
         NEW r, r.inputs = round[c].inputs, r.canonical = Grouped(c, failing),
         r.rejected = round[c].rejected \cup Ids(LostRows(c, failing)), Accounts(r)
  PROVE  Carried(r)
<1>1. Assessed(round[c]) = r.inputs
  BY DEF Assessed
<1>2. /\ \A p, q \in r.inputs : p.id = q.id => p = q
      /\ \A a \in round[c].admitted :
           \E p \in r.inputs : IsFrom(a, p) /\ p.id \notin round[c].rejected
      /\ \A p \in r.inputs, a, b \in round[c].admitted : IsFrom(a, p) /\ IsFrom(b, p) => a = b
      /\ \A p \in r.inputs : \/ p.id \in round[c].rejected
                             \/ \E a \in round[c].admitted : IsFrom(a, p)
  BY <1>1 DEF Placed
<1>3. ASSUME NEW a \in round[c].admitted, NEW p \in r.inputs, NEW part \in a.payload,
             part.origin = p.id
      PROVE  IsFrom(a, p)
  <2>1. PICK s \in r.inputs : IsFrom(a, s)
    BY <1>2
  <2>2. s = p
    BY <1>2, <1>3, <2>1 DEF IsFrom
  <2> QED
    BY <2>1, <2>2
<1>4. ASSUME NEW p \in r.inputs, NEW x \in CarriersOf(r, p)
      PROVE  \E a \in round[c].admitted :
               IsFrom(a, p) /\ a.node \notin failing /\ x = PacketOf(c, a)
  <2>1. PICK part \in x.payload : part.origin = p.id
    BY DEF CarriersOf
  <2>2. x \in Grouped(c, failing)
    BY DEF CarriersOf
  <2>3. PICK a \in round[c].admitted :
          a.node \notin failing /\ part \in a.payload /\ x = PacketOf(c, a)
    BY <2>2, GroupedKeepsParts
  <2> QED
    BY <1>3, <2>1, <2>3
<1>5. ASSUME NEW p \in r.inputs, NEW a \in round[c].admitted, IsFrom(a, p),
             a.node \notin failing
      PROVE  PacketOf(c, a) \in CarriersOf(r, p)
  <2>1. PICK part \in a.payload : part.origin = p.id
    BY <1>5 DEF IsFrom
  <2>2. PacketOf(c, a) \in Grouped(c, failing) /\ part \in PacketOf(c, a).payload
    BY <1>5, GroupedKeepsParts
  <2> QED
    BY <2>1, <2>2 DEF CarriersOf
<1>6. \A a \in round[c].admitted : a \in LostRows(c, failing) <=> a.node \in failing
  BY DEF LostRows, RowsOf
<1>7. LostRows(c, failing) \subseteq round[c].admitted
  BY DEF LostRows, RowsOf
<1>8. ASSUME NEW a \in LostRows(c, failing), NEW p \in r.inputs, IsFrom(a, p)
      PROVE  a.id = p.id
  <2>1. a.id \in r.rejected
    BY DEF Ids
  <2>2. PICK s \in r.inputs : a.id = s.id
    BY <2>1 DEF Accounts, Ids
  <2> QED
    BY <1>8, <2>2, SameId
<1>9. SUFFICES ASSUME NEW p \in r.inputs
               PROVE  IF p.id \in r.rejected THEN CarriersOf(r, p) = {}
                      ELSE \E q : CarriersOf(r, p) = {q}
  BY DEF Carried
<1>10. CASE p.id \in round[c].rejected
  <2>1. \A a \in round[c].admitted : ~IsFrom(a, p)
    <3> SUFFICES ASSUME NEW a \in round[c].admitted, IsFrom(a, p) PROVE FALSE
      OBVIOUS
    <3>1. PICK s \in r.inputs : IsFrom(a, s) /\ s.id \notin round[c].rejected
      BY <1>2
    <3>2. p.id = s.id
      BY <3>1 DEF IsFrom
    <3> QED
      BY <1>10, <3>1, <3>2
  <2> QED
    BY <1>4, <1>10, <2>1
<1>11. ASSUME NEW a \in round[c].admitted, IsFrom(a, p), a.node \in failing
       PROVE  p.id \in r.rejected /\ CarriersOf(r, p) = {}
  <2>1. a \in LostRows(c, failing)
    BY <1>6, <1>11
  <2>2. p.id \in r.rejected
    BY <1>8, <1>11, <2>1 DEF Ids
  <2> QED
    BY <1>2, <1>4, <1>11, <2>2
<1>12. ASSUME NEW a \in round[c].admitted, IsFrom(a, p), a.node \notin failing,
              p.id \notin round[c].rejected
       PROVE  p.id \notin r.rejected /\ CarriersOf(r, p) = {PacketOf(c, a)}
  <2>1. ASSUME p.id \in Ids(LostRows(c, failing)) PROVE FALSE
    <3>1. PICK b \in LostRows(c, failing) : p.id = b.id
      BY <2>1 DEF Ids
    <3>2. b \in round[c].admitted /\ b.node \in failing
      BY <1>6, <1>7
    <3>3. PICK s \in r.inputs : IsFrom(b, s)
      BY <1>2, <3>2
    <3>4. s = p
      BY <1>2, <1>8, <3>1, <3>3
    <3> QED
      BY <1>2, <1>12, <3>2, <3>3, <3>4
  <2>2. CarriersOf(r, p) = {PacketOf(c, a)}
    BY <1>2, <1>4, <1>5, <1>12
  <2> QED
    BY <1>12, <2>1, <2>2
<1> QED
  BY <1>2, <1>10, <1>11, <1>12

LEMMA GroupIsKept ==
  ASSUME RoundInv, RoundsKept, NEW c \in Clients, NEW failing \in SUBSET Groups(c),
         Group(c, failing)
  PROVE  RoundsKept'
<1>1. /\ roundPhase[c] = "rows" /\ round[c].todo = {} /\ Goto(c, "commit") /\ UNCHANGED vars
      /\ \A n \in Groups(c) \ failing : CanMerge(c, n)
  BY DEF Group
<1>f. Fits("rows", round[c]) /\ Placed(round[c])
      /\ Measured("rows", round[c], modelVersion, nodeVersion, Coming)
  BY <1>1 DEF RoundInv, RoundsKept, Traced
<1>mer. PICK merged : merged = {[id |-> MergedId(Ids(RowsOf(c, n))),
                                 sources |-> Ids(RowsOf(c, n))] : n \in Groups(c) \ failing}
  OBVIOUS
<1>r. PICK r : r = [round[c] EXCEPT
                      !.canonical = Grouped(c, failing), !.merged = merged,
                      !.rejected = round[c].rejected \cup Ids(LostRows(c, failing))]
  OBVIOUS
<1>2. round' = [round EXCEPT ![c] = r]
  BY <1>mer, <1>r DEF Group, Grouped, RoundInv
<1>3. /\ r.inputs = round[c].inputs /\ r.row = {} /\ r.admitted = round[c].admitted
      /\ r.canonical = Grouped(c, failing)
      /\ r.rejected = round[c].rejected \cup Ids(LostRows(c, failing))
      /\ round[c].row = {}
  BY <1>f, <1>r DEF Fits, Locals, Assessing
<1>4. round[c].admitted \in SUBSET Proposal
  BY <1>f DEF Fits, Locals
<1>5. \A q \in round[c].admitted : Proper(q, Coming)
  BY <1>f DEF Measured
<1>6. ASSUME NEW n \in Groups(c) \ failing PROVE Proper(Merged(RowsOf(c, n)), Coming)
  <2>1. RowsOf(c, n) \in SUBSET Proposal /\ RowsOf(c, n) \subseteq round[c].admitted
    BY <1>4 DEF RowsOf
  <2>2. Cardinality(RowsOf(c, n)) > 1 /\ n \in Nodes /\ CanMerge(c, n)
    BY <1>1 DEF Groups
  <2>3. Cardinality({}) = 0 /\ ~(0 > 1)
    BY FS_EmptySet
  <2>4. RowsOf(c, n) # {}
    <3> HIDE DEF RowsOf
    <3> QED
      BY <2>2, <2>3
  <2> QED
    BY <1>5, <2>1, <2>2, <2>4, MergedIsProper
<1>7. \A q \in r.admitted \cup r.canonical : Proper(q, Coming)
  BY <1>3, <1>5, <1>6 DEF Grouped
<1>8. Measured("commit", r, modelVersion, nodeVersion, Coming)
  BY <1>f, <1>3, <1>7 DEF Measured, Assessing
<1>9. Accounts(r) => Carried(r)
  BY <1>f, <1>1, <1>3, GroupedIsCarried DEF Measured
<1>10. Traced("commit", r)
  BY <1>9 DEF Traced, Assessing
<1> QED
  BY <1>1, <1>2, <1>8, <1>10, KeptStep

-----------------------------------------------------------------------------
(* The commit that a round waits for                                       *)

(* It is the commit of the packets of the round, and when it is over, so   *)
(* is the receipt that it returned.                                        *)
CommitsAwaited ==
  \A c \in Clients : roundPhase[c] = "committing" =>
    IF phase[c] = "idle"
    THEN returned[c] # Raised => receipts[returned[c]].batch = round[c].canonical
    ELSE request[c].batch = round[c].canonical

(* The coordinator never changes a receipt.                                *)
LEMMA ReceiptsStay ==
  ASSUME TypeOK, [Next]_vars
  PROVE  \A i \in DOMAIN receipts : i \in DOMAIN receipts' /\ receipts'[i] = receipts[i]
<1>1. CASE UNCHANGED vars
  BY <1>1 DEF vars, ledgerVars
<1>2. ASSUME NEW c \in Clients, NEW batch, NEW id, Call(c, batch, id) PROVE UNCHANGED receipts
  BY <1>2 DEF Call, ledgerVars
<1>3. ASSUME NEW c \in Clients, Step(c, Nat)
      PROVE  \A i \in DOMAIN receipts : i \in DOMAIN receipts' /\ receipts'[i] = receipts[i]
  BY <1>3, CommitStep DEF GoesOn, IsAdmitted, IsLeft, Recorded
<1> QED
  BY <1>1, <1>2, <1>3 DEF Next

LEMMA AwaitedStep ==
  ASSUME RoundInv, CommitsAwaited, [Next]_vars, UNCHANGED <<roundPhase, round>>,
         \A c \in Clients : phase[c] = "idle" /\ phase'[c] # "idle" => roundPhase[c] # "committing"
  PROVE  CommitsAwaited'
<1>0. TypeOK /\ \A c \in Clients : returned[c] \in 0..Len(receipts)
  BY DEF RoundInv
<1>1. \A i \in DOMAIN receipts : receipts'[i] = receipts[i]
  BY <1>0, ReceiptsStay
<1>2. \A c \in Clients : returned[c] # Raised => returned[c] \in DOMAIN receipts
  <2>1. DOMAIN receipts = 1..Len(receipts) /\ Len(receipts) \in Nat
    BY <1>0 DEF TypeOK
  <2> QED
    BY <1>0, <2>1 DEF Raised
<1>3. ASSUME NEW d \in Clients, roundPhase[d] = "committing",
             phase'[d] = phase[d], request'[d] = request[d], returned'[d] = returned[d]
      PROVE  IF phase'[d] = "idle"
             THEN returned'[d] # Raised => receipts'[returned'[d]].batch = round[d].canonical
             ELSE request'[d].batch = round[d].canonical
  BY <1>1, <1>2, <1>3 DEF CommitsAwaited
<1>4. CASE UNCHANGED vars
  <2>1. UNCHANGED <<phase, request, returned>>
    BY <1>4 DEF vars
  <2> QED
    BY <1>3, <2>1 DEF CommitsAwaited
<1>5. ASSUME NEW c \in Clients, NEW batch, NEW id, Call(c, batch, id) PROVE CommitsAwaited'
  <2>1. phase[c] = "idle" /\ phase'[c] = "waiting" /\ UNCHANGED returned
    BY <1>0, <1>5 DEF Call, TypeOK
  <2>2. \A d \in Clients \ {c} : phase'[d] = phase[d] /\ request'[d] = request[d]
    BY <1>0, <1>5 DEF Call, TypeOK
  <2>3. roundPhase[c] # "committing"
    BY <2>1
  <2> QED
    BY <1>3, <2>1, <2>2, <2>3 DEF CommitsAwaited
<1>6. ASSUME NEW c \in Clients, Step(c, Nat) PROVE CommitsAwaited'
  <2>1. OthersStay(c) /\ (GoesOn(c) \/ IsAdmitted(c) \/ IsLeft(c))
    BY <1>0, <1>6, CommitStep
  <2>2. phase[c] # "idle"
    BY <2>1 DEF GoesOn, IsAdmitted, IsLeft, Critical
  <2>3. ASSUME roundPhase[c] = "committing"
        PROVE  IF phase'[c] = "idle"
               THEN returned'[c] # Raised => receipts'[returned'[c]].batch = round[c].canonical
               ELSE request'[c].batch = round[c].canonical
    <3>1. request[c].batch = round[c].canonical
      BY <2>2, <2>3 DEF CommitsAwaited
    <3>2. CASE GoesOn(c) \/ IsAdmitted(c)
      BY <3>1, <3>2 DEF GoesOn, IsAdmitted, Critical
    <3>3. CASE IsLeft(c)
      BY <3>1, <3>3 DEF IsLeft, Recorded
    <3> QED
      BY <2>1, <3>2, <3>3
  <2> QED
    BY <1>3, <2>1, <2>3 DEF CommitsAwaited, OthersStay
<1> QED
  BY <1>4, <1>5, <1>6 DEF Next

(* A round that moves on by itself does not wait for a commit.             *)
LEMMA AwaitedLocally ==
  ASSUME RoundInv, CommitsAwaited, NEW c \in Clients, NEW p, p # "committing", Goto(c, p),
         \A d \in Clients \ {c} : round'[d] = round[d], UNCHANGED vars
  PROVE  CommitsAwaited'
<1>1. roundPhase'[c] = p /\ \A d \in Clients \ {c} : roundPhase'[d] = roundPhase[d]
  BY DEF Goto, RoundInv
<1>2. UNCHANGED <<phase, request, returned, receipts>>
  BY DEF vars, ledgerVars
<1> QED
  BY <1>1, <1>2 DEF CommitsAwaited

LEMMA AwaitedFromNowOn ==
  ASSUME RoundInv, CommitsAwaited, NEW c \in Clients, CommitRound(c)
  PROVE  CommitsAwaited'
<1>1. /\ roundPhase'[c] = "committing"
      /\ \A d \in Clients \ {c} : roundPhase'[d] = roundPhase[d]
  BY DEF CommitRound, Goto, RoundInv
<1>2. phase'[c] = "waiting" /\ request'[c].batch = round[c].canonical
  BY DEF CommitRound, Call, RoundInv, TypeOK
<1>3. \A d \in Clients \ {c} : phase'[d] = phase[d] /\ request'[d] = request[d]
  BY DEF CommitRound, Call, RoundInv, TypeOK
<1>4. UNCHANGED <<round, returned, receipts>>
  BY DEF CommitRound, Call, ledgerVars
<1> QED
  BY <1>1, <1>2, <1>3, <1>4 DEF CommitsAwaited

-----------------------------------------------------------------------------
(* The receipts of rounds                                                  *)

AccountedFor(r, rs) ==
  /\ \A p \in r.inputs : Cardinality(CarriersOf(r, p)) = IF p.id \in r.rejected THEN 0 ELSE 1
  /\ r.commit = Raised <=> r.canonical = {}
  /\ r.commit # Raised => rs[r.commit].batch = r.canonical

AllAccounted == \A j \in DOMAIN rounds : AccountedFor(rounds[j], receipts)

LEMMA AccountedLater ==
  ASSUME RoundInv, AllAccounted, [Next]_vars, UNCHANGED rounds
  PROVE  AllAccounted'
<1>1. \A i \in DOMAIN receipts : receipts'[i] = receipts[i]
  BY ReceiptsStay DEF RoundInv
<1>2. \A j \in DOMAIN rounds : rounds[j].commit # Raised => rounds[j].commit \in DOMAIN receipts
  <2>1. DOMAIN receipts = 1..Len(receipts) /\ Len(receipts) \in Nat
    BY DEF RoundInv, TypeOK
  <2> QED
    BY <2>1 DEF RoundInv, Raised
<1> QED
  BY <1>1, <1>2 DEF AllAccounted, AccountedFor

LEMMA CarriedIsCounted ==
  ASSUME NEW r, Carried(r), NEW p \in r.inputs
  PROVE  Cardinality(CarriersOf(r, p)) = IF p.id \in r.rejected THEN 0 ELSE 1
<1>1. CASE p.id \in r.rejected
  <2>1. CarriersOf(r, p) = {} /\ Cardinality({}) = 0
    BY <1>1, FS_EmptySet DEF Carried
  <2> QED
    BY <1>1, <2>1
<1>2. CASE p.id \notin r.rejected
  <2>1. PICK q : CarriersOf(r, p) = {q}
    BY <1>2 DEF Carried
  <2>2. Cardinality({q}) = 1
    BY FS_Singleton
  <2> QED
    BY <1>2, <2>1, <2>2
<1> QED
  BY <1>1, <1>2

LEMMA RecordIsAccounted ==
  ASSUME RoundInv, RoundsKept, CommitsAwaited, AllAccounted, NEW c \in Clients,
         NothingToCommit(c) \/ CommitReturned(c)
  PROVE  AllAccounted'
<1>k. PICK commit \in 0..Len(receipts) :
        /\ RecordRound(c, commit)
        /\ commit = Raised <=> round[c].canonical = {}
        /\ commit # Raised => receipts[commit].batch = round[c].canonical
  <2>1. CASE NothingToCommit(c)
    <3>1. Raised \in 0..Len(receipts)
      BY DEF RoundInv, TypeOK, Raised
    <3> QED
      BY <2>1, <3>1 DEF NothingToCommit
  <2>2. CASE CommitReturned(c)
    <3>1. returned[c] \in 0..Len(receipts)
      BY DEF RoundInv
    <3>2. round[c].canonical # {}
      BY <2>2 DEF CommitReturned, RoundsKept, Traced
    <3>3. receipts[returned[c]].batch = round[c].canonical
      BY <2>2 DEF CommitReturned, CommitsAwaited
    <3> QED
      BY <2>2, <3>1, <3>2, <3>3 DEF CommitReturned
  <2> QED
    BY <2>1, <2>2
<1>p. roundPhase[c] \in {"commit", "committing"}
  BY DEF NothingToCommit, CommitReturned
<1>u. UNCHANGED receipts
  BY <1>k DEF RecordRound, vars, ledgerVars
<1>f. Fits(roundPhase[c], round[c])
  BY DEF RoundInv
<1>o. PICK o : o = Outcome(c, commit)
  OBVIOUS
<1>1. /\ o.inputs = round[c].inputs /\ o.canonical = round[c].canonical
      /\ o.rejected = round[c].rejected /\ o.commit = commit
  BY <1>o DEF Outcome
<1>2. ASSUME Accounts(round[c]) PROVE AccountedFor(o, receipts)
  <2>1. Carried(round[c])
    BY <1>p, <1>2 DEF RoundsKept, Traced
  <2>2. \A p \in o.inputs : CarriersOf(o, p) = CarriersOf(round[c], p)
    BY <1>1 DEF CarriersOf
  <2>3. Carried(o)
    BY <1>1, <2>1, <2>2 DEF Carried
  <2> QED
    BY <1>k, <1>1, <2>3, CarriedIsCounted DEF AccountedFor
<1>3. CASE ~Accounts(round[c])
  BY <1>k, <1>u, <1>3 DEF RecordRound, AllAccounted
<1>4. CASE Accounts(round[c])
  <2>1. rounds' = Append(rounds, o) /\ rounds \in Seq(Outcomes)
    BY <1>k, <1>4, <1>o DEF RecordRound, RoundInv
  <2>2. rounds \in Seq(Outcomes \cup {o})
    BY <2>1
  <2>3. \A j \in DOMAIN rounds' : rounds'[j] = o \/ (j \in DOMAIN rounds /\ rounds'[j] = rounds[j])
    BY <2>1, <2>2
  <2> QED
    BY <1>2, <1>4, <1>u, <2>3 DEF AllAccounted
<1> QED
  BY <1>3, <1>4

-----------------------------------------------------------------------------
(* All of it together                                                      *)

LEMMA CurrentIsKept ==
  ASSUME RoundInv, RoundsKept, NEW c \in Clients, AcceptCurrent(c), PayloadsAreSets
  PROVE  RoundsKept'
<1>1. roundPhase[c] = "decide" /\ AdmitRow(c, Row(c)) /\ UNCHANGED vars
  BY DEF AcceptCurrent
<1>q. PICK q \in round[c].inputs : q = Row(c) /\ q \in Proposal
  BY <1>1, RowIsInput DEF Assessing
<1>2. q \in FreshPackets
  BY DEF RoundsKept, Measured
<1>3. Proper(q, Coming)
  BY <1>2, FreshIsProper
<1>4. IsFrom(q, q)
  BY <1>2 DEF FreshPackets, Fresh, IsFrom
<1> QED
  BY <1>1, <1>q, <1>3, <1>4, AdmitIsKept DEF Assessing

LEMMA AssessIsKept ==
  ASSUME RoundInv, RoundsKept, NEW c \in Clients, Assess(c), MintedIds, PayloadsAreSets
  PROVE  RoundsKept'
<1>1. UNCHANGED vars
  BY DEF Assess, TakeRow, MissingNodeVersion, ReadModelVersion, ReadNodeVersion, RejectRow,
     AcceptCurrent, AskForCorrection, CorrectionFails, CorrectionArrives, AcceptStale, Rebase,
     RebaseFails
<1>2. ASSUME NEW q \in round[c].todo, TakeRow(c, q) PROVE RoundsKept'
  <2>1. q \in round[c].inputs
    BY DEF RoundInv, Fits
  <2> QED
    BY <1>1, <1>2, <2>1, BeginIsKept DEF TakeRow
<1>3. CASE MissingNodeVersion(c) \/ RejectRow(c) \/ CorrectionFails(c) \/ RebaseFails(c)
  BY <1>1, <1>3, RejectIsKept
  DEF MissingNodeVersion, RejectRow, CorrectionFails, RebaseFails, Assessing
<1>4. ASSUME NEW exact \in BOOLEAN, CorrectionArrives(c, exact) PROVE RoundsKept'
  <2>1. roundPhase[c] = "ask"
    BY <1>4 DEF CorrectionArrives
  <2>2. Row(c) \in round[c].inputs /\ round[c].row = {Row(c)}
    BY <2>1, RowIsInput DEF Assessing
  <2>k. PICK k : k = [for |-> round[c].target, exact |-> exact]
    OBVIOUS
  <2>3. {k} \in SUBSET Corrections
    BY <2>k DEF RoundInv, Locals, Corrections
  <2>4. BeginAssessment(c, Row(c), {k})
    BY <1>4, <2>k DEF CorrectionArrives
  <2>5. roundPhase[c] \in Assessing
    BY <2>1 DEF Assessing
  <2> QED
    BY <1>1, <2>2, <2>3, <2>4, <2>5, BeginIsKept
<1> QED
  BY <1>2, <1>3, <1>4, ReadModelIsKept, ReadNodeIsKept, CurrentIsKept, AskIsKept,
     AcceptStaleIsKept, RebaseIsKept
  DEF Assess

(* A step of a round that leaves the coordinator alone does not wait for a *)
(* commit afterwards.                                                      *)
LEMMA AssessIsLocal ==
  ASSUME RoundInv, NEW c \in Clients, Assess(c)
  PROVE  /\ UNCHANGED <<vars, rounds>>
         /\ \E p \in RoundPhases \ {"committing"} : Goto(c, p)
         /\ \A d \in Clients \ {c} : round'[d] = round[d]
<1>0. round \in [Clients -> Locals]
  BY DEF RoundInv
<1>1. ASSUME Reject(c)
      PROVE  Goto(c, "rows") /\ \A d \in Clients \ {c} : round'[d] = round[d]
  BY <1>0, <1>1 DEF Reject
<1>2. ASSUME NEW q, AdmitRow(c, q)
      PROVE  Goto(c, "rows") /\ \A d \in Clients \ {c} : round'[d] = round[d]
  BY <1>0, <1>2 DEF AdmitRow
<1>3. ASSUME NEW q, NEW correction, BeginAssessment(c, q, correction)
      PROVE  Goto(c, "model") /\ \A d \in Clients \ {c} : round'[d] = round[d]
  BY <1>0, <1>3 DEF BeginAssessment
<1>4. CASE ReadModelVersion(c) \/ ReadNodeVersion(c) \/ AskForCorrection(c) \/ AcceptStale(c)
  BY <1>0, <1>4
  DEF ReadModelVersion, ReadNodeVersion, AskForCorrection, AcceptStale, RoundPhases
<1>5. UNCHANGED <<vars, rounds>>
  BY DEF Assess, TakeRow, MissingNodeVersion, ReadModelVersion, ReadNodeVersion, RejectRow,
     AcceptCurrent, AskForCorrection, CorrectionFails, CorrectionArrives, AcceptStale, Rebase,
     RebaseFails
<1>6. /\ \E p \in RoundPhases \ {"committing"} : Goto(c, p)
      /\ \A d \in Clients \ {c} : round'[d] = round[d]
  <2>1. CASE MissingNodeVersion(c) \/ RejectRow(c) \/ CorrectionFails(c) \/ RebaseFails(c)
    BY <1>1, <2>1 DEF MissingNodeVersion, RejectRow, CorrectionFails, RebaseFails, RoundPhases
  <2>2. CASE AcceptCurrent(c) \/ Rebase(c)
    BY <1>2, <2>2 DEF AcceptCurrent, Rebase, RoundPhases
  <2>3. CASE \/ \E q \in round[c].todo : TakeRow(c, q)
             \/ \E exact \in BOOLEAN : CorrectionArrives(c, exact)
    BY <1>3, <2>3 DEF TakeRow, CorrectionArrives, RoundPhases
  <2> QED
    BY <1>4, <2>1, <2>2, <2>3 DEF Assess
<1> QED
  BY <1>5, <1>6

(* A step of the coordinator, while the rounds stay where they are.        *)
LEMMA CoordinatorIsKept ==
  ASSUME RoundInv, Mutex, AdmissionInvariant, [Next]_vars, UNCHANGED round,
         \A c \in Clients :
           /\ Measured(roundPhase'[c], round[c], modelVersion, nodeVersion, Coming)
           /\ Traced(roundPhase'[c], round[c])
  PROVE  RoundsKept'
<1>1. TypeOK /\ VersionsGrow
  BY VersionsGrowNext DEF RoundInv
<1>2. modelVersion' \in Nat /\ nodeVersion' \in [Nodes -> Nat]
  BY <1>1, TypeStep DEF TypeOK
<1>3. Coming' \in [Nodes -> Nat]
  <2>1. Coming' = [n \in Nodes |-> IF Announced(n)' THEN nodeVersion'[n] + 1 ELSE nodeVersion'[n]]
    BY DEF Coming
  <2>2. ASSUME NEW n \in Nodes PROVE Coming'[n] \in Nat
    <3>1. nodeVersion'[n] \in Nat
          /\ (Coming'[n] = nodeVersion'[n] + 1 \/ Coming'[n] = nodeVersion'[n])
      BY <1>2, <2>1
    <3> QED
      BY <3>1
  <2> QED
    BY <2>1, <2>2
<1>4. modelVersion \in Nat /\ nodeVersion \in [Nodes -> Nat] /\ Coming \in [Nodes -> Nat]
  BY <1>1, ComingType DEF TypeOK
<1>5. ASSUME NEW c \in Clients
      PROVE  Measured(roundPhase'[c], round[c], modelVersion', nodeVersion', Coming')
  <2>1. round[c] \in Locals
    BY DEF RoundInv
  <2> QED
    BY <1>1, <1>2, <1>3, <1>4, <2>1, MeasuredLater DEF VersionsGrow
<1> QED
  BY <1>5 DEF RoundsKept

(* What holds of every system whose callers hand in fresh packets.         *)
FreshInv ==
  /\ RoundInv
  /\ Mutex
  /\ AdmissionInvariant
  /\ Delivered
  /\ RoundsKept
  /\ CommitsAwaited
  /\ AllAccounted

LEMMA FreshStep ==
  ASSUME FreshInv, [RoundNext(FreshPackets)]_allVars, MintedIds, PayloadsAreSets
  PROVE  FreshInv'
<1>i. /\ RoundInv /\ Mutex /\ AdmissionInvariant /\ Delivered /\ RoundsKept /\ CommitsAwaited
      /\ AllAccounted /\ TypeOK
  BY DEF FreshInv, RoundInv
<1>p. FreshPackets \subseteq Proposal
  BY DEF FreshPackets
<1>n. [RoundNext(Proposal)]_allVars
  BY <1>p DEF RoundNext
<1>r. RoundInv' /\ [Next]_vars
  BY <1>i, <1>n, RoundNextStep
<1>m. Mutex' /\ AdmissionInvariant'
  BY <1>i, <1>r, MutexStep, AdmissionStep
<1> DEFINE Rest == Delivered /\ RoundsKept /\ CommitsAwaited /\ AllAccounted
<1>1. ASSUME UNCHANGED vars, RoundsKept', CommitsAwaited', AllAccounted' PROVE Rest'
  <2>1. UNCHANGED phase
    BY <1>1 DEF vars
  <2>2. Delivered'
    BY <1>i, <1>r, <2>1, DeliveredStep
  <2> QED
    BY <1>1, <2>2
<1>2. ASSUME UNCHANGED <<vars, rounds>>, RoundsKept', CommitsAwaited' PROVE Rest'
  BY <1>1, <1>2, <1>i, <1>r, AccountedLater
<1>3. ASSUME UNCHANGED <<round, rounds>>, CommitsAwaited',
             \A c \in Clients : phase[c] = "idle" /\ phase'[c] = "waiting" =>
               \A q \in request'[c].batch : Proper(q, Coming),
             \A c \in Clients :
               /\ Measured(roundPhase'[c], round[c], modelVersion, nodeVersion, Coming)
               /\ Traced(roundPhase'[c], round[c])
      PROVE  Rest'
  <2>1. Delivered'
    BY <1>i, <1>r, <1>3, DeliveredStep
  <2>2. RoundsKept'
    BY <1>i, <1>r, <1>3, CoordinatorIsKept
  <2> QED
    BY <1>3, <1>i, <1>r, <2>1, <2>2, AccountedLater
<1>4. ASSUME UNCHANGED roundVars,
             \A c \in Clients : phase[c] = "idle" /\ phase'[c] # "idle" =>
               roundPhase[c] = "idle" /\ \A q \in request'[c].batch : Proper(q, Coming)
      PROVE  Rest'
  <2>1. UNCHANGED roundPhase /\ UNCHANGED round /\ UNCHANGED rounds
    BY <1>4 DEF roundVars
  <2>2. CommitsAwaited'
    BY <1>4, <1>i, <1>r, <2>1, AwaitedStep
  <2>3. \A c \in Clients :
          /\ Measured(roundPhase'[c], round[c], modelVersion, nodeVersion, Coming)
          /\ Traced(roundPhase'[c], round[c])
    BY <1>i, <2>1 DEF RoundsKept
  <2> QED
    BY <1>3, <1>4, <2>1, <2>2, <2>3
<1>5. ASSUME UNCHANGED allVars PROVE Rest'
  <2>1. UNCHANGED vars /\ UNCHANGED roundVars
    BY <1>5 DEF allVars
  <2>2. UNCHANGED phase
    BY <2>1 DEF vars
  <2> QED
    BY <1>4, <2>1, <2>2
<1>6. ASSUME NEW c \in Clients, NEW rows \in SUBSET FreshPackets, StartRound(c, rows)
      PROVE  Rest'
  <2>1. UNCHANGED <<vars, rounds>> /\ Goto(c, "rows")
    BY <1>6 DEF StartRound
  <2>2. \A d \in Clients \ {c} : round'[d] = round[d]
    BY <1>6, <1>i DEF StartRound, RoundInv
  <2>3. CommitsAwaited'
    BY <1>i, <2>1, <2>2, AwaitedLocally
  <2> QED
    BY <1>2, <1>6, <1>i, <2>1, <2>3, StartIsKept
<1>7. ASSUME NEW c \in Clients, NEW batch \in SUBSET FreshPackets, NEW id,
             DirectCall(c, batch, id)
      PROVE  Rest'
  <2>1. /\ roundPhase[c] = "idle" /\ request'[c].batch = batch
        /\ \A d \in Clients \ {c} : phase'[d] = phase[d]
    BY <1>7, <1>i DEF DirectCall, Call, TypeOK
  <2>2. \A q \in batch : Proper(q, Coming)
    BY FreshIsProper
  <2> QED
    BY <1>4, <1>7, <2>1, <2>2 DEF DirectCall
<1>8. ASSUME NEW c \in Clients, Step(c, Nat), UNCHANGED roundVars PROVE Rest'
  <2>1. OthersStay(c) /\ (GoesOn(c) \/ IsAdmitted(c) \/ IsLeft(c))
    BY <1>8, <1>i, CommitStep
  <2>2. phase[c] # "idle" /\ \A d \in Clients \ {c} : phase'[d] = phase[d]
    BY <2>1 DEF GoesOn, IsAdmitted, IsLeft, Critical, OthersStay
  <2> QED
    BY <1>4, <1>8, <2>2
<1>9. ASSUME NEW c \in Clients, Assess(c) PROVE Rest'
  <2>1. /\ UNCHANGED <<vars, rounds>>
        /\ \E p \in RoundPhases \ {"committing"} : Goto(c, p)
        /\ \A d \in Clients \ {c} : round'[d] = round[d]
    BY <1>9, <1>i, AssessIsLocal
  <2>2. CommitsAwaited'
    BY <1>i, <2>1, AwaitedLocally
  <2> QED
    BY <1>2, <1>9, <1>i, <2>1, <2>2, AssessIsKept
<1>10. ASSUME NEW c \in Clients, NEW failing \in SUBSET Groups(c), Group(c, failing) PROVE Rest'
  <2>1. UNCHANGED <<vars, rounds>> /\ Goto(c, "commit")
    BY <1>10 DEF Group
  <2>2. \A d \in Clients \ {c} : round'[d] = round[d]
    BY <1>10, <1>i DEF Group, RoundInv
  <2>3. CommitsAwaited'
    BY <1>i, <2>1, <2>2, AwaitedLocally
  <2> QED
    BY <1>2, <1>10, <1>i, <2>1, <2>3, GroupIsKept
<1>11. ASSUME NEW c \in Clients, EndRound(c), UNCHANGED vars
       PROVE  RoundsKept' /\ CommitsAwaited'
  <2>1. Goto(c, "idle") /\ \A d \in Clients \ {c} : round'[d] = round[d]
    BY <1>11, <1>i DEF EndRound, RoundInv
  <2>2. CommitsAwaited'
    BY <1>11, <1>i, <2>1, AwaitedLocally
  <2> QED
    BY <1>11, <1>i, <2>2, EndIsKept
<1>12. ASSUME NEW c \in Clients,
              RebaseOverflows(c) \/ MergeOverflows(c) \/ MixedBases(c) \/ CommitRaised(c)
       PROVE  Rest'
  BY <1>2, <1>11, <1>12 DEF RebaseOverflows, MergeOverflows, MixedBases, CommitRaised
<1>13. ASSUME NEW c \in Clients, NothingToCommit(c) \/ CommitReturned(c) PROVE Rest'
  <2>1. EndRound(c) /\ UNCHANGED vars
    BY <1>13 DEF NothingToCommit, CommitReturned, RecordRound
  <2>2. AllAccounted'
    BY <1>13, <1>i, RecordIsAccounted
  <2> QED
    BY <1>1, <1>11, <2>1, <2>2
<1>14. ASSUME NEW c \in Clients, CommitRound(c) PROVE Rest'
  <2>1. /\ roundPhase[c] = "commit" /\ IsBatch(round[c].canonical)
        /\ UNCHANGED <<round, rounds>>
    BY <1>14 DEF CommitRound, Call
  <2>2. /\ roundPhase'[c] = "committing"
        /\ \A d \in Clients \ {c} : roundPhase'[d] = roundPhase[d]
    BY <1>14, <1>i DEF CommitRound, Goto, RoundInv
  <2>3. /\ request'[c].batch = round[c].canonical
        /\ \A d \in Clients \ {c} : phase'[d] = phase[d]
    BY <1>14, <1>i DEF CommitRound, Call, TypeOK
  <2>4. /\ Measured("commit", round[c], modelVersion, nodeVersion, Coming)
        /\ Traced("commit", round[c])
    BY <1>i, <2>1 DEF RoundsKept
  <2>5. \A q \in round[c].canonical : Proper(q, Coming)
    BY <2>4 DEF Measured
  <2>6. /\ Measured("committing", round[c], modelVersion, nodeVersion, Coming)
        /\ Traced("committing", round[c])
    BY <2>1, <2>4 DEF Measured, Traced, Assessing, IsBatch
  <2>7. CommitsAwaited'
    BY <1>14, <1>i, AwaitedFromNowOn
  <2> QED
    BY <1>3, <1>i, <2>1, <2>2, <2>3, <2>5, <2>6, <2>7 DEF RoundsKept
<1>15. ASSUME RoundNext(FreshPackets) PROVE Rest'
  <2> HIDE DEF Rest
  <2>1. PICK c \in Clients :
          \/ \E rows \in SUBSET FreshPackets : StartRound(c, rows)
          \/ \E batch \in SUBSET FreshPackets, id \in Nat \cup {NoId} : DirectCall(c, batch, id)
          \/ RoundStep(c, Nat)
    BY <1>15 DEF RoundNext
  <2>2. ASSUME RoundStep(c, Nat) PROVE Rest'
    BY <1>8, <1>9, <1>10, <1>12, <1>13, <1>14, <2>2 DEF RoundStep, Conclude
  <2> QED
    BY <1>6, <1>7, <2>1, <2>2
<1> QED
  BY <1>r, <1>m, <1>5, <1>15 DEF FreshInv

LEMMA FreshStart == RoundInit => FreshInv
<1> SUFFICES ASSUME RoundInit PROVE FreshInv
  OBVIOUS
<1>1. RoundInv /\ Init
  BY RoundStart
<1>2. /\ \A c \in Clients : phase[c] = "idle" /\ roundPhase[c] = "idle" /\ round[c] = NoRound
      /\ lock = NoClient
  BY <1>1 DEF RoundInit, Init
<1>3. Accepted = {} /\ DOMAIN rounds = {}
  BY <1>1 DEF RoundInit, Init, Accepted
<1>4. Mutex /\ AdmissionInvariant
  BY <1>2 DEF Mutex, AdmissionInvariant, Critical
<1>5. Delivered
  BY <1>2, <1>3 DEF Delivered, Critical
<1>6. RoundsKept
  BY <1>2, NoRoundIsKept DEF RoundsKept
<1>7. CommitsAwaited /\ AllAccounted
  BY <1>2, <1>3 DEF CommitsAwaited, AllAccounted
<1> QED
  BY <1>1, <1>4, <1>5, <1>6, <1>7 DEF FreshInv

LEMMA FreshCorrect ==
  ASSUME MintedIds, PayloadsAreSets
  PROVE  FreshSpec => []FreshInv /\ RoundSpec
<1>1. RoundInit => FreshInv
  BY FreshStart
<1>2. FreshInv /\ [RoundNext(FreshPackets)]_allVars => FreshInv'
  BY FreshStep
<1>3. [RoundNext(FreshPackets)]_allVars => [RoundNext(Proposal)]_allVars
  <2>1. FreshPackets \subseteq Proposal
    BY DEF FreshPackets
  <2> QED
    BY <2>1 DEF RoundNext
<1> QED
  BY <1>1, <1>2, <1>3, PTL DEF FreshSpec, RoundSpec

(* What an accepted packet says is true of the versions it was applied to. *)
LEMMA AcceptedIsSound ==
  ASSUME FreshInv, NEW i \in Accepted, NEW q \in receipts[i].batch, NEW part \in q.payload
  PROVE  /\ receipts[i].before \in Vector /\ q.node \in Nodes
         /\ SoundAt(part, q.node, receipts[i].before)
<1>1. receipts[i] \in Receipt
  BY DEF FreshInv, RoundInv, TypeOK, Accepted
<1>2. receipts[i].before \in Vector /\ q.node \in Nodes
  BY <1>1 DEF Receipt, Proposal
<1>3. SoundPacket(q, receipts[i].before)
  BY DEF FreshInv, Delivered, InOrder
<1> QED
  BY <1>2, <1>3 DEF SoundPacket

(* Discounts and corrections are exact: they are for the very vector that  *)
(* the packet is applied to, although submit() reads the versions one by   *)
(* one without the lock: a packet measured while others commit declares a  *)
(* vector that no commit will start from.                                  *)
THEOREM DiscountsAreExact ==
  ASSUME MintedIds, PayloadsAreSets
  PROVE  FreshSpec => []AppliedAtMeasuredLag
<1>1. FreshInv => AppliedAtMeasuredLag
  <2> SUFFICES ASSUME FreshInv, NEW i \in Accepted, NEW q \in receipts[i].batch,
                      NEW part \in q.payload
               PROVE  /\ part.semantics # "exact_rebase" =>
                           part.discount = ModelLag(i, part) + NodeLag(i, q, part)
                      /\ part.correctedFor \subseteq {receipts[i].before}
    BY DEF AppliedAtMeasuredLag
  <2> QED
    BY AcceptedIsSound DEF SoundAt, ModelLag, NodeLag
<1> QED
  BY <1>1, FreshCorrect, PTL

(* The staleness policy of a node holds of what is applied to it, as of    *)
(* the commit and not only as of the assessment.                           *)
THEOREM PolicyHoldsAtCommit ==
  ASSUME MintedIds, PayloadsAreSets
  PROVE  FreshSpec => []StaleWithinPolicy
<1>1. FreshInv => StaleWithinPolicy
  <2> SUFFICES ASSUME FreshInv, NEW i \in Accepted, NEW q \in receipts[i].batch,
                      NEW part \in q.payload,
                      ModelLag(i, part) > 0 \/ NodeLag(i, q, part) > 0
               PROVE  /\ Consistency[q.node] # "strict"
                      /\ ModelLag(i, part) <= MaxModelLag[q.node]
                      /\ NodeLag(i, q, part) <= MaxNodeLag[q.node]
                      /\ Consistency[q.node] = "corrected" => part.correctedFor # {}
    BY DEF StaleWithinPolicy
  <2> QED
    BY AcceptedIsSound DEF SoundAt, ModelLag, NodeLag
<1> QED
  BY <1>1, FreshCorrect, PTL

(* Accepted receipts that start from the same model version are the same:  *)
(* every accepted one before counts.                                       *)
LEMMA SameModelVersion ==
  ASSUME TypeOK, CountInvariant, NEW i \in Accepted, NEW j \in Accepted,
         NEW p \in receipts[i].batch, NEW q \in receipts[j].batch, p.base = q.base
  PROVE  i = j
<1>1. /\ IsFiniteSet(Accepted) /\ InitialVersions.model \in Nat
      /\ \A k \in Accepted : k \in Nat
  BY AcceptedFinite DEF TypeOK, Accepted
<1>2. \A k : Before(Accepted, k) \in SUBSET Accepted
  BY DEF Before
<1>3. \A k : IsFiniteSet(Before(Accepted, k)) /\ Cardinality(Before(Accepted, k)) \in Nat
  BY <1>1, <1>2, FS_Subset, FS_CardinalityType
<1>4. /\ p.base = InitialVersions.model + Cardinality(Before(Accepted, i))
      /\ q.base = InitialVersions.model + Cardinality(Before(Accepted, j))
  BY DEF CountInvariant, ComputedFrom, CountOf
<1>5. Cardinality(Before(Accepted, i)) = Cardinality(Before(Accepted, j))
  <2>1. PICK m \in Nat : m = Cardinality(Before(Accepted, i))
    BY <1>3
  <2>2. PICK n \in Nat : n = Cardinality(Before(Accepted, j))
    BY <1>3
  <2>3. InitialVersions.model + m = InitialVersions.model + n
    BY <1>4, <2>1, <2>2
  <2>4. m = n
    BY <1>1, <2>3
  <2> QED
    BY <2>1, <2>2, <2>4
<1>6. ASSUME NEW k \in Accepted, NEW l \in Accepted, k < l,
             Cardinality(Before(Accepted, k)) = Cardinality(Before(Accepted, l))
      PROVE  FALSE
  <2>1. k \in Nat /\ l \in Nat
    BY <1>1
  <2>2. Before(Accepted, k) \in SUBSET Before(Accepted, l)
    <3> SUFFICES ASSUME NEW m \in Accepted, m < k PROVE m < l
      BY DEF Before
    <3>1. m \in Nat
      BY <1>1
    <3> QED
      BY <1>6, <2>1, <3>1
  <2>3. k \in Before(Accepted, l) /\ k \notin Before(Accepted, k)
    BY <1>6, <2>1 DEF Before
  <2> HIDE DEF Before
  <2> QED
    BY <1>3, <1>6, <2>2, <2>3, FS_Subset
<1>7. i \in Nat /\ j \in Nat
  BY <1>1
<1> QED
  BY <1>5, <1>6, <1>7

(* A strict node learns from no data twice at one model version, however   *)
(* rounds, resubmissions and direct commits are interleaved.               *)
THEOREM StrictNodesCountDataOnce ==
  ASSUME MintedIds, PayloadsAreSets
  PROVE  FreshSpec => []StrictDataOnce
<1>1. FreshInv /\ CountInvariant => StrictDataOnce
  <2> SUFFICES ASSUME FreshInv, CountInvariant, NEW i \in Accepted, NEW j \in Accepted,
                      NEW p \in receipts[i].batch, NEW q \in receipts[j].batch,
                      NEW a \in p.payload, NEW b \in q.payload,
                      p.node = q.node, Consistency[p.node] = "strict",
                      a.data = b.data, a.base = b.base
               PROVE  i = j /\ p = q /\ a = b
    BY DEF StrictDataOnce
  <2>1. ASSUME NEW k \in Accepted, NEW s \in receipts[k].batch, NEW part \in s.payload,
               Consistency[s.node] = "strict"
        PROVE  part.base = s.base
    <3>1. /\ receipts[k].before.model \in Nat
          /\ SoundAt(part, s.node, receipts[k].before)
      BY AcceptedIsSound DEF Vector
    <3>2. s.base = receipts[k].before.model
      BY DEF FreshInv, Delivered, InOrder
    <3> QED
      BY <2>1, <3>1, <3>2 DEF SoundAt
  <2>2. p.base = q.base
    BY <2>1
  <2>3. i = j
    BY <2>2, SameModelVersion DEF FreshInv, RoundInv
  <2>4. IsBatch(receipts[i].batch) /\ ~HasConflict(receipts[i].batch) /\ Distinct(p)
    BY DEF FreshInv, Delivered, InOrder
  <2>5. p = q
    BY <2>3, <2>4 DEF IsBatch, HasConflict, Conflicting
  <2> QED
    BY <2>3, <2>4, <2>5 DEF Distinct
<1> QED
  BY <1>1, FreshCorrect, RoundsAreCommits, CountCorrect, PTL

(* Nothing is lost and nothing is counted twice between submit() and its   *)
(* receipt, and the receipt names the commit of this round.                *)
THEOREM ReceiptsAccountForInputs ==
  ASSUME MintedIds, PayloadsAreSets
  PROVE  FreshSpec => []RoundsAccounted
<1>1. AllAccounted => RoundsAccounted
  BY DEF AllAccounted, AccountedFor, CarriersOf, RoundsAccounted
<1>2. FreshInv => AllAccounted
  BY DEF FreshInv
<1> QED
  BY <1>1, <1>2, FreshCorrect, PTL

=============================================================================
