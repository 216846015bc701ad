----------------------- MODULE MCGainPerCostScheduler -----------------------
(***************************************************************************)
(* TLC instance of GainPerCostScheduler, used directly and by LocalTypedEM.*)
(* The versions of the evidence offered directly are relative: it was      *)
(* measured at the current version (0) or at another one (1).              *)
(***************************************************************************)
EXTENDS LocalTypedEM, TLC

CONSTANTS
  Unit,             \* cost of the nodes
  Dearer,           \* the nodes that cost one more
  Rows,             \* the evidence offered for a node
  MaxRounds,        \* bound: rounds that are scheduled
  DisturbedRounds,  \* the same, once a round did not give every node its chance
  GuidedRounds      \* bound: rounds of a run in which a gain provider speaks

MCEdges == {}
MCBaseCost == [n \in Nodes |-> IF n \in Dearer THEN Unit + 1 ELSE Unit]
UnevenCost == [n \in Nodes |-> IF n \in Dearer THEN 15 ELSE 7]
MCPath == [n \in Nodes |-> Cardinality({m \in Nodes : m < n})]

(* Measured now, measured at another version, drawn but not sampled, none. *)
AllRows ==
  [gain : {-1, 1, 3}, version : {0}, sampled : {TRUE}, risk : {0}]
  \cup [gain : {3}, version : {0}, sampled : {TRUE}, risk : {2}]
  \cup [gain : {3}, version : {1}, sampled : {TRUE}, risk : {0}]
  \cup [gain : {1}, version : {0}, sampled : {FALSE}, risk : {0}]
  \cup {Unmeasured}

(* The budget that run_typed_mixture_em gives the scheduler.               *)
DefaultShare == OneNodeShare

MCOffers == UNION {[E -> Rows] : E \in SUBSET Nodes}

Bound == IF undisturbed THEN MaxRounds ELSE DisturbedRounds

(* The scheduler used directly.  The caller numbers the rounds itself, and *)
(* the first may not be round 0.                                           *)
DirectNext ==
  Directly(\/ \E offers \in MCOffers, round \in {nextRound, 1} :
                 nextRound < Bound /\ Schedule(offers, 0, round)
           \/ \E committed \in SUBSET Nodes : RecordTerminal(committed))

(* What a gain provider may say of a node: gains measured now or before.   *)
ProvidedRows ==
  [gain : {-1, 100}, version : {0, modelVersion}, sampled : {TRUE}, risk : {0}]

(* It may speak in the first rounds of a run, of one node at a time.       *)
NoRows == [n \in {} |-> Unmeasured]
MCProvided ==
  IF its < GuidedRounds
  THEN [rows : UNION {[{n} -> ProvidedRows] : n \in Nodes}, foreign : {{}}]
       \cup [rows : {NoRows}, foreign : {F \in SUBSET Nodes : Cardinality(F) <= 1}]
  ELSE {[rows |-> NoRows, foreign |-> {}]}

MCNext == DirectNext \/ LocalNext(MCProvided)

MCInit == SchedulerInit /\ LocalInit

MCSpec == MCInit /\ [][MCNext]_<<schedulerVars, localVars>>

=============================================================================
