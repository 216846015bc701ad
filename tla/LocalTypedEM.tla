---------------------------- MODULE LocalTypedEM ----------------------------
(***************************************************************************)
(* run_typed_mixture_em of typed_runtime/local.py on top of the scheduler: *)
(* each round it offers what it knows of the gain of each component,       *)
(* updates the selected ones, keeps the candidate if the objective did not *)
(* fall, and reports the outcome.  The components are the Nodes.  A gain   *)
(* is what the objective rose by, a whole number.                          *)
(***************************************************************************)
EXTENDS GainPerCostScheduler

CONSTANTS
  Root,           \* the node of the mixture weights, updated in every round
  Gains,          \* bound: what the objective may rise by in one round
  MaxIts,         \* max_its
  Delta,          \* delta, 0 for None
  StallPatience   \* stall_patience

ASSUME LocalAssumption ==
  /\ Root \notin Nodes
  /\ Nodes # {}
  /\ Gains \subseteq Nat
  /\ MaxIts \in Nat \ {0} /\ StallPatience \in Nat \ {0} /\ Delta \in Nat

VARIABLES
  phase,        \* where the run is: before schedule(), before the outcome, ...
  its,          \* round_index
  modelVersion, \* model_version
  gainStats,    \* gain_stats
  stall,        \* stall_streak
  generations,  \* of the artifact cache
  waited,       \* history: rounds since each component was last selected
  tried,        \* history: the components selected in the current stall
  guided,       \* history: a gain provider spoke in this run
  failed        \* history: a candidate was rejected in this run

localVars ==
  <<phase, its, modelVersion, gainStats, stall, generations, waited, tried, guided, failed>>

Phases == {"off", "schedule", "update", "done", "lost"}

Stats == [count : Nat, gain : Nat, version : Nat]
NoStats == [count |-> 0, gain |-> 0, version |-> 0]

-----------------------------------------------------------------------------
(* The default budget                                                      *)

(* The remainder of a * 2^k by t.                                          *)
Remainder(a, t, k) ==
  LET rem[i \in 0..k] == IF i = 0 THEN a % t ELSE (2 * rem[i - 1]) % t IN rem[k]

(* Whether (a / t) * t is less than a in IEEE doubles, for whole numbers   *)
(* 0 < a <= t.  The quotient, normalized by e, has 53 bits.  If it was     *)
(* rounded down, the product misses a by rest / 2^(e + 52), and the double *)
(* before a is nearer as soon as this is more than half of the gap.        *)
RoundsDown(a, t) ==
  LET e == Min({k \in 0..12 : a * 2^k >= t})
      rest == Remainder(a, t, e + 52)
      bits == Min({k \in 1..13 : a < 2^k})
      halfGap == 2^(e + bits) \div (IF a = 2^(bits - 1) THEN 8 ELSE 4)
  IN 2 * rest < t /\ rest > halfGap

(* The share of the total cost that a node of cost c is given.  schedule() *)
(* multiplies it by the total again; what is lost then is less than one    *)
(* unit of cost, here half of one.                                         *)
ShareOf(c) ==
  LET total == FoldFunction(+, 0, BaseCost)
  IN IF RoundsDown(c, total) THEN <<2 * c - 1, 2 * total>> ELSE <<c, total>>

(* one_node_budget: the share of the dearest component.                    *)
OneNodeShare == ShareOf(Max({BaseCost[n] : n \in Nodes}))

-----------------------------------------------------------------------------
(* Gain evidence                                                           *)

(* The lower confidence bound of a running gain, with half of a standard   *)
(* error, in units of 1/24.  At most its first sample is positive: a round *)
(* with a gain was accepted, and starts the samples of a new version.      *)
LowerBound(s) == IF s.count = 1 THEN 18 * s.gain ELSE (12 * s.gain) \div s.count

(* The offers of a round; those of the gain provider replace the others,   *)
(* and current evidence of another objective takes its component out.      *)
LocalOffers(provided) ==
  [n \in Nodes \ provided.foreign |->
     IF n \in DOMAIN provided.rows THEN provided.rows[n]
     ELSE IF gainStats[n].count = 0 THEN Unmeasured
     ELSE [gain |-> LowerBound(gainStats[n]), version |-> gainStats[n].version,
           sampled |-> TRUE, risk |-> 0]]

(* _RunningGain.update: samples of another model version are dropped.      *)
Updated(s, gain, version) ==
  IF s.version # version THEN [count |-> 1, gain |-> gain, version |-> version]
  ELSE [s EXCEPT !.count = @ + 1, !.gain = @ + gain]

-----------------------------------------------------------------------------
(* The run                                                                 *)

Cleared ==
  /\ its' = 0
  /\ modelVersion' = 0
  /\ gainStats' = [n \in Nodes |-> NoStats]
  /\ stall' = 0
  /\ generations' = [n \in Nodes \cup {Root} |-> 0]
  /\ waited' = [n \in Nodes |-> 0]
  /\ tried' = {}
  /\ guided' = FALSE
  /\ failed' = FALSE

LocalInit ==
  /\ phase = "off"
  /\ its = 0
  /\ modelVersion = 0
  /\ gainStats = [n \in Nodes |-> NoStats]
  /\ stall = 0
  /\ generations = [n \in Nodes \cup {Root} |-> 0]
  /\ waited = [n \in Nodes |-> 0]
  /\ tried = {}
  /\ guided = FALSE
  /\ failed = FALSE

(* run_typed_mixture_em is called with a scheduler that is new or was      *)
(* reset; with any other its first schedule() raises and changes nothing.  *)
Begin ==
  /\ phase = "off"
  /\ pending = {} /\ nextRound = 0
  /\ phase' = "schedule"
  /\ UNCHANGED <<schedulerVars, its, modelVersion, gainStats, stall, generations,
                 waited, tried, guided, failed>>

Silent(provided) == DOMAIN provided.rows = {} /\ provided.foreign = {}

(* The evidence is gathered and the round scheduled.                       *)
ScheduleRound(provided) ==
  /\ phase = "schedule"
  /\ Schedule(LocalOffers(provided), modelVersion, its)
  /\ phase' = "update"
  /\ guided' = (guided \/ ~Silent(provided))
  /\ UNCHANGED <<its, modelVersion, gainStats, stall, generations, waited, tried, failed>>

(* The gain provider raises.                                               *)
ProviderRaises ==
  /\ phase = "schedule"
  /\ phase' = "off"
  /\ Cleared
  /\ UNCHANGED schedulerVars

(* Scoring or the M-step raises: the schedule stays pending, and nobody    *)
(* has the receipt that would complete it.                                 *)
StepRaises ==
  /\ phase = "update"
  /\ phase' = "lost"
  /\ Cleared
  /\ UNCHANGED schedulerVars

(* Mutant: the update of the mixture weights is not announced.             *)
MutWritten(s, accepted) == IF accepted THEN s.selected ELSE {}

(* The nodes of the graph that an accepted round replaces.  The compiler   *)
(* draws an edge from each node to its parents only, so that their closure *)
(* under invalidated_by adds nothing to them among the components and the  *)
(* root, unless one component is part of another one.                      *)
Written(s, accepted) == IF accepted THEN s.selected \cup {Root} ELSE {}

(* Mutant: a round that gains enough does not end the stall.               *)
MutStallAfter(gain) == IF gain < Delta THEN stall + 1 ELSE stall

StallAfter(gain) == IF gain < Delta THEN stall + 1 ELSE 0

(* The rest of a round: the candidate is kept and what it replaced is      *)
(* invalidated, or it is dropped; the gain is shared among the selected    *)
(* components, the outcome recorded, and the run goes on or stops.         *)
FinishRound(accepted, gain) ==
  \E s \in pending :
    LET committed == IF accepted THEN s.selected ELSE {}
        share == gain \div Cardinality(s.selected)
    IN /\ phase = "update"
       /\ accepted \/ gain = 0
       /\ RecordTerminal(committed)
       /\ modelVersion' = modelVersion + IF accepted THEN 1 ELSE 0
       /\ generations' = [n \in DOMAIN generations |->
                            generations[n] + IF n \in Written(s, accepted) THEN 1 ELSE 0]
       /\ gainStats' = [n \in Nodes |-> IF n \in s.selected
                                        THEN Updated(gainStats[n], share, modelVersion')
                                        ELSE gainStats[n]]
       /\ waited' = [n \in Nodes |-> IF n \in s.selected THEN 0 ELSE waited[n] + 1]
       /\ stall' = StallAfter(gain)
       /\ tried' = IF gain < Delta THEN tried \cup s.selected ELSE {}
       /\ its' = its + 1
       /\ phase' = IF stall' >= StallPatience \/ its' = MaxIts THEN "done" ELSE "schedule"
       /\ failed' = (failed \/ ~accepted)
       /\ UNCHANGED guided

(* The caller gets the run, and the scheduler back.                        *)
Return ==
  /\ phase = "done"
  /\ phase' = "off"
  /\ Cleared
  /\ UNCHANGED schedulerVars

(* reset() by the caller, also of a scheduler that a failed run left.      *)
ResetBetweenRuns ==
  /\ phase \in {"off", "lost"}
  /\ Reset
  /\ phase' = "off"
  /\ UNCHANGED <<its, modelVersion, gainStats, stall, generations, waited, tried, guided, failed>>

LocalNext(Provided) ==
  \/ Begin
  \/ \E provided \in Provided : ScheduleRound(provided)
  \/ \E accepted \in BOOLEAN, gain \in Gains : FinishRound(accepted, gain)
  \/ ProviderRaises
  \/ StepRaises
  \/ Return
  \/ ResetBetweenRuns

(* The scheduler used directly, between the runs.                          *)
Directly(Step) == phase = "off" /\ UNCHANGED localVars /\ Step

(* What a gain provider may say: any evidence about any of the components, *)
(* of the objective of the run or of another one.                          *)
Provisions == [rows : UNION {[E -> Evidence] : E \in SUBSET Nodes}, foreign : SUBSET Nodes]

(* The driver and, between its runs, the scheduler by itself.              *)
LocalSpec ==
  /\ SchedulerInit /\ LocalInit
  /\ [][Directly(SchedulerNext) \/ LocalNext(Provisions)]_<<schedulerVars, localVars>>

-----------------------------------------------------------------------------
(* properties                                                              *)

(* Type correctness: the cache's generation of the mixture weights is the  *)
(* model version, and a pending schedule belongs to the round of the run.  *)
LocalTypeOK ==
  /\ phase \in Phases
  /\ its \in 0..MaxIts /\ modelVersion \in 0..its
  /\ gainStats \in [Nodes -> Stats]
  /\ \A n \in Nodes : gainStats[n].version <= modelVersion
  /\ stall \in 0..StallPatience
  /\ generations \in [Nodes \cup {Root} -> 0..modelVersion]
  /\ generations[Root] = modelVersion
  /\ waited \in [Nodes -> Nat] /\ tried \subseteq Nodes /\ guided \in BOOLEAN /\ failed \in BOOLEAN
  /\ phase \in {"schedule", "done"} => pending = {}
  /\ phase = "update" => \E s \in pending : s.round = its

(* The run is left to its own evidence, and no candidate was rejected: a   *)
(* component that fails in every turn can hold up another for ever, since  *)
(* each accepted round outdates its evidence and it is the first of the    *)
(* starved ones to be explored again.                                      *)
Orderly == ~guided /\ ~failed

(* Every component gets its turn: the run selects each component within    *)
(* max_skip_rounds and one round for each of the others, although in each  *)
(* round most evidence is outdated.                                        *)
TurnsComeRound ==
  Orderly => \A n \in Nodes : waited[n] <= MaxSkipRounds + Cardinality(Nodes) - 1

(* A run that stops because nothing gained any more, with a patience that  *)
(* covers a turn of every component, has tried each of them in vain since  *)
(* the last gain.                                                          *)
StallsAfterTryingAll ==
  /\ phase = "done" /\ stall >= StallPatience /\ Orderly
  /\ StallPatience >= MaxSkipRounds + Cardinality(Nodes)
  => tried = Nodes

=============================================================================
