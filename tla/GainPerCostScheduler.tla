------------------------ MODULE GainPerCostScheduler ------------------------
(***************************************************************************)
(* GainPerCostScheduler of typed_runtime/scheduler.py: each round it ranks *)
(* the eligible nodes, takes what fits the budget in that order, and waits *)
(* for the terminal outcomes of what it took before it moves the fairness  *)
(* clocks.  Gains and costs are whole numbers; a cost already includes the *)
(* weights for network, memory and invalidation, and is positive.          *)
(***************************************************************************)
EXTENDS UpdateGraph, Integers, FiniteSetsExt

CONSTANTS
  Path,                 \* Path[n]: position of n in the order of node paths
  BaseCost,             \* BaseCost[n]: cost of an update of n, staleness risk aside
  BudgetShare,          \* BudgetShare[1] / BudgetShare[2] is budget_fraction
  MinimumGain,          \* minimum_gain_lcb
  MaxSkipRounds,        \* max_skip_rounds
  BootstrapUnmeasured,  \* bootstrap_unmeasured
  Unmeasured            \* "there is no gain evidence for this node"

ASSUME SchedulerAssumption ==
  /\ IsFiniteSet(Nodes)
  /\ Path \in [Nodes -> Nat]
  /\ \A m, n \in Nodes : Path[m] = Path[n] => m = n
  /\ BaseCost \in [Nodes -> Nat \ {0}]
  /\ BudgetShare \in Nat \X (Nat \ {0}) /\ BudgetShare[1] <= BudgetShare[2]
  /\ MinimumGain \in Int
  /\ MaxSkipRounds \in Nat
  /\ BootstrapUnmeasured \in BOOLEAN

VARIABLES
  committedCount,  \* _states[n].committed_count
  skipRounds,      \* _states[n].skip_rounds
  lastCommitted,   \* _states[n].last_committed_round, {} if there is none
  nextRound,       \* _next_round
  pending,         \* _pending, {} if there is none
  undisturbed      \* history: every round so far gave every node its chance

clocks == <<committedCount, skipRounds, lastCommitted>>
schedulerVars == <<clocks, nextRound, pending, undisturbed>>

Evidence == [gain : Int, version : Nat, sampled : BOOLEAN, risk : Nat]

(* What schedule() is called with: an offer for each eligible node, that   *)
(* is each candidate that is not frozen and has a compatible objective.    *)
Offers == UNION {[E -> Evidence \cup {Unmeasured}] : E \in SUBSET Nodes}

SchedulerInit ==
  /\ committedCount = [n \in Nodes |-> 0]
  /\ skipRounds = [n \in Nodes |-> 0]
  /\ lastCommitted = [n \in Nodes |-> {}]
  /\ nextRound = 0
  /\ pending = {}
  /\ undisturbed = TRUE

-----------------------------------------------------------------------------
(* Ranking                                                                 *)

(* Evidence of another model version counts as none.                       *)
Usable(offers, version, n) == offers[n] # Unmeasured /\ offers[n].version = version

Costs(offers, version) ==
  [n \in DOMAIN offers |-> BaseCost[n] + IF Usable(offers, version, n) THEN offers[n].risk ELSE 0]

Bootstrap(offers, version) ==
  {n \in DOMAIN offers :
     BootstrapUnmeasured /\ (Usable(offers, version, n) => ~offers[n].sampled)}

Gain(offers, version, n) == IF Usable(offers, version, n) THEN offers[n].gain ELSE 0

(* Mutant: a starved node has no precedence.                               *)
MutStarved(n) == FALSE

Starved(n) == BudgetShare[1] > 0 /\ skipRounds[n] > 0 /\ skipRounds[n] >= MaxSkipRounds

(* The sort key: starved nodes first, then those to bootstrap, then by     *)
(* gain per cost, then by path.                                            *)
Ahead(m, n, offers, version) ==
  LET cost == Costs(offers, version)
      boot == Bootstrap(offers, version)
      Worth(k) == IF k \in boot THEN 0 ELSE Gain(offers, version, k)
  IN \/ Starved(m) /\ ~Starved(n)
     \/ /\ Starved(m) <=> Starved(n)
        /\ \/ m \in boot /\ n \notin boot
           \/ /\ m \in boot <=> n \in boot
              /\ \/ Worth(m) * cost[n] > Worth(n) * cost[m]
                 \/ Worth(m) * cost[n] = Worth(n) * cost[m] /\ Path[m] < Path[n]

Worthwhile(offers, version) ==
  Bootstrap(offers, version)
  \cup {n \in DOMAIN offers : Gain(offers, version, n) >= MinimumGain}

-----------------------------------------------------------------------------
(* Selection                                                               *)

(* The sum of the costs of the nodes in S, counted unit by unit.           *)
CostOf(S, cost) == Cardinality(UNION {{n} \X (1..cost[n]) : n \in S})

(* Mutant: the first node is taken whatever it costs.                      *)
MutFits(S, n, cost) ==
  \/ S = {}
  \/ (CostOf(S, cost) + cost[n]) * BudgetShare[2] <= CostOf(DOMAIN cost, cost) * BudgetShare[1]

(* n fits into what the budget leaves when the nodes in S are paid for.    *)
Fits(S, n, cost) ==
  (CostOf(S, cost) + cost[n]) * BudgetShare[2] <= CostOf(DOMAIN cost, cost) * BudgetShare[1]

(* The greedy pass over the ranked nodes.                                  *)
Selected(offers, version) ==
  LET cost == Costs(offers, version)
      worth == Worthwhile(offers, version)
      front == [n \in worth |-> {m \in worth : Ahead(m, n, offers, version)}]
  IN CHOOSE S \in SUBSET worth :
       \A n \in worth : n \in S <=> Fits(S \cap front[n], n, cost)

(* schedule(): it raises while a schedule is pending, or if the round goes *)
(* backwards.                                                              *)
Schedule(offers, version, round) ==
  /\ pending = {}
  /\ round >= nextRound
  /\ pending' = {[round |-> round, eligible |-> DOMAIN offers,
                  selected |-> Selected(offers, version),
                  worthwhile |-> Worthwhile(offers, version),
                  cost |-> Costs(offers, version)]}
  /\ nextRound' = round + 1
  /\ UNCHANGED <<clocks, undisturbed>>

-----------------------------------------------------------------------------
(* Outcomes                                                                *)

(* Every node was eligible, worth it and affordable by itself, and what    *)
(* was selected was committed.                                             *)
GaveEveryChance(s, committed) ==
  /\ s.eligible = Nodes
  /\ s.worthwhile = Nodes
  /\ \A n \in Nodes : Fits({}, n, s.cost)
  /\ committed = s.selected

(* record_terminal(): committed are the selected nodes whose outcome is    *)
(* COMMITTED; the others were rejected, failed or cancelled.  It raises    *)
(* unless there is exactly one outcome for each selected node.             *)
RecordTerminal(committed) ==
  \E s \in pending :
    /\ committed \subseteq s.selected
    /\ committedCount' = [n \in Nodes |-> committedCount[n] + IF n \in committed THEN 1 ELSE 0]
    /\ skipRounds' = [n \in Nodes |-> IF n \in committed THEN 0
                                      ELSE IF n \in s.eligible THEN skipRounds[n] + 1
                                      ELSE skipRounds[n]]
    /\ lastCommitted' = [n \in Nodes |-> IF n \in committed THEN {s.round} ELSE lastCommitted[n]]
    /\ pending' = {}
    /\ undisturbed' = (undisturbed /\ GaveEveryChance(s, committed))
    /\ UNCHANGED nextRound

(* Mutant: only the round is reset.                                        *)
MutReset ==
  /\ nextRound' = 0
  /\ pending' = {}
  /\ UNCHANGED <<clocks, undisturbed>>

(* reset(): the fairness clocks, the round and the pending schedule.       *)
Reset ==
  /\ committedCount' = [n \in Nodes |-> 0]
  /\ skipRounds' = [n \in Nodes |-> 0]
  /\ lastCommitted' = [n \in Nodes |-> {}]
  /\ nextRound' = 0
  /\ pending' = {}
  /\ undisturbed' = TRUE

SchedulerNext ==
  \/ \E offers \in Offers, version \in Nat, round \in Nat : Schedule(offers, version, round)
  \/ \E committed \in SUBSET Nodes : RecordTerminal(committed)
  \/ Reset

SchedulerSpec == SchedulerInit /\ [][SchedulerNext]_schedulerVars

-----------------------------------------------------------------------------
(* properties                                                              *)

(* Type correctness: at most one schedule is pending, and it selects only  *)
(* nodes that were eligible and worth it.                                  *)
SchedulerTypeOK ==
  /\ committedCount \in [Nodes -> Nat]
  /\ skipRounds \in [Nodes -> Nat]
  /\ \A n \in Nodes : \A r \in lastCommitted[n] : r < nextRound
  /\ nextRound \in Nat
  /\ \A s, t \in pending : s = t
  /\ \A s \in pending :
       /\ s.round < nextRound
       /\ s.cost \in [s.eligible -> Nat \ {0}]
       /\ s.selected \subseteq s.worthwhile /\ s.worthwhile \subseteq s.eligible

(* The selection is within the budget, and as large as its ranking allows: *)
(* a node that was worth it and left out would not fit into what is left.  *)
(* The first half holds of starved nodes too, as the class docstring says  *)
(* (scheduler.py:340-341): lines 498-501 test every node alike.  Other     *)
(* places say that a selection forced by fairness may exceed the budget    *)
(* (scheduler.py:249-250, and :302, the overrun that a receipt reports):   *)
(* receipts made by hand may, but no schedule() ever produces one.         *)
BudgetUsedUp ==
  \A s \in pending :
    /\ CostOf(s.selected, s.cost) * BudgetShare[2] <= CostOf(s.eligible, s.cost) * BudgetShare[1]
    /\ \A n \in s.worthwhile \ s.selected : ~Fits(s.selected, n, s.cost)

(* The fairness bound: while every round gives every node its chance, a    *)
(* starved node waits for each of the other nodes at most once.  It needs  *)
(* MaxSkipRounds >= Cardinality(Nodes) - 1; below that, nodes that starve  *)
(* again and again overtake one of lower priority for ever.                *)
BoundedStarvation ==
  undisturbed => \A n \in Nodes : skipRounds[n] <= MaxSkipRounds + Cardinality(Nodes) - 1

=============================================================================
