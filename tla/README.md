# TLA+ models and proofs for mixle's typed runtime, data plane, checkpoints and registry

mixle is a large Python library of probability models. Most of it is numerical
code whose correctness lies in real arithmetic. This project is about the part
whose correctness is a matter of *order*: which update is applied to which
version of a model, which reply answers which request, which file names a
version, and what is left after a failure. It models

* the typed runtime in `src/mixle/experimental/typed_runtime/` (update graph,
  proposals, transactional and hierarchical coordinator, staleness, scheduler,
  the local EM driver),
* the worker pools of EM in `src/mixle/utils/parallel/` (`multiprocessing.py`,
  `resilient_em.py`) and the training job with its checkpoints
  (`fault_tolerant_training.py`, `dcp_checkpoint.py`),
* the model registry in `src/mixle/inference/production/registry.py`.

File names below without a directory are those of these directories.

## 1. Inventory

### Modelled

| Part | State | Operations | Interacts with |
|---|---|---|---|
| Update graph (`graph.py`) | none after construction | dependents, invalidation closure, topological order | read by the typed runtime |
| Proposals (`proposal.py`) | none: frozen packets and batches | batch construction, conflicts, merging packets of one node | built by workers, consumed by both coordinators |
| Transactional coordinator (`transaction.py`) | versions, receipts, seen proposal ids, commit ids, poison flag, an `RLock` | `commit` | calls the caller's `apply_proposal`, `canary` and the participants' snapshot, restore and fingerprint functions |
| Staleness (`staleness.py`) | none | `assess_staleness`, `shrink_proposal` | reads the coordinator's two version attributes, without its lock |
| Hierarchical coordinator (`hierarchical.py`) | recorded rounds | `submit` | assesses and rebases rows, asks the correction provider, merges, calls `commit` |
| Scheduler (`scheduler.py`) | fairness clocks, next round, pending schedule | `schedule`, `record_terminal`, `reset` | called by callers and by `local.py` |
| Local EM driver (`local.py`) | gain statistics, stall streak, model version, cache generations | `run_typed_mixture_em` | scheduler, gain provider, artifact cache |
| Worker pool (`multiprocessing.py`) | processes, pipes | update, initialize, score, close | one reply per worker and request, read in order |
| Resilient pool (`resilient_em.py`) | processes, pipes, homes of shards, failures, blacklist | the same, with recovery, respawn and migration | the same |
| Training job (`fault_tolerant_training.py`) | model, loader positions, dead ranks, last checkpoint handle | `run_step`, `checkpoint`, `respawn_rank` | one thread per rank, background writers |
| Checkpoints (`dcp_checkpoint.py`) | generations, `CURRENT` | save, load | files that outlive the process |
| Model registry (`registry.py`) | version files, lock file | `register`, `checkpointer`, `verify_chain` | processes that share a directory |

What makes these parts correct:

* **coordinator**: the model holds the effects of the accepted proposals and of
  nothing else; an accepted proposal was computed from the current model;
  versions and receipts tell the same story; commit ids are unique; after a
  rollback that could not be verified nothing moves; every call ends.
* **rounds**: a stale row is applied at the lag it was discounted for and
  within its policy; data of a strict node counts once; a recorded round
  accounts for every row; a round ends.
* **scheduler and local driver**: a selection keeps to its budget and uses it
  up; no node waits for ever; a run gives up only after it tried everything.
* **pools**: a request raises, or is answered by one payload per shard, each
  computed for its own model; no shard is counted twice; a pool that answered
  is whole; a rank that used up its retries stays out; every request ends.
* **training**: no batch is skipped, in the job or in a checkpoint; `CURRENT`
  can be loaded whenever the process dies; nothing of a step is left when the
  next one starts; every call ends.
* **registry**: a conditional write extends the version it named; a lineage can
  be adopted again; a version that was returned is never lost.

What is hard in them: other threads commit between any two unlocked reads of a
round; callbacks raise at every point and leave half an effect behind;
processes die between two steps of a protocol, or answer after nobody waits any
more; the worker that repairs a failure fails itself; background writers finish
in the other order; power is lost between a link and the sync of its directory.
`PROJECT.json` lists each such hazard with its line.

### Planned, not modelled yet

`put`, `get` and `clear` of the artifact cache (`cache.py`; nothing in the
repository stores an entry, so there is no late worker to interleave with), the
claim files of `src/mixle/system/registry.py`, and `promote` and the aliases of
the model registry.

### Not modelled

Compilers and planners (pure translations), replay, measurement and benchmarks
(functions of recorded data), geometry, compression and memory (array
numerics), the distributions, EM engines and design-of-experiments code
(numerical convergence), MPI and torch back ends (the protocol is the
library's), serving, monitoring, journals and search loops (sequential, or
state per request). `PROJECT.json` lists them one by one with the reason. These
parts are by far the largest share of the repository's lines: distributions,
inference engines and the probabilistic programming layer. A model of them in
TLA+ would restate formulas over the reals that no finite instance can tell
apart.

## 2. Modules

```
UpdateGraph             constants and closure of the dependency graph
  ProposalBatches       packets, batches, conflicts, what a batch invalidates
    VersionedLedger           abstract: what a coordinator promises
    TransactionalCoordinator  detailed: commit() step by step
      TransactionProofs
      MCTransactionalCoordinator
      HierarchicalRounds      submit(), composed with the coordinator
        MCHierarchicalRounds
        RoundProofs           (with TransactionProofs)
  GainPerCostScheduler  schedule(), record_terminal(), reset()
    LocalTypedEM        run_typed_mixture_em(), composed with the scheduler
      MCGainPerCostScheduler
      SchedulerProofs         of both
ShardedStep             abstract: what a pool promises to an EM step
  WorkerPool            MPEncodedData              WorkerPoolProofs
  ResilientEM           ResilientMPEncodedData     ResilientProofs > ReadinessProofs
    LateMigrations      the same with late migration targets
ElasticTraining         ElasticTrainingJob and checkpoints   ElasticProofs
ModelRegistry           one name of the registry             RegistryProofs
  MCModelRegistry
```

**UpdateGraph.** `Closure` is the least set the worklist of `invalidated_by`
returns, written as an intersection of closed sets so that no recursion is
needed. `Rank` stands for `topological_order()`.

**ProposalBatches.** A packet keeps its id, node, base version, declared
dependency versions, explicit invalidations and payload. `wellFormed` stands
for the contract checks of a preflight that do not look at versions.

**TransactionalCoordinator.** `phase[c]` is where thread `c` is in `commit()`:

| Action | Code in `commit` |
|---|---|
| `Call` | the batch is constructed and the lock requested |
| `RefuseCommitId`, `RejectAtPreflight`, `Admit` | from taking the lock to the preflight verdict |
| `TakeSnapshot`, `SnapshotRaises` | fingerprints and snapshots of all participants |
| `Apply`, `ApplyRaises` | one packet, in topological order; a raising apply reaches any part of the node's domains |
| `CanaryAccepts`, `CanaryRejects`, `CanaryRaises`, `CanaryMalformed` | the canary, the check of its type and `_objective_error` |
| `Rollback`, `RollbackThenRaise` | `_rollback`, poisoning, and the receipt (or the exception its construction raises) |
| `PublishModel`, `PublishNodes` | the two attribute assignments; the receipt is recorded with the second |

`state[d]` is the set of proposal ids whose effects domain `d` holds, which is
as much of the fitted model as the properties can tell apart. The domains that
no participant covers are part of it. Inside the lock, steps that only other
lock holders could see are merged with their neighbours; the two version
attributes, which unlocked readers see, keep separate steps.

**VersionedLedger** has one operation, `Install`, which adds a batch computed
from the current versions atomically, and `Die`. The coordinator implements it
(`ImplementsLedger`) under a mapping in which the ledger's contents are the
snapshots while a commit is working, the published model version is hidden
until the node versions follow, and the ledger is alive unless poisoned.

**HierarchicalRounds** runs rounds and direct commits of several threads on
one coordinator. Each unlocked read of `assess_staleness` is a step of its own
(`TakeRow` reads the node versions, `ReadModelVersion`, `ReadNodeVersion`; the
receipt's target reads the model version again), so that commits of other
threads fall between them. The payload of a row is the set of contributions it
adds up, each with the lag it was discounted for; that is what the properties
speak about. A round may end by an exception without a receipt: numbers too large
to scale or to add (`RebaseOverflows`, `MergeOverflows`), rows that do not share
a base version (`MixedBases`), a commit that raises (`CommitRaised`). `FreshSpec`
restricts the callers to packets as a worker computes
them, for the theorems that speak of the versions of a contribution.

**GainPerCostScheduler**. The ranking is an order (`Ahead`) and the greedy
pass a fixed point (`Selected`): a node is selected when it is worth it and
fits beside the selected nodes ahead of it. `undisturbed` is a history
variable for the fairness bound.

**LocalTypedEM** is the loop of `run_typed_mixture_em` around the scheduler:

| Action | Code in `run_typed_mixture_em` |
|---|---|
| `Begin` | the call, with a scheduler that is new or was reset |
| `ScheduleRound`, `ProviderRaises` | gathering the evidence, `schedule()`, a gain provider that raises |
| `FinishRound` | scores and M-step, acceptance, `invalidate_many`, attribution of the gain, `record_terminal()`, stall and `max_its` |
| `StepRaises` | scoring or the M-step raises: the schedule stays pending |
| `Return`, `ResetBetweenRuns` | the result; the caller's `reset()` |

`OneNodeShare` is the default budget: `max / sum` of the costs, which
`schedule()` multiplies by the sum again. `RoundsDown` says when that loses
something in doubles: it computes the exact 53-bit quotient, its remainder and
half the gap below the product. `Written` needs no closure: the compiler draws
edges from a node to its parents only (`compiler.py:587`, `:633`), so that what
`invalidate_many` adds to the selected components and the root is neither a
component nor the root.

**ShardedStep** is what `optimize()` relies on: a request raises or is answered
by a fold, in shard order, of one payload per shard, each computed for this
request. Both pools are compared with it.

**WorkerPool**: workers `Serve` and `Crash`; the driver's `Broadcast`,
`Refuse` and `SendBreaks` are the three ways a request starts, `Collect`,
`CollectError` and `LoseWorker` are one turn of the reading loop, `Fold` the
end, `Close` the handle's `close()`. A pipe is a pair of queues, and a payload
is the worker and the request it was computed for, so that a reply that answers
the wrong request can be told from the right one.

**ResilientEM** has the same pipes and payloads.

| Actions | Code |
|---|---|
| `Acknowledge`, `ComputeAfterGo`, `ComputeAtOnce`, `AddShard`, `Crash` | the worker's command loop, which meets the driver before it computes an update |
| `StartRequest`, `Refuse`, `ReadAck`, `Go`, `ReadResult` | send, rendezvous and collection |
| `RetireFailed` | what happens to ranks that failed: counted, retired, perhaps blacklisted |
| `AskTarget`, `RespawnTarget`, `NoTargetLeft`, `LoseTarget`, `ReleaseTarget`, `ReadRedo` | recomputing a lost shard on another worker, one target after the other |
| `Restore`, `Respawn`, `SpawnRaises`, `Migrate`, `ShardMoved`, `MoveRaises` | bringing ranks back, moving the shards of blacklisted ones |
| `Fold`, `Close` | the end of a request; `close()` |

A request is an update, which has the rendezvous, an initialization or a
scoring (`kind`). An initialization carries a seed for each shard that the
driver believes a worker to hold (`RequestFor`), and a worker that holds another
one answers with an error (`Seeded`). Updates and initializations are answered
by a list of statistics, scorings by a list of scores (`ListKind`).
**LateMigrations** adds the target of a migration that answers after the
deadline, and the branches that only stale replies reach: a reply that is no
list (`ReadOther`, `NotAList`), a recovered payload of another kind that raises
at once or only at the fold (`RedoOther`), and a "go" that nobody waits for.

**ElasticTraining**: the rank threads (`Compute`, `ComputeRaises`, `Pass`,
`End`), the driver in `run_step` (`RunStep`, `Wave`, `DeadlinePasses`,
`EndRendezvous`, `Joined`, `JoinTimesOut`, and at the end `Average` or
`AllDied`), `Checkpoint` with its background writers (`Write`, `Publish`,
`WriteFails`), `respawn_rank` (`Respawn`, then `RespawnRaises` or `Restore`),
and `Die` and `Resume` of the process. The model is known by the batches of
each rank it has learned from; of a generation on disk the loader tells apart
only whether it is complete.

**ModelRegistry** has one name: checkpoint callbacks (`Checkpointer`, `Adopt`,
`Unlinked`, `Save`, `Refit`), `Register` by hand, `register()` itself
(`Allocate` or `Refuse`, `Link` or `WriteFails`, `Sync` or `SyncFails`), `Die`
of a process and `PowerLoss` of the machine. A record keeps its lineage
metadata; its digest is the number it gets when it is made.

## 3. Runs

| Run | Shows | Distinct states |
|---|---|---|
| `transactions` | eight properties of the coordinator | 188,723 |
| `receipts` | violation: `commit()` without a receipt | - |
| `rounds` | six properties of rounds | 113,321 |
| `credits` | violation: minted ids credited as inputs | - |
| `scheduler` | six properties of the scheduler and the local driver | 71,282 |
| `one_node_budget` | violation: a component that never fits the default budget | - |
| `resilient` | seven properties of the resilient pool | 157,403 |
| `late_migration` | violation: a scoring answered with the score of another model | - |
| `stale_replies` | violation: the same in the plain pool | - |
| `registry` | four properties of the registry | about 3.2 million |
| `elastic` | five properties of the training job | 882,006 |
| `respawn` | violation: a respawn at an older checkpoint's position | - |

### `transactions`

Two threads, four nodes (two siblings, their common dependent, one node whose
domain no participant saves), three domains, `MaxCommits = 3` calls that take a
commit id. Packets are computed from any vector a caller could have read,
torn ones included. Three commits are the fewest in which a batch can be
outdated by one commit and a third one chains to the second; two threads are
enough because only the lock holder changes anything but its own request.
Batches: alone, independent siblings together, a dependent with its source
(which conflicts), explicit invalidation, missing participants. Explicit commit
id 0 meets the generated ids. Every callback may raise at each point.

* `LedgerMatchesState`, `Serializable`, `ReceiptsChain`, `UniqueCommitIds`:
  see the comments in the module.
* `PoisonIsFinal` is an action property, `CommitReturns` liveness, and
  `ImplementsLedger` the refinement.

### `rounds`

Two threads, one node of each consistency, two packets for the bounded one, two
for the strict one that report the same data, one for the corrected one,
`MaxCommits = 2`, `MaxRounds = 2`: the smallest numbers at which a commit
(or a round) of one thread runs inside the round of the other and rows become
stale by one version. A lag of two model versions is allowed, one of a node's
own, none for the corrected node.

* `AppliedAtMeasuredLag`: a stale contribution is committed at the lag it was
  discounted for, although the versions were read one by one without the lock.
  What saves it is that a rebased row declares every node version of its
  target, which the commit compares with the current ones under the lock.
* `StaleWithinPolicy`, `StrictDataOnce`, `RoundsAccounted`, `RoundReturns`.

### `scheduler`

Three nodes of costs 2, 2 and 3 under the driver's own budget, so that the
dearer one, or one of the cheap ones, fits. While no run is on, the scheduler
is used directly: gains below and above the threshold; evidence measured now,
for another version, drawn but not sampled, or missing; seven rounds while
every round gave every node its chance, three otherwise. `MaxSkipRounds = 2` is
the number of other nodes; seven rounds are more than the 2 + 3 - 1 of the
bound. A local run has up to seven rounds with gains 0, 1 and 4, `delta` 2 and a
patience of 5, candidates that are rejected, a gain provider that speaks in the
first two rounds, of the run's objective or of another one, and steps that
raise.

* `BudgetUsedUp`: of the scheduler, under every offer and outcome, for starved
  nodes as for others. The sources do not agree on this: the class docstring
  (`scheduler.py:340-341`) says that no decision may claim resources outside the
  budget, while `scheduler.py:249-250`, the docstring of `budget_overrun` (`:302`)
  and `receipt_integrity_contract_test.py:141-142` say that a selection forced by
  fairness may exceed it. The code (`:499`) tests every node alike, so that a
  receipt of `schedule()` never has an overrun; `PROJECT.json` reports the
  divergence as a finding of this run.
* `BoundedStarvation`: of the scheduler, likewise. The bound needs `max_skip_rounds` of at least the number of nodes
  minus one. With the default of 2 and four equal nodes the starved nodes of
  higher priority overtake the last one for ever.
* `TurnsComeRound`: in a local run every component is selected within the
  bound, although each accepted round outdates the evidence of the others. Its
  premise (`Orderly`: no gain provider, no rejection) is needed: with three
  components, one that is rejected in each of its turns can keep another
  waiting for ever, which is the `timeout_retry` hazard of the scheduler.
* `StallsAfterTryingAll`: a run that stops for lack of gain has tried every
  component, if the patience is at least `max_skip_rounds` plus the number of
  components. The default patience of 3 is below that from three components
  on, and such a run can stall with a component untried.

### `resilient`

Three workers, `MaxRetries = 2`, four faults, three requests. Three workers are
the fewest in which the worker that recomputes a lost shard can fail and leave
another one to try; two retries make the first failure of a rank end in a
respawn and the second in a migration; four faults let a rank be blacklisted
while the repair of that is hit twice more; three requests are one that fails,
one that repairs and one that would see what was left behind. A fault is a
crash, an error reply, a deadline that passes or a spawn that fails, at any
step of a worker or the driver.

* `ImplementsShardedStep`: no answer contains a payload of another request, a
  shard twice or a shard missing.
* `OneHolder`, `ReadyAfterAnswer`, `OnlyOwedShardsRedone`: who holds and who
  recomputes what.
* `BlacklistIsForever`, `RequestsEnd`, `PoolTypeOK`.

### `elastic`

Two ranks, two steps, two checkpoints, one death of the process. Two ranks are
one that is late, fails or is killed beside one that is not; two steps are one
that leaves something behind and one that would see it; two checkpoints are the
fewest whose writers finish in the other order.

* `NoBatchSkipped`: the model, and every generation on disk, has learned from
  every batch before the positions it holds. A respawn may repeat batches.
* `CurrentComplete`, `NoStepInFlight`, `CallsReturn`, `ElasticTypeOK`.

### `registry`

Two processes (alike, hence symmetric), three version files ever made, two
checkpoints per fit: enough for a root and two writers that both adopted it, one
of which has to lose, and for a record that is lost with the power and whose
number is used again. Registrations by hand and unlinked callbacks mix with
resuming ones.

* `NoSiblings`, `ReturnedSurvives`: for all kinds of writers.
* `LineageVerifies`: when only resuming callbacks wrote, each for one fit. A
  callback that serves a second fit starts its iterations at 1 again and its
  records are refused by `verify_chain`; nothing in the repository does that.

### Violations

* `receipts`. `commit()` promises a terminal receipt, but when the canary
  returns an object of another type the rejection's own receipt refuses it and
  `commit()` raises after the rollback.
* `credits`. A merge of rows one of which was rebased is credited to the
  rebased id; the round's receipt refuses that after the commit was accepted.
* `one_node_budget`. Costs 7 and 15: `15 / 22 * 22` is less than 15 in doubles,
  so the default budget, which is meant to admit any single component, never
  admits the dearer one. With 49 components of equal cost nothing is ever
  selected.
* `stale_replies`. After an error reply `MPEncodedData` raises without reading
  the replies of the workers behind it. They answer the next request.
* `late_migration`. The target of a migration answers after the deadline. The
  `TimeoutError` passes through, the worker stays in the pool, and each later
  request reads the reply of the one before it. A scoring that reads the size of
  the moved shard raises `TypeError`; the scoring after it returns the score of
  the model before. Likewise an initialization may fold the statistics of an
  update that raised. Statistics of another initialization do not come: the
  worker holds a shard that the driver has not recorded, gets no seed for it and
  answers with an error. Updates refuse what is out of step. Two workers, one
  retry, two faults and three requests are enough; the caller has to go on after
  both exceptions.
* `respawn`. With two checkpoints in flight `respawn_rank` waits for the last
  handle only. If the older one is published after it, the rank comes back at
  the older position.

### Fairness

* Coordinator and rounds: weak fairness of each thread's steps inside
  `commit()` and `submit()`: a thread that can run does, and callbacks return.
  Nothing makes callers start a call. A Python `RLock` is not fair, so a
  waiting thread may lose to others; it is still served because finitely many
  calls compete (`MaxCommits` bounds them), which is what `CommitReturns` says.
* `ResilientEM`: weak fairness of the driver's thread, and of each live
  worker's command loop. A worker that hangs is one the driver's deadline gives
  up; that is a fault, and faults are bounded.
* `ElasticTraining`: weak fairness of the driver, of the clock and of the
  background writers. Nothing is assumed of the ranks, which may hang for ever.
* The scheduler, the plain pool and the registry have no liveness property: the
  first states its fairness as a bound, the plain pool has no retry, and the
  file lock of the registry makes no promise to waiters.

### Deadlock

Deadlock is not checked because all systems may stop: callers need not call
again, and the bounds end the runs. That a call is stuck is caught by
`CommitReturns`, `RoundReturns`, `RequestsEnd` and `CallsReturn` instead.

## 4. Proofs

The proofs hold for every value of the constants: any number of threads,
workers, ranks and writers, any graph, packets and participants, any bounds
(those of `WorkerPoolProofs` but the last for pools without error replies).
The assumptions are `GraphAssumption`, `ProposalAssumption`,
`CoordinatorAssumption`, `RoundAssumption`, `SchedulerAssumption`,
`LocalAssumption`, `PoolAssumption`, `WorldAssumption` and
`RegistryAssumption`, which TLC evaluates in the runs.

| Module | Theorem | Property |
|---|---|---|
| `TransactionProofs` | `TypeCorrect` | `TypeOK` |
| | `PoisonStays` | `PoisonIsFinal` |
| | `CommitIdsAreUnique` | `UniqueCommitIds` |
| | `ReceiptsAccountForVersions` | `ReceiptsChain` |
| | `ModelHoldsAcceptedEffects` | `LedgerMatchesState` |
| | `CoordinatorImplementsLedger` | `ImplementsLedger` |
| | `CommitsAreSerializable` | `Serializable` |
| `RoundProofs` | `RoundsAreCommits` | the rounds' next-state relation implies the coordinator's |
| | `RoundTypes` | `RoundTypeOK` |
| | `RoundsAreSerializable` | `Serializable`, of rounds |
| | `RoundsLeaveNoTrace` | `LedgerMatchesState`, of rounds |
| | `DiscountsAreExact` | `AppliedAtMeasuredLag`, of fresh packets |
| | `PolicyHoldsAtCommit` | `StaleWithinPolicy`, of fresh packets |
| | `StrictNodesCountDataOnce` | `StrictDataOnce`, of fresh packets |
| | `ReceiptsAccountForInputs` | `RoundsAccounted`, of fresh packets |
| `SchedulerProofs` | `SchedulerTyped` | `SchedulerTypeOK` |
| | `BudgetKept` | `BudgetUsedUp` |
| | `StarvationIsBounded` | `BoundedStarvation`, if `MaxSkipRounds >= Cardinality(Nodes) - 1` |
| | `DriverUsesScheduler` | the driver's specification implies the scheduler's |
| | `LocalTyped` | `LocalTypeOK` |
| | `TurnsCome` | `TurnsComeRound`, in a fair configuration |
| | `StallsAreTried` | `StallsAfterTryingAll`, in a fair configuration |
| `WorkerPoolProofs` | `AnswersExact` | `AnswersAreExact`, without error replies |
| | `PoolImplementsStep` | the refinement of `ShardedStep`, without error replies |
| | `ClosedForGood` | `ClosedIsFinal` |
| `ResilientProofs` | `PoolKeepsPromise` | `ImplementsShardedStep` |
| | `ShardsHaveOneHolder` | `OneHolder` |
| | `BlacklistedForGood` | `BlacklistIsForever` |
| | `PoolTypes` | `PoolTypeOK` |
| `ReadinessProofs` | `WholeAfterAnswer` | `ReadyAfterAnswer` |
| | `NothingRedoneTwice` | `OnlyOwedShardsRedone` |
| `ElasticProofs` | `ElasticTypes` | `ElasticTypeOK` |
| | `CurrentIsComplete` | `CurrentComplete` |
| | `NothingIsSkipped` | `NoBatchSkipped` |
| | `StepsAreOver` | `NoStepInFlight` |
| `RegistryProofs` | `RegistryTypes` | `RegistryTypeOK` |
| | `ConditionalWritesLink` | `NoSiblings` |
| | `ResumedLineageVerifies` | `LineageVerifies` |
| | `ReturnedVersionsSurvive` | `ReturnedSurvives` |

None of the safety properties is inductive. What is added:

**Coordinator.** Each property says what holds between commits, and the steps
of a commit need to know what it has done so far.

1. `Mutex`: exactly the lock holder is in the critical section, and the
   coordinator is not poisoned while it is.
2. `IdsInvariant`: the commit in progress has an id that is taken and that no
   receipt carries.
3. `ChainInvariant`: the commit in progress started from the vector the last
   receipt ended at; until `publishNodes` nothing moved.
4. `ContentsInvariant`: in each phase, what the domains hold is what the
   receipts account for, together with the packets that are not pending any
   more, and the snapshots hold the former.
5. `AdmissionInvariant`: what preflight established about the batch still holds
   when it is published. Together with 4 it makes `PublishNodes` an `Install`
   of the ledger, and a failed rollback a `Die`.
6. `CountInvariant`: the vector at the end of the receipts counts the accepted
   ones, per node those that invalidate it. With 3 and 5 an accepted batch
   was computed from that count, which is `Serializable`.

**Rounds.** `RoundInv` says, for each place in `submit()`, that what the round
holds by then are packets of the coordinator's kind (`Fits`). So every step of
a round is a step of the coordinator or leaves it alone (`RoundsAreCommits`),
and the coordinator's theorems hold with rounds too. It needs that minted ids
are ids and payloads are sets of contributions (`MintedIds`,
`PayloadsAreSets`).

The other four theorems are about `FreshSpec`: any rounds and direct commits,
in any interleaving and with any packet handed in again at any time, of callers
whose packets are `Fresh`. Such a packet is what a worker computed: its one
contribution was made at the model version and the node version the packet
declares (`base_model_version`, `dependency_versions`), it has neither been
discounted nor corrected yet, and its id is not one that `submit()` mints. A
packet that lies about its versions would be discounted for what it says, and
no property could hold of it. The packets of the run `rounds` are of this form.
`FreshInv` adds to `RoundInv`:

1. `Delivered`: each packet on its way into a commit is `Proper`, that is,
   `Honest` (at whatever vector it will be admitted at, its discount,
   correction and lag are right) and without any data twice (`Distinct`). When
   it is admitted, it is sound at the vector its commit started from
   (`InOrder`), and so are the packets of all receipts.
2. `RoundsKept`, first part (`Measured`): what a round read of the versions is
   what they are, unless it is `Outdated`, in which case its row will declare a
   vector that no commit starts from. `Outdated` looks at `Coming`, the node
   versions with those of a commit that has published its model version and not
   yet its node versions: `submit()` reads the model version in between, and
   the row it makes from that torn vector must be known to be refused already.
   That a vector never comes back is `VersionsGrow`.
3. `RoundsKept`, second part (`Traced`): each input that was assessed is
   rejected or in exactly one admitted packet (`Placed`), and after the merge in
   exactly one canonical packet (`Carried`).
4. `CommitsAwaited`: the commit a round waits for is that of its canonical
   packets, and so is the receipt it gets back. With it, a recorded round
   accounts for its inputs (`AllAccounted`).

For `StrictNodesCountDataOnce`, a contribution on a strict node was made at the
model version its receipt started from; by `CountInvariant` no two accepted
receipts start from the same one, so both are one receipt, whose batch holds
one packet of that node.

**Scheduler and local driver.** The ranking of a round is a strict order
(`RankingIsStrict`; a lower bound of gains per cost is compared by
cross-multiplication, which is transitive because costs are positive), so the
greedy pass has exactly one result (`GreedyExists`), within the budget and
maximal. From there:

1. `SchedulerInv`: the types of the clocks, a pending schedule that is what
   `schedule()` makes of some offer (`Sound`), and clocks that start at zero.
2. `ServedLately` counts: while every round gives each node its chance, a node
   that has waited for `MaxSkipRounds + k` rounds leaves at least `k` nodes that
   waited for fewer than `k`. Each round serves a starved node if there is one,
   and the nodes served in the last `k` rounds are different because a node is
   not starved again within `MaxSkipRounds` rounds; so `k` cannot reach the
   number of nodes. This is where `MaxSkipRounds >= Cardinality(Nodes) - 1` is
   needed (see `scheduler` above), and the driver's own default satisfies it.
3. `LocalInv`: a component that was not tried in the present stall has waited
   for all of it, and a run that goes on is within its limits.
4. `InTurn`: in a run that is left to its own evidence each round offers all
   nodes at their base costs, and the clocks of the run are the scheduler's.

`FairConfiguration` is what `run_typed_mixture_em` sets up when its caller
gives no configuration: a minimum gain of 0, a budget meant to admit any single
component, and `max_skip_rounds` of the number of components minus one. The
second part fails in doubles for some costs, which `one_node_budget` shows; with
the configuration of such a run the theorem says nothing.

**Pools.** In `WorkerPoolProofs` the strengthening says that outside a request
all pipes are empty (`NothingOutlives`), which is what an error reply breaks. In
`ResilientProofs` it says for each pipe what can be in it at each place of the
driver (`Pipes`), which payload each reply carries (`Payloads`), which ranks are
retired, blacklisted or being repaired (`Ranks`), and who holds which shard
while it moves (`Owners`). `ReadinessProofs` adds where shards can be: a rank
has the shard of its own number until it is blacklisted (`OwnShards`), the
payloads collected so far are those of the workers that are done
(`Collecting`), and what was delivered is not redone and still belongs to
somebody (`Delivered`). So when a request has one payload per shard, no shard
was lost on the way, and every rank that is not blacklisted is back.

**Training.** The locals of `run_step` account for every live rank
(`StepAccounts`), a gradient that will be counted is that of the rank's current
position (`GradientsAreCurrent`), nothing runs between steps (`NoneInFlight`),
and the model of a generation covers its positions and is behind the job's
(`CheckpointsBehind`).

**Registry.** At each place of `register()` the callback's memory fits what the
directory holds, each record follows its predecessor as far as its writer
promised that, and what was returned is within the synced versions.

Only model-checked: the liveness properties `CommitReturns`, `RoundReturns`,
`RequestsEnd` and `CallsReturn`. Liveness under fairness, `ENABLED`, induction
over data and recursive operators are out of the prover's reach. Every other
property of a passing run is stated by a theorem.

## 5. Limits

Typed runtime:

* Callbacks do not call the coordinator again, although the lock is reentrant;
  nothing in the repository does.
* Only exceptions that `except Exception` catches are raised. A
  `KeyboardInterrupt` in the middle of an apply would leave its effect in place.
* A row for a node the graph does not have, a payload changed in place after
  its packet was built, and the fields of staleness receipts are left out of
  the rounds.
* A packet may be handed in again, in a later round or past one. A strict node
  refuses it; on a bounded or corrected node it is rebased under a new id and
  counted again. Nothing in the code promises otherwise, and no property says
  how often.
* `FreshSpec` knows packets of one contribution with one data id. Packets that
  somebody merged or rebased outside of `submit()` are covered by the first four
  theorems on rounds and not by the others.
* Gains and costs are whole numbers. The rounding of the default budget is
  modelled for whole-number costs; frozen components and components of weight
  zero are not in it. The scores themselves are numerics.
* A preflight compares what a batch touches with what the participants save,
  per domain here and by the union of their kinds in `transaction.py:550-562`:
  the same where each domain is a kind of its own, and stricter otherwise.
* A mixture in which the object of one component is part of another component
  is left out: an update of the former would invalidate the latter's artifacts.
* The rendering of reasons, fingerprints and JSON forms is left out.

Pools:

* The numbers and their encoding are abstracted; that statistics and scores are
  folded differently is kept.
* In `ResilientEM` the target of a migration answers in time; `LateMigrations`
  drops that. The theorems are about the former.
* `checkpointed_fold`'s restore within one process and `remove_shard`, which
  nothing sends, are left out.

Training:

* A thread of a rank that was declared dead is cancelled and not looked at any
  more; the model does not follow it.
* A generation is complete or not; the files of it and their digests are not
  told apart. `Resume` is what a caller composes of the two load functions; the
  job itself loads nothing, and a caller that starts a new job over an existing
  `CURRENT` without loading it is left out.
* `checkpoint` and `respawn_rank` take an optional path, and the latter waits for
  the last handle only if the paths agree (`fault_tolerant_training.py:636`). The
  model has one path, the default.
* Calls that raise before they change anything, several processes of
  `torch.distributed`, health monitoring and a `KeyboardInterrupt` in
  `run_step` are left out.

Registry:

* The file system is external: directory updates survive a loss of power in
  order, as with a journal. Nobody deletes or damages version files.
* Reading a version, code trust, `promote` and aliases are left out.

## 6. Plan

1. The artifact cache with workers that store late, once the runtime has any:
   put and invalidation, with an abstract map from versions to artifacts.
2. The claim files of `src/mixle/system/registry.py`: claims, deaths with a
   claim in place, and who may take it over.
3. `promote` and the aliases of the model registry, concurrent with `register`.
4. Packets that report several data ids, some of which overlap, and workers
   that merge before they submit.
5. Proofs for these, with the abstract map of the cache as a refinement.
