--------------------------- MODULE ElasticTraining ---------------------------
(***************************************************************************)
(* ElasticTrainingJob (utils/parallel/fault_tolerant_training.py) and the  *)
(* checkpoint generations it writes (dcp_checkpoint.py).  A driver runs    *)
(* one thread per rank and step, averages the gradients of those that meet *)
(* the deadline, takes snapshots that background threads write, and brings *)
(* a dead rank back at a checkpointed loader position.  The process can    *)
(* die at any point; files stay.                                           *)
(*                                                                         *)
(* A model is known by the batches of each rank it has learned from.  Calls *)
(* that raise before they change anything are not modelled.                *)
(***************************************************************************)
EXTENDS Integers, Sequences

CONSTANTS
  WorldSize,       \* world_size
  MaxSteps,        \* bound: run_step calls
  MaxCheckpoints,  \* bound: checkpoint calls
  MaxDeaths        \* bound: deaths of the process

ASSUME WorldAssumption ==
  /\ WorldSize \in Nat \ {0}
  /\ {MaxSteps, MaxCheckpoints, MaxDeaths} \subseteq Nat

Ranks == 0..(WorldSize - 1)

VARIABLES
  learned,      \* learned[r]: the batches of rank r that are in canonical_model
  loader,       \* loader[r]: batch_idx of loader_states[r]
  dead,         \* dead_ranks
  thread,       \* thread[r]: the last step of the SimulatedRank of r
  pc,           \* where the driver is
  step,         \* its locals in run_step: pending, toJoin, kill, newlyDead, results, late
  target,       \* its local in respawn_rank: the rank
  generations,  \* the checkpoint generations begun
  last,         \* the generation of last_checkpoint_handle, or 0
  current,      \* the generation that CURRENT names, or 0
  steps, deaths

model == <<learned, loader>>
driver == <<pc, step, target>>
disk == <<generations, current>>
bounds == <<steps, deaths>>
vars == <<model, dead, thread, driver, disk, last, bounds>>

NoStep ==
  [pending |-> {}, toJoin |-> {}, kill |-> {}, newlyDead |-> {}, results |-> {}, late |-> FALSE]

(* A thread that has ended, and one that start_step has just started.      *)
Ended == [phase |-> "ended", go |-> FALSE, cancel |-> FALSE, outcome |-> "none", batch |-> 0]
Started == [Ended EXCEPT !.phase = "computing"]

(* One that may still run, cancelled, but that nobody looks at any more.   *)
Abandoned == [Ended EXCEPT !.phase = "abandoned"]

Untrained == [r \in Ranks |-> {}]
FromStart == [r \in Ranks |-> 0]

Init ==
  /\ learned = Untrained
  /\ loader = FromStart
  /\ dead = {}
  /\ thread = [r \in Ranks |-> Ended]
  /\ pc = "idle"
  /\ step = NoStep
  /\ target = 0
  /\ generations = <<>>
  /\ last = 0
  /\ current = 0
  /\ steps = 0
  /\ deaths = 0

-----------------------------------------------------------------------------
(* The thread of one rank and step                                         *)

Set(r, t) == thread' = [thread EXCEPT ![r] = t]

(* The batch at the loader's position is drawn and the gradients are       *)
(* computed; then the thread blocks at the rendezvous, or ends at once     *)
(* when the step was cancelled meanwhile.                                  *)
Compute(r) ==
  /\ thread[r].phase = "computing"
  /\ LET t == [thread[r] EXCEPT !.batch = loader[r]] IN
       Set(r, [t EXCEPT !.phase = IF t.cancel THEN "done" ELSE "blocked"])
  /\ UNCHANGED <<model, dead, driver, disk, last, bounds>>

ComputeRaises(r) ==
  /\ thread[r].phase = "computing"
  /\ Set(r, [thread[r] EXCEPT !.phase = "done", !.outcome = "error"])
  /\ UNCHANGED <<model, dead, driver, disk, last, bounds>>

(* Past the rendezvous: _result is set unless the step was cancelled, then *)
(* _done.                                                                  *)
Pass(r) ==
  /\ thread[r].phase = "blocked"
  /\ thread[r].go
  /\ Set(r, [thread[r] EXCEPT !.phase = "done",
                              !.outcome = IF thread[r].cancel THEN "none" ELSE "result"])
  /\ UNCHANGED <<model, dead, driver, disk, last, bounds>>

(* The thread is no longer alive some time after it has set _done.         *)
End(r) ==
  /\ thread[r].phase = "done"
  /\ Set(r, [thread[r] EXCEPT !.phase = "ended"])
  /\ UNCHANGED <<model, dead, driver, disk, last, bounds>>

-----------------------------------------------------------------------------
(* run_step                                                                *)

Live == Ranks \ dead

(* Mutant: the dead are started too.                                       *)
MutRunStep(kill) ==
  /\ pc = "idle"
  /\ Live # {}
  /\ kill \subseteq Live
  /\ steps < MaxSteps
  /\ steps' = steps + 1
  /\ thread' = [r \in Ranks |-> Started]
  /\ pc' = "rendezvous"
  /\ step' = [NoStep EXCEPT !.pending = Ranks, !.kill = kill]
  /\ UNCHANGED <<model, dead, target, disk, last, deaths>>

RunStep(kill) ==
  /\ pc = "idle"
  /\ Live # {}
  /\ kill \subseteq Live
  /\ steps < MaxSteps
  /\ steps' = steps + 1
  /\ thread' = [r \in Ranks |-> IF r \in Live THEN Started ELSE thread[r]]
  /\ pc' = "rendezvous"
  /\ step' = [NoStep EXCEPT !.pending = Live, !.kill = kill]
  /\ UNCHANGED <<model, dead, target, disk, last, deaths>>

(* Mutant: the deadline ends the rendezvous only.                          *)
MutDeadlinePasses ==
  /\ pc = "rendezvous"
  /\ ~step.late
  /\ step' = [step EXCEPT !.late = TRUE]
  /\ UNCHANGED <<model, dead, thread, pc, target, disk, last, bounds>>

DeadlinePasses ==
  /\ pc \in {"rendezvous", "join"}
  /\ ~step.late
  /\ step' = [step EXCEPT !.late = TRUE]
  /\ UNCHANGED <<model, dead, thread, pc, target, disk, last, bounds>>

Cancelled(t) == [t EXCEPT !.go = TRUE, !.cancel = TRUE]

(* A rank has reached the rendezvous, or failed: it is waved through, or   *)
(* cancelled when it is to be killed.                                      *)
Wave(r) ==
  /\ pc = "rendezvous"
  /\ r \in step.pending
  /\ thread[r].phase # "computing"
  /\ Set(r, IF r \in step.kill THEN Cancelled(thread[r]) ELSE [thread[r] EXCEPT !.go = TRUE])
  /\ step' = [step EXCEPT !.pending = @ \ {r},
                          !.toJoin = IF r \in step.kill THEN @ ELSE @ \cup {r}]
  /\ UNCHANGED <<model, dead, pc, target, disk, last, bounds>>

(* All are there or the deadline has passed.                               *)
EndRendezvous ==
  /\ pc = "rendezvous"
  /\ step.pending = {} \/ step.late
  /\ LET gone == step.pending \cup step.kill IN
       /\ thread' = [r \in Ranks |-> IF r \in gone THEN Cancelled(thread[r]) ELSE thread[r]]
       /\ step' = [step EXCEPT !.pending = {}, !.kill = {}, !.newlyDead = gone]
  /\ pc' = "join"
  /\ UNCHANGED <<model, dead, target, disk, last, bounds>>

(* The survivors are joined in their order.                                *)
First(r) == r \in step.toJoin /\ \A q \in step.toJoin : r <= q

Collected(r) ==
  LET good == thread[r].outcome = "result" IN
    step' = [step EXCEPT !.toJoin = @ \ {r},
                         !.results = IF good THEN @ \cup {r} ELSE @,
                         !.newlyDead = IF good THEN @ ELSE @ \cup {r}]

(* Mutant: _done is waited for, but not the end of the thread.             *)
MutJoined(r) ==
  /\ pc = "join"
  /\ First(r)
  /\ thread[r].phase \in {"done", "ended"}
  /\ Collected(r)
  /\ UNCHANGED <<model, dead, thread, pc, target, disk, last, bounds>>

(* The thread has ended: with a result, or its rank is dead.               *)
Joined(r) ==
  /\ pc = "join"
  /\ First(r)
  /\ thread[r].phase = "ended"
  /\ Collected(r)
  /\ UNCHANGED <<model, dead, thread, pc, target, disk, last, bounds>>

JoinTimesOut(r) ==
  /\ pc = "join"
  /\ First(r)
  /\ step.late
  /\ thread[r].phase # "ended"
  /\ Set(r, Cancelled(thread[r]))
  /\ step' = [step EXCEPT !.toJoin = @ \ {r}, !.newlyDead = @ \cup {r}]
  /\ UNCHANGED <<model, dead, pc, target, disk, last, bounds>>

EndStep ==
  /\ pc = "join"
  /\ step.toJoin = {}
  /\ dead' = dead \cup step.newlyDead
  /\ thread' = [r \in Ranks |-> IF r \in step.newlyDead THEN Abandoned ELSE thread[r]]
  /\ pc' = "idle"
  /\ step' = NoStep
  /\ UNCHANGED <<target, disk, last, bounds>>

(* Mutant: every rank that was started advances.                           *)
MutAverage ==
  /\ EndStep
  /\ step.results # {}
  /\ learned' = [r \in Ranks |-> IF r \in step.results
                                 THEN learned[r] \cup {thread[r].batch} ELSE learned[r]]
  /\ loader' = [r \in Ranks |-> IF r \in Live THEN loader[r] + 1 ELSE loader[r]]

(* The mean of the gradients that came is applied, and exactly the ranks   *)
(* they came from advance.                                                 *)
Average ==
  /\ EndStep
  /\ step.results # {}
  /\ learned' = [r \in Ranks |-> IF r \in step.results
                                 THEN learned[r] \cup {thread[r].batch} ELSE learned[r]]
  /\ loader' = [r \in Ranks |-> IF r \in step.results THEN loader[r] + 1 ELSE loader[r]]

(* "all live ranks died": the step raises, the dead stay dead.             *)
AllDied ==
  /\ EndStep
  /\ step.results = {}
  /\ UNCHANGED model

-----------------------------------------------------------------------------
(* Checkpoints                                                             *)

(* A generation is complete once the shards, the sidecar, the manifest and *)
(* _SUCCESS are there; the loader takes no other.                          *)
Snapshot == [learned |-> learned, loader |-> loader, complete |-> FALSE, writer |-> "running"]

(* checkpoint(): the state is cloned at once, a thread writes it.          *)
Checkpoint ==
  /\ pc = "idle"
  /\ Len(generations) < MaxCheckpoints
  /\ generations' = Append(generations, Snapshot)
  /\ last' = Len(generations) + 1
  /\ UNCHANGED <<model, dead, thread, driver, current, bounds>>

Running(g) == g \in DOMAIN generations /\ generations[g].writer = "running"

Write(g) ==
  /\ Running(g)
  /\ ~generations[g].complete
  /\ generations' = [generations EXCEPT ![g].complete = TRUE]
  /\ UNCHANGED <<model, dead, thread, driver, current, last, bounds>>

(* Mutant: CURRENT is replaced before the generation is complete.         *)
MutPublish(g) ==
  /\ Running(g)
  /\ generations' = [generations EXCEPT ![g].writer = "finished"]
  /\ current' = g
  /\ UNCHANGED <<model, dead, thread, driver, last, bounds>>

(* CURRENT is replaced once the generation is complete.                    *)
Publish(g) ==
  /\ Running(g)
  /\ generations[g].complete
  /\ generations' = [generations EXCEPT ![g].writer = "finished"]
  /\ current' = g
  /\ UNCHANGED <<model, dead, thread, driver, last, bounds>>

(* The writer's exception is kept for wait().                              *)
WriteFails(g) ==
  /\ Running(g)
  /\ generations' = [generations EXCEPT ![g].writer = "failed"]
  /\ UNCHANGED <<model, dead, thread, driver, current, last, bounds>>

-----------------------------------------------------------------------------
(* respawn_rank                                                            *)

Respawn(r) ==
  /\ pc = "idle"
  /\ r \in dead
  /\ pc' = "respawn"
  /\ target' = r
  /\ UNCHANGED <<model, dead, thread, step, disk, last, bounds>>

(* The write of the last checkpoint is over.                               *)
Waited == pc = "respawn" /\ ~Running(last)

(* That write failed, or there is no checkpoint.                           *)
Unavailable == current = 0 \/ (last # 0 /\ generations[last].writer = "failed")

RespawnRaises ==
  /\ Waited
  /\ Unavailable
  /\ pc' = "idle"
  /\ UNCHANGED <<model, dead, thread, step, target, disk, last, bounds>>

(* The rank's position is read from the generation that CURRENT names, and *)
(* it gets a new SimulatedRank.                                            *)
Restore ==
  /\ Waited
  /\ ~Unavailable
  /\ loader' = [loader EXCEPT ![target] = generations[current].loader[target]]
  /\ dead' = dead \ {target}
  /\ thread' = [thread EXCEPT ![target] = Ended]
  /\ pc' = "idle"
  /\ UNCHANGED <<learned, step, target, disk, last, bounds>>

-----------------------------------------------------------------------------
(* The process dies with all its threads and its memory; what is on disk   *)
(* stays.                                                                  *)
Die ==
  /\ pc # "down"
  /\ deaths < MaxDeaths
  /\ deaths' = deaths + 1
  /\ pc' = "down"
  /\ generations' = [g \in DOMAIN generations |->
                       IF Running(g) THEN [generations[g] EXCEPT !.writer = "lost"]
                                     ELSE generations[g]]
  /\ learned' = Untrained
  /\ loader' = FromStart
  /\ dead' = {}
  /\ thread' = [r \in Ranks |-> Ended]
  /\ step' = NoStep
  /\ target' = 0
  /\ last' = 0
  /\ UNCHANGED <<current, steps>>

(* A new job loads the model, the optimizer and the positions that CURRENT *)
(* names (load_checkpoint, load_checkpoint_extra), and starts over if      *)
(* there is none.  The job loads nothing by itself: that its caller does   *)
(* so is assumed here.                                                     *)
Resume ==
  /\ pc = "down"
  /\ pc' = "idle"
  /\ learned' = IF current = 0 THEN Untrained ELSE generations[current].learned
  /\ loader' = IF current = 0 THEN FromStart ELSE generations[current].loader
  /\ UNCHANGED <<dead, thread, step, target, disk, last, bounds>>

-----------------------------------------------------------------------------
Rank(r) == Compute(r) \/ ComputeRaises(r) \/ Pass(r) \/ End(r)

(* What the driver does inside a call.                                     *)
Driver ==
  \/ \E r \in Ranks : Wave(r) \/ Joined(r) \/ JoinTimesOut(r)
  \/ EndRendezvous \/ Average \/ AllDied
  \/ RespawnRaises \/ Restore

Writer(g) == Write(g) \/ Publish(g) \/ WriteFails(g)

Next ==
  \/ \E r \in Ranks : Rank(r) \/ Respawn(r)
  \/ \E kill \in SUBSET Live : RunStep(kill)
  \/ DeadlinePasses \/ Driver
  \/ Checkpoint
  \/ \E g \in 1..MaxCheckpoints : Writer(g)
  \/ Die \/ Resume

(* The driver and the writers are threads that run, and the clock does.    *)
(* Nothing is assumed of the ranks, which may hang.                        *)
Fairness ==
  /\ WF_vars(Driver)
  /\ WF_vars(DeadlinePasses)
  /\ WF_vars(\E g \in 1..MaxCheckpoints : Writer(g))

Spec == Init /\ [][Next]_vars /\ Fairness

-----------------------------------------------------------------------------
Phases == {"computing", "blocked", "done", "ended", "abandoned"}
Threads == [phase : Phases, go : BOOLEAN, cancel : BOOLEAN,
            outcome : {"none", "result", "error"}, batch : Nat]
Positions == [Ranks -> Nat]
Batches == [Ranks -> SUBSET Nat]
Generations == [learned : Batches, loader : Positions, complete : BOOLEAN,
                writer : {"running", "finished", "failed", "lost"}]

(* Types: every variable keeps the shape the job gives it, and what the    *)
(* driver counts on in a step are ranks that it started.                   *)
ElasticTypeOK ==
  /\ learned \in Batches
  /\ loader \in Positions
  /\ dead \subseteq Ranks
  /\ thread \in [Ranks -> Threads]
  /\ pc \in {"idle", "rendezvous", "join", "respawn", "down"}
  /\ step \in [pending : SUBSET Live, toJoin : SUBSET Live, kill : SUBSET Live,
               newlyDead : SUBSET Live, results : SUBSET Live, late : BOOLEAN]
  /\ target \in Ranks
  /\ generations \in Seq(Generations)
  /\ last \in 0..Len(generations)
  /\ current \in 0..Len(generations)
  /\ steps \in Nat
  /\ deaths \in Nat

(* Whenever the process dies, CURRENT names a complete generation, so      *)
(* that there is always a checkpoint to load once there was one. *)
CurrentComplete == current # 0 => generations[current].complete

(* No batch is skipped, however many ranks die, are late or come back and  *)
(* wherever the process dies: the model has learned from every batch that  *)
(* is before a loader's position, in the job and in every checkpoint.      *)
Covered(m, position) == \A r \in Ranks : \A b \in 0..(position[r] - 1) : b \in m[r]

NoBatchSkipped ==
  /\ Covered(learned, loader)
  /\ \A g \in DOMAIN generations : Covered(generations[g].learned, generations[g].loader)

(* Between two steps no live rank has a step in flight, so start_step()    *)
(* never refuses one after it has started others.                          *)
NoStepInFlight == pc = "idle" => \A r \in Live : thread[r].phase = "ended"

(* run_step() and respawn_rank() return or raise, though ranks may hang.   *)
CallsReturn == (pc \in {"rendezvous", "join", "respawn"}) ~> (pc \in {"idle", "down"})

(* "elastically respawned at its last checkpointed loader position": once  *)
(* the write of the last checkpoint is over and has succeeded, CURRENT     *)
(* names the positions of that checkpoint.                                 *)
RespawnReadsLast ==
  (Waited /\ last # 0 /\ generations[last].writer = "finished")
    => generations[current].loader = generations[last].loader

=============================================================================
