---------------------------- MODULE ElasticProofs ----------------------------
(***************************************************************************)
(* Proofs about ElasticTraining, for any world size and any number of      *)
(* steps, checkpoints and deaths of the process.  One inductive invariant  *)
(* gives the four safety properties; beside them it says which ranks a     *)
(* step still has to account for, and that the gradients it counts on were *)
(* computed on the batch at the loader's position.                         *)
(***************************************************************************)
EXTENDS ElasticTraining, TLAPS

USE WorldAssumption

InStep == pc \in {"rendezvous", "join"}

(* Every live rank is in exactly the part of the step that its fate says.  *)
StepAccounts ==
  /\ ~InStep => step = NoStep
  /\ pc = "rendezvous" =>
       /\ step.newlyDead = {} /\ step.results = {}
       /\ Live \subseteq step.pending \cup step.toJoin \cup step.kill
  /\ pc = "join" =>
       /\ Live \subseteq step.toJoin \cup step.newlyDead \cup step.results
       /\ step.toJoin \cap step.results = {}

(* What is counted on was computed on the batch at the loader's position,  *)
(* by a thread that has ended.                                             *)
GradientsAreCurrent ==
  /\ InStep => \A r \in Live :
       (thread[r].phase = "blocked" \/ thread[r].outcome = "result")
          => thread[r].batch = loader[r]
  /\ \A r \in step.results : thread[r].phase = "ended" /\ thread[r].outcome = "result"

NoneInFlight == ~InStep => \A r \in Live : thread[r].phase = "ended"

(* A job has learned all that is in a checkpoint which CURRENT names or may *)
(* still name; a process that died left no writer behind.                  *)
CheckpointsBehind ==
  /\ pc # "down" =>
       \A g \in DOMAIN generations : (g = current \/ Running(g)) =>
         \A r \in Ranks : generations[g].learned[r] \subseteq learned[r]
  /\ pc = "down" => \A g \in DOMAIN generations : ~Running(g)

IInv ==
  /\ ElasticTypeOK
  /\ StepAccounts
  /\ GradientsAreCurrent
  /\ NoneInFlight
  /\ CheckpointsBehind
  /\ CurrentComplete
  /\ NoBatchSkipped

-----------------------------------------------------------------------------
(* The parameters and what does not change.                                *)
LEMMA RanksAreNumbers == Ranks \subseteq Nat /\ 0 \in Ranks
BY DEF Ranks

(* The invariant holds initially.                                          *)
LEMMA InvInit == Init => IInv
<1> SUFFICES ASSUME Init PROVE IInv
  OBVIOUS
<1>1. Ended \in Threads
  BY DEF Ended, Threads, Phases
<1>2. NoStep \in [pending : SUBSET Live, toJoin : SUBSET Live, kill : SUBSET Live,
                   newlyDead : SUBSET Live, results : SUBSET Live, late : BOOLEAN]
  BY DEF NoStep
<1>3. Untrained \in Batches /\ FromStart \in Positions
  BY DEF Untrained, FromStart, Batches, Positions
<1>4. ElasticTypeOK
  BY <1>1, <1>2, <1>3, RanksAreNumbers DEF Init, ElasticTypeOK
<1>5. StepAccounts /\ GradientsAreCurrent
  BY DEF Init, StepAccounts, GradientsAreCurrent, InStep, NoStep
<1>6. NoneInFlight /\ CurrentComplete
  BY DEF Init, NoneInFlight, CurrentComplete, InStep, Ended, Live
<1>7. NoBatchSkipped /\ CheckpointsBehind
  BY DEF Init, NoBatchSkipped, Covered, Untrained, FromStart, CheckpointsBehind
<1> QED
  BY <1>4, <1>5, <1>6, <1>7 DEF IInv

-----------------------------------------------------------------------------
(* The steps of a rank's thread touch that thread only, and none that has  *)
(* ended or was abandoned.                                                 *)
LEMMA ThreadStep ==
  ASSUME IInv, NEW r \in Ranks, Rank(r)
  PROVE  IInv'
<1> USE DEF IInv
<1>0. /\ \E t \in Threads :
            /\ Set(r, t)
            /\ (t.phase = "blocked" \/ t.outcome = "result")
                  => t.batch = loader[r] \/ ~InStep \/ r \notin Live
            /\ thread[r].phase # "ended"
      /\ UNCHANGED <<model, dead, driver, disk, last, bounds>>
  <2>1. thread[r] \in Threads /\ loader[r] \in Nat
    BY DEF ElasticTypeOK, Positions
  <2>2. CASE Compute(r)
    BY <2>1, <2>2 DEF Compute, Threads, Phases, Set, GradientsAreCurrent
  <2>3. CASE ComputeRaises(r)
    BY <2>1, <2>3 DEF ComputeRaises, Threads, Phases, Set, GradientsAreCurrent
  <2>4. CASE Pass(r)
    BY <2>1, <2>4 DEF Pass, Threads, Phases, Set, GradientsAreCurrent
  <2>5. CASE End(r)
    BY <2>1, <2>5 DEF End, Threads, Phases, Set, GradientsAreCurrent
  <2> QED
    BY <2>2, <2>3, <2>4, <2>5 DEF Rank
<1>1. PICK t \in Threads :
        /\ thread' = [thread EXCEPT ![r] = t]
        /\ (t.phase = "blocked" \/ t.outcome = "result")
              => t.batch = loader[r] \/ ~InStep \/ r \notin Live
        /\ thread[r].phase # "ended"
  BY <1>0 DEF Set
<1>2. UNCHANGED <<learned, loader, dead, pc, step, target, generations, last, current, steps,
                  deaths>>
  BY <1>0 DEF model, driver, disk, bounds
<1>3. Live' = Live
  BY <1>2 DEF Live
<1>4. ElasticTypeOK'
  BY <1>1, <1>2, <1>3 DEF ElasticTypeOK
<1>5. StepAccounts' /\ CurrentComplete' /\ NoBatchSkipped' /\ CheckpointsBehind'
  BY <1>2, <1>3
  DEF StepAccounts, InStep, CurrentComplete, NoBatchSkipped, CheckpointsBehind, Running
<1>6. thread \in [Ranks -> Threads]
  BY DEF ElasticTypeOK
<1>7. GradientsAreCurrent'
  BY <1>1, <1>2, <1>3, <1>6 DEF GradientsAreCurrent, InStep, Live
<1>8. NoneInFlight'
  BY <1>1, <1>2, <1>3, <1>6 DEF NoneInFlight, InStep, Live
<1> QED
  BY <1>4, <1>5, <1>7, <1>8

(* What the driver does up to the end of a step leaves the model and the   *)
(* disk alone.                                                             *)
Unmoved ==
  /\ UNCHANGED <<learned, loader, dead, target, generations, last, current>>
  /\ pc # "down" /\ pc' # "down"

LEMMA UnmovedKeeps ==
  IInv /\ Unmoved =>
    CurrentComplete' /\ NoBatchSkipped' /\ CheckpointsBehind' /\ Live' = Live
BY DEF IInv, Unmoved, CurrentComplete, NoBatchSkipped, Live, CheckpointsBehind, Running

StepSets == [pending : SUBSET Live, toJoin : SUBSET Live, kill : SUBSET Live,
             newlyDead : SUBSET Live, results : SUBSET Live, late : BOOLEAN]

(* The start of a step, the clock, the rendezvous and the joins.           *)
LEMMA RunStepKeeps ==
  ASSUME IInv, NEW kill \in SUBSET Live, RunStep(kill)
  PROVE  IInv'
<1> USE DEF IInv
<1>0. Started \in Threads /\ Started.phase = "computing" /\ Started.outcome = "none"
  BY DEF Started, Ended, Threads, Phases
<1>1. Unmoved /\ steps' = steps + 1 /\ UNCHANGED deaths
  BY DEF RunStep, Unmoved, model, disk, bounds
<1>2. CurrentComplete' /\ NoBatchSkipped' /\ CheckpointsBehind' /\ Live' = Live
  BY <1>1, UnmovedKeeps
<1>3. step' \in StepSets /\ pc' = "rendezvous"
  BY DEF RunStep, NoStep, StepSets
<1>4. thread \in [Ranks -> Threads]
  BY DEF ElasticTypeOK
<1>5. thread' \in [Ranks -> Threads]
  BY <1>0, <1>4 DEF RunStep
<1>6. ElasticTypeOK'
  BY <1>1, <1>2, <1>3, <1>5 DEF ElasticTypeOK, StepSets, Unmoved
<1>7. StepAccounts'
  BY <1>2, <1>3 DEF StepAccounts, RunStep, NoStep, InStep
<1>8. GradientsAreCurrent'
  BY <1>0, <1>2, <1>3 DEF GradientsAreCurrent, RunStep, NoStep, Live
<1>9. NoneInFlight'
  BY <1>3 DEF NoneInFlight, InStep
<1> QED
  BY <1>2, <1>6, <1>7, <1>8, <1>9

LEMMA DeadlineKeeps ==
  ASSUME IInv, DeadlinePasses
  PROVE  IInv'
<1> USE DEF IInv
<1>1. Unmoved /\ UNCHANGED <<thread, pc, steps, deaths>>
  BY DEF DeadlinePasses, Unmoved, model, disk, bounds
<1>2. CurrentComplete' /\ NoBatchSkipped' /\ CheckpointsBehind' /\ Live' = Live
  BY <1>1, UnmovedKeeps
<1>3. step \in StepSets /\ step' = [step EXCEPT !.late = TRUE]
  BY DEF DeadlinePasses, ElasticTypeOK, StepSets
<1>4. /\ step' \in StepSets
      /\ step'.pending = step.pending /\ step'.toJoin = step.toJoin /\ step'.kill = step.kill
      /\ step'.newlyDead = step.newlyDead /\ step'.results = step.results
  BY <1>3 DEF StepSets
<1>5. ElasticTypeOK'
  BY <1>1, <1>2, <1>4 DEF ElasticTypeOK, StepSets, Unmoved
<1>6. StepAccounts' /\ GradientsAreCurrent' /\ NoneInFlight'
  BY <1>1, <1>2, <1>4
  DEF StepAccounts, GradientsAreCurrent, NoneInFlight, InStep, DeadlinePasses, Unmoved
<1> QED
  BY <1>2, <1>5, <1>6

(* A step that is still waited for is no result.                           *)
LEMMA WaveKeeps ==
  ASSUME IInv, NEW r \in Ranks, Wave(r)
  PROVE  IInv'
<1> USE DEF IInv
<1>1. Unmoved /\ UNCHANGED <<pc, steps, deaths>>
  BY DEF Wave, Unmoved, model, disk, bounds
<1>2. CurrentComplete' /\ NoBatchSkipped' /\ CheckpointsBehind' /\ Live' = Live
  BY <1>1, UnmovedKeeps
<1>3. step \in StepSets /\ thread \in [Ranks -> Threads]
  BY DEF ElasticTypeOK, StepSets
<1>4. /\ step' \in StepSets
      /\ step'.pending = step.pending \ {r} /\ step'.kill = step.kill
      /\ step'.toJoin = IF r \in step.kill THEN step.toJoin ELSE step.toJoin \cup {r}
      /\ step'.newlyDead = step.newlyDead /\ step'.results = step.results
  BY <1>3 DEF StepSets, Wave
<1>5. /\ thread' \in [Ranks -> Threads]
      /\ \A q \in Ranks : /\ thread'[q].phase = thread[q].phase
                          /\ thread'[q].outcome = thread[q].outcome
                          /\ thread'[q].batch = thread[q].batch
  BY <1>3 DEF Wave, Set, Cancelled, Threads
<1>6. ElasticTypeOK'
  BY <1>1, <1>2, <1>4, <1>5 DEF ElasticTypeOK, StepSets, Unmoved
<1>7. StepAccounts'
  BY <1>1, <1>2, <1>4 DEF StepAccounts, InStep, Wave
<1>8. GradientsAreCurrent' /\ NoneInFlight'
  BY <1>1, <1>2, <1>3, <1>4, <1>5
  DEF GradientsAreCurrent, NoneInFlight, InStep, Unmoved, StepSets, Live
<1> QED
  BY <1>2, <1>6, <1>7, <1>8

LEMMA EndRendezvousKeeps ==
  ASSUME IInv, EndRendezvous
  PROVE  IInv'
<1> USE DEF IInv
<1>1. Unmoved /\ UNCHANGED <<steps, deaths>> /\ pc = "rendezvous" /\ pc' = "join"
  BY DEF EndRendezvous, Unmoved, model, disk, bounds
<1>2. CurrentComplete' /\ NoBatchSkipped' /\ CheckpointsBehind' /\ Live' = Live
  BY <1>1, UnmovedKeeps
<1>3. step \in StepSets /\ thread \in [Ranks -> Threads]
  BY DEF ElasticTypeOK, StepSets
<1>4. /\ step' \in StepSets
      /\ step'.toJoin = step.toJoin /\ step'.results = step.results
      /\ step'.newlyDead = step.pending \cup step.kill
  BY <1>3 DEF StepSets, EndRendezvous
<1>5. /\ thread' \in [Ranks -> Threads]
      /\ \A q \in Ranks : /\ thread'[q].phase = thread[q].phase
                          /\ thread'[q].outcome = thread[q].outcome
                          /\ thread'[q].batch = thread[q].batch
  BY <1>3 DEF EndRendezvous, Cancelled, Threads
<1>6. ElasticTypeOK'
  BY <1>1, <1>2, <1>4, <1>5 DEF ElasticTypeOK, StepSets, Unmoved
<1>7. StepAccounts'
  BY <1>1, <1>2, <1>4 DEF StepAccounts, InStep
<1>8. GradientsAreCurrent' /\ NoneInFlight'
  BY <1>1, <1>2, <1>3, <1>4, <1>5
  DEF GradientsAreCurrent, NoneInFlight, InStep, Unmoved, StepSets, Live
<1> QED
  BY <1>2, <1>6, <1>7, <1>8

LEMMA JoinedKeeps ==
  ASSUME IInv, NEW r \in Ranks, Joined(r)
  PROVE  IInv'
<1> USE DEF IInv
<1>1. Unmoved /\ UNCHANGED <<thread, pc, steps, deaths>> /\ pc = "join" /\ r \in step.toJoin
  BY DEF Joined, First, Unmoved, model, disk, bounds
<1>2. CurrentComplete' /\ NoBatchSkipped' /\ CheckpointsBehind' /\ Live' = Live
  BY <1>1, UnmovedKeeps
<1>3. step \in StepSets /\ thread \in [Ranks -> Threads]
  BY DEF ElasticTypeOK, StepSets
<1>4. /\ step' \in StepSets
      /\ step'.toJoin = step.toJoin \ {r}
      /\ \/ /\ thread[r].outcome = "result"
            /\ step'.results = step.results \cup {r}
            /\ step'.newlyDead = step.newlyDead
         \/ /\ step'.results = step.results
            /\ step'.newlyDead = step.newlyDead \cup {r}
  BY <1>1, <1>3 DEF StepSets, Joined, Collected
<1>5. ElasticTypeOK'
  BY <1>1, <1>2, <1>4 DEF ElasticTypeOK, StepSets, Unmoved
<1>6. StepAccounts'
  BY <1>1, <1>2, <1>4 DEF StepAccounts, InStep
<1>7. GradientsAreCurrent' /\ NoneInFlight'
  BY <1>1, <1>2, <1>3, <1>4
  DEF GradientsAreCurrent, NoneInFlight, InStep, Unmoved, StepSets, Live, Joined
<1> QED
  BY <1>2, <1>5, <1>6, <1>7

LEMMA JoinTimesOutKeeps ==
  ASSUME IInv, NEW r \in Ranks, JoinTimesOut(r)
  PROVE  IInv'
<1> USE DEF IInv
<1>1. Unmoved /\ UNCHANGED <<pc, steps, deaths>> /\ pc = "join" /\ r \in step.toJoin
  BY DEF JoinTimesOut, First, Unmoved, model, disk, bounds
<1>2. CurrentComplete' /\ NoBatchSkipped' /\ CheckpointsBehind' /\ Live' = Live
  BY <1>1, UnmovedKeeps
<1>3. step \in StepSets /\ thread \in [Ranks -> Threads]
  BY DEF ElasticTypeOK, StepSets
<1>4. /\ step' \in StepSets
      /\ step'.toJoin = step.toJoin \ {r} /\ step'.results = step.results
      /\ step'.newlyDead = step.newlyDead \cup {r}
  BY <1>1, <1>3 DEF StepSets, JoinTimesOut
<1>5. /\ thread' \in [Ranks -> Threads]
      /\ \A q \in Ranks : /\ thread'[q].phase = thread[q].phase
                          /\ thread'[q].outcome = thread[q].outcome
                          /\ thread'[q].batch = thread[q].batch
  BY <1>3 DEF JoinTimesOut, Set, Cancelled, Threads
<1>6. ElasticTypeOK'
  BY <1>1, <1>2, <1>4, <1>5 DEF ElasticTypeOK, StepSets, Unmoved
<1>7. StepAccounts'
  BY <1>1, <1>2, <1>4 DEF StepAccounts, InStep
<1>8. GradientsAreCurrent' /\ NoneInFlight'
  BY <1>1, <1>2, <1>3, <1>4, <1>5
  DEF GradientsAreCurrent, NoneInFlight, InStep, Unmoved, StepSets, Live
<1> QED
  BY <1>2, <1>6, <1>7, <1>8

-----------------------------------------------------------------------------
(* The end of a step: the ranks that stay alive are those whose gradients  *)
(* came, so none has a step in flight.                                     *)
LEMMA EndStepKeeps ==
  ASSUME IInv, EndStep, learned' \in Batches, loader' \in Positions, Covered(learned', loader'),
         \A r \in Ranks : learned[r] \subseteq learned'[r]
  PROVE  IInv'
<1> USE DEF IInv
<1>1. /\ pc = "join" /\ pc' = "idle" /\ step' = NoStep /\ step.toJoin = {}
      /\ dead' = dead \cup step.newlyDead
      /\ UNCHANGED <<target, generations, last, current, steps, deaths>>
  BY DEF EndStep, disk, bounds
<1>2. step \in StepSets /\ thread \in [Ranks -> Threads]
  BY DEF ElasticTypeOK, StepSets
<1>3. Abandoned \in Threads
  BY DEF Abandoned, Ended, Threads, Phases
<1>4. thread' \in [Ranks -> Threads]
  BY <1>2, <1>3 DEF EndStep
<1>5. NoStep \in StepSets'
  BY DEF NoStep, StepSets
<1>6. ElasticTypeOK'
  BY <1>1, <1>2, <1>4, <1>5 DEF ElasticTypeOK, StepSets, Live
<1>7. StepAccounts' /\ GradientsAreCurrent'
  BY <1>1 DEF StepAccounts, GradientsAreCurrent, InStep, NoStep
<1>8. \A r \in Live' : r \in step.results /\ thread'[r] = thread[r]
  BY <1>1, <1>2 DEF Live, StepAccounts, EndStep, StepSets
<1>9. NoneInFlight'
  BY <1>8 DEF NoneInFlight, GradientsAreCurrent
<1>10. CurrentComplete' /\ NoBatchSkipped'
  BY <1>1 DEF CurrentComplete, NoBatchSkipped
<1>11. CheckpointsBehind'
  BY <1>1 DEF CheckpointsBehind, Running
<1> QED
  BY <1>6, <1>7, <1>9, <1>10, <1>11

LEMMA AverageKeeps ==
  ASSUME IInv, Average
  PROVE  IInv'
<1> USE DEF IInv
<1>1. step \in StepSets /\ thread \in [Ranks -> Threads]
  BY DEF ElasticTypeOK, StepSets
<1>2. learned \in Batches /\ loader \in Positions
  BY DEF ElasticTypeOK
<1>3. EndStep
  BY DEF Average
<1>4. \A r \in Ranks : thread[r].batch \in Nat
  BY <1>1 DEF Threads
<1>5. learned' \in Batches /\ loader' \in Positions
  BY <1>2, <1>4 DEF Average, Batches, Positions
<1>6. \A r \in step.results : thread[r].batch = loader[r]
  BY <1>1, <1>3 DEF GradientsAreCurrent, EndStep, InStep, StepSets
<1>7. ASSUME NEW r \in Ranks, NEW b \in 0..(loader'[r] - 1)
      PROVE  b \in learned'[r]
  <2>1. \A c \in 0..(loader[r] - 1) : c \in learned[r]
    BY DEF NoBatchSkipped, Covered
  <2>2. loader[r] \in Nat
    BY <1>2 DEF Positions
  <2>3. CASE r \in step.results
    <3>1. learned'[r] = learned[r] \cup {loader[r]} /\ loader'[r] = loader[r] + 1
      BY <2>3, <1>6 DEF Average
    <3>2. b \in 0..(loader[r] - 1) \/ b = loader[r]
      BY <3>1, <2>2, <1>7
    <3> QED
      BY <3>1, <3>2, <2>1
  <2>4. CASE r \notin step.results
    BY <2>1, <2>4, <1>7 DEF Average
  <2> QED
    BY <2>3, <2>4
<1>8. Covered(learned', loader')
  BY <1>7 DEF Covered
<1>9. \A r \in Ranks : learned[r] \subseteq learned'[r]
  BY <1>2 DEF Average, Batches
<1> QED
  BY <1>3, <1>5, <1>8, <1>9, EndStepKeeps

LEMMA AllDiedKeeps ==
  ASSUME IInv, AllDied
  PROVE  IInv'
<1>1. EndStep /\ learned' = learned /\ loader' = loader
  BY DEF AllDied, model
<1>2. learned' \in Batches /\ loader' \in Positions /\ Covered(learned', loader')
  BY <1>1 DEF IInv, ElasticTypeOK, NoBatchSkipped
<1> QED
  BY <1>1, <1>2, EndStepKeeps

-----------------------------------------------------------------------------
(* What a step that leaves the driver and its threads alone has to show.   *)
Aside == UNCHANGED <<learned, loader, dead, thread, pc, step, target, steps, deaths>>

LEMMA AsideKeeps ==
  ASSUME IInv, Aside,
         generations' \in Seq(Generations),
         last' \in 0..Len(generations'), current' \in 0..Len(generations'),
         CurrentComplete',
         CheckpointsBehind',
         \A g \in DOMAIN generations' :
            Covered(generations'[g].learned, generations'[g].loader)
  PROVE  IInv'
<1>1. Live' = Live /\ InStep' = InStep
  BY DEF Aside, Live, InStep
<1>2. ElasticTypeOK'
  BY <1>1 DEF IInv, ElasticTypeOK, Aside
<1>3. StepAccounts' /\ GradientsAreCurrent' /\ NoneInFlight'
  BY <1>1 DEF IInv, StepAccounts, GradientsAreCurrent, NoneInFlight, Aside
<1>4. NoBatchSkipped'
  BY DEF IInv, NoBatchSkipped, Aside, Covered
<1> QED
  BY <1>2, <1>3, <1>4 DEF IInv

(* A new snapshot is one of a job in which no batch was skipped.           *)
LEMMA CheckpointKeeps ==
  ASSUME IInv, Checkpoint
  PROVE  IInv'
<1> USE DEF IInv
<1>1. Aside /\ generations' = Append(generations, Snapshot) /\ current' = current
  BY DEF Checkpoint, Aside, model, driver, bounds
<1>2. Snapshot \in Generations
  BY DEF Snapshot, Generations, ElasticTypeOK
<1>3. generations \in Seq(Generations) /\ current \in 0..Len(generations)
  BY DEF ElasticTypeOK
<1>4. generations' \in Seq(Generations) /\ Len(generations') = Len(generations) + 1
  BY <1>1, <1>2, <1>3
<1>5. last' \in 0..Len(generations') /\ current' \in 0..Len(generations')
  BY <1>1, <1>3, <1>4 DEF Checkpoint
<1>6. \A g \in DOMAIN generations' :
        generations'[g] = IF g = Len(generations) + 1 THEN Snapshot ELSE generations[g]
  BY <1>1, <1>3, <1>4
<1>7. CurrentComplete'
  BY <1>1, <1>3, <1>4, <1>6 DEF CurrentComplete
<1>8. Covered(Snapshot.learned, Snapshot.loader)
  BY DEF Snapshot, NoBatchSkipped
<1>9. \A g \in DOMAIN generations' : Covered(generations'[g].learned, generations'[g].loader)
  BY <1>3, <1>4, <1>6, <1>8 DEF NoBatchSkipped
<1>10. CheckpointsBehind'
  BY <1>1, <1>3, <1>4, <1>6 DEF CheckpointsBehind, Running, Snapshot, Checkpoint, Aside
<1> QED
  BY <1>1, <1>4, <1>5, <1>7, <1>9, <1>10, AsideKeeps

(* The writer's steps change neither what a snapshot holds nor a file that *)
(* is there.                                                               *)
LEMMA WriterKeeps ==
  ASSUME IInv, NEW g \in 1..MaxCheckpoints, Writer(g)
  PROVE  IInv'
<1> USE DEF IInv
<1>1. generations \in Seq(Generations) /\ current \in 0..Len(generations)
  BY DEF ElasticTypeOK
<1>2. g \in DOMAIN generations
  BY DEF Writer, Write, Publish, WriteFails, Running
<1>3. generations[g] \in Generations
  BY <1>1, <1>2
<1>4. Aside /\ last' = last
  BY DEF Writer, Write, Publish, WriteFails, Aside, model, driver, bounds
<1>5. PICK new \in Generations :
        /\ generations' = [generations EXCEPT ![g] = new]
        /\ new.learned = generations[g].learned /\ new.loader = generations[g].loader
        /\ generations[g].complete => new.complete
        /\ new.writer = "running" => generations[g].writer = "running"
        /\ current' = current \/ (current' = g /\ new.complete)
  <2>1. CASE Write(g)
    <3>1. [generations[g] EXCEPT !.complete = TRUE] \in Generations
      BY <1>3 DEF Generations
    <3> QED
      BY <1>3, <2>1, <3>1 DEF Write, Generations
  <2>2. CASE Publish(g)
    <3>1. [generations[g] EXCEPT !.writer = "finished"] \in Generations
      BY <1>3 DEF Generations
    <3> QED
      BY <1>3, <2>2, <3>1 DEF Publish, Generations
  <2>3. CASE WriteFails(g)
    <3>1. [generations[g] EXCEPT !.writer = "failed"] \in Generations
      BY <1>3 DEF Generations
    <3> QED
      BY <1>3, <2>3, <3>1 DEF WriteFails, Generations
  <2> QED
    BY <2>1, <2>2, <2>3 DEF Writer
<1>6. generations' \in Seq(Generations) /\ Len(generations') = Len(generations)
  BY <1>1, <1>2, <1>5
<1>7. \A h \in DOMAIN generations' :
        /\ generations'[h].learned = generations[h].learned
        /\ generations'[h].loader = generations[h].loader
        /\ generations[h].complete => generations'[h].complete
        /\ generations'[h].writer = "running" => generations[h].writer = "running"
  BY <1>1, <1>2, <1>5, <1>6
<1>8. last' \in 0..Len(generations') /\ current' \in 0..Len(generations')
  BY <1>1, <1>2, <1>4, <1>5, <1>6 DEF ElasticTypeOK
<1>9. CurrentComplete'
  BY <1>1, <1>2, <1>5, <1>6, <1>7 DEF CurrentComplete
<1>10. \A h \in DOMAIN generations' : Covered(generations'[h].learned, generations'[h].loader)
  BY <1>1, <1>6, <1>7 DEF NoBatchSkipped
<1>11. Running(g)
  BY DEF Writer, Write, Publish, WriteFails
<1>12. CheckpointsBehind'
  BY <1>1, <1>4, <1>5, <1>6, <1>7, <1>11 DEF CheckpointsBehind, Running, Aside
<1> QED
  BY <1>4, <1>6, <1>8, <1>9, <1>10, <1>12, AsideKeeps

-----------------------------------------------------------------------------
(* Respawning, the death of the process and its resumption.                *)
LEMMA RespawnKeeps ==
  ASSUME IInv, (\E r \in Ranks : Respawn(r)) \/ RespawnRaises
  PROVE  IInv'
<1> USE DEF IInv
<1>1. /\ UNCHANGED <<learned, loader, dead, thread, step, generations, last, current, steps,
                     deaths>>
      /\ pc \in {"idle", "respawn"} /\ pc' \in {"idle", "respawn"}
      /\ target' \in Ranks
  BY DEF Respawn, RespawnRaises, Waited, model, disk, bounds, ElasticTypeOK
<1>2. Live' = Live
  BY <1>1 DEF Live
<1>3. ElasticTypeOK'
  BY <1>1, <1>2 DEF ElasticTypeOK
<1>4. StepAccounts' /\ GradientsAreCurrent' /\ NoneInFlight'
  BY <1>1, <1>2 DEF StepAccounts, GradientsAreCurrent, NoneInFlight, InStep
<1>5. CurrentComplete' /\ NoBatchSkipped' /\ CheckpointsBehind'
  BY <1>1 DEF CurrentComplete, NoBatchSkipped, CheckpointsBehind, Running
<1> QED
  BY <1>3, <1>4, <1>5

(* The restored position is one that the snapshot's model covers, and the  *)
(* live model has learned all that the snapshot's has.                     *)
LEMMA RestoreKeeps ==
  ASSUME IInv, Restore
  PROVE  IInv'
<1> USE DEF IInv
<1>1. /\ UNCHANGED <<learned, step, target, generations, last, current, steps, deaths>>
      /\ pc = "respawn" /\ pc' = "idle" /\ dead' = dead \ {target} /\ current # 0
      /\ loader' = [loader EXCEPT ![target] = generations[current].loader[target]]
      /\ thread' = [thread EXCEPT ![target] = Ended]
  BY DEF Restore, Waited, Unavailable, disk, bounds
<1>2. /\ target \in Ranks /\ loader \in Positions /\ current \in DOMAIN generations
      /\ thread \in [Ranks -> Threads] /\ generations \in Seq(Generations)
  BY <1>1 DEF ElasticTypeOK
<1>3. generations[current] \in Generations
  BY <1>2
<1>4. generations[current].loader[target] \in Nat
  BY <1>2, <1>3 DEF Generations, Positions
<1>5. loader' \in Positions
  BY <1>1, <1>2, <1>4 DEF Positions
<1>6. Ended \in Threads /\ Ended.phase = "ended"
  BY DEF Ended, Threads, Phases
<1>7. thread' \in [Ranks -> Threads]
  BY <1>1, <1>2, <1>6
<1>8. step = NoStep
  BY <1>1 DEF StepAccounts, InStep
<1>9. step' \in StepSets'
  BY <1>1, <1>8 DEF NoStep, StepSets
<1>10. ElasticTypeOK'
  BY <1>1, <1>5, <1>7, <1>9 DEF ElasticTypeOK, StepSets, Live
<1>11. StepAccounts' /\ GradientsAreCurrent'
  BY <1>1, <1>8 DEF StepAccounts, GradientsAreCurrent, InStep, NoStep
<1>12. NoneInFlight'
  BY <1>1, <1>2, <1>6 DEF NoneInFlight, InStep, Live
<1>13. CurrentComplete' /\ CheckpointsBehind'
  BY <1>1 DEF CurrentComplete, CheckpointsBehind, Running
<1>14. ASSUME NEW r \in Ranks, NEW b \in 0..(loader'[r] - 1)
       PROVE  b \in learned[r]
  <2>1. CASE r = target
    <3>1. b \in generations[current].learned[target]
      BY <1>1, <1>2, <1>14, <2>1 DEF NoBatchSkipped, Covered, Positions
    <3> QED
      BY <1>1, <1>2, <2>1, <3>1 DEF CheckpointsBehind
  <2>2. CASE r # target
    BY <1>1, <1>2, <1>14, <2>2 DEF NoBatchSkipped, Covered, Positions
  <2> QED
    BY <2>1, <2>2
<1>15. NoBatchSkipped'
  BY <1>1, <1>14 DEF NoBatchSkipped, Covered
<1> QED
  BY <1>10, <1>11, <1>12, <1>13, <1>15

LEMMA DieKeeps ==
  ASSUME IInv, Die
  PROVE  IInv'
<1> USE DEF IInv
<1>1. /\ pc' = "down" /\ learned' = Untrained /\ loader' = FromStart /\ dead' = {}
      /\ thread' = [r \in Ranks |-> Ended] /\ step' = NoStep /\ target' = 0 /\ last' = 0
      /\ UNCHANGED <<current, steps>> /\ deaths' = deaths + 1
  BY DEF Die
<1>2. generations \in Seq(Generations)
  BY DEF ElasticTypeOK
<1>3. ASSUME NEW g \in DOMAIN generations
      PROVE  /\ generations'[g] \in Generations
             /\ generations'[g].learned = generations[g].learned
             /\ generations'[g].loader = generations[g].loader
             /\ generations'[g].complete = generations[g].complete
             /\ generations'[g].writer # "running"
  <2>1. generations[g] \in Generations
    BY <1>2
  <2>2. [generations[g] EXCEPT !.writer = "lost"] \in Generations
    BY <2>1 DEF Generations
  <2>3. generations'[g] = IF Running(g) THEN [generations[g] EXCEPT !.writer = "lost"]
                                       ELSE generations[g]
    BY DEF Die
  <2> QED
    BY <2>1, <2>2, <2>3 DEF Running, Generations
<1>4. generations' = [g \in 1..Len(generations) |-> generations'[g]]
  BY <1>2 DEF Die
<1>5. generations' \in Seq(Generations) /\ Len(generations') = Len(generations)
  BY <1>2, <1>3, <1>4
<1>6. Ended \in Threads /\ Ended.phase = "ended"
  BY DEF Ended, Threads, Phases
<1>7. learned' \in Batches /\ loader' \in Positions
  BY <1>1 DEF Untrained, FromStart, Batches, Positions
<1>8. step' \in StepSets'
  BY <1>1 DEF NoStep, StepSets
<1>9. ElasticTypeOK'
  BY <1>1, <1>5, <1>6, <1>7, <1>8, RanksAreNumbers DEF ElasticTypeOK, StepSets
<1>10. StepAccounts' /\ GradientsAreCurrent' /\ NoneInFlight'
  BY <1>1, <1>6 DEF StepAccounts, GradientsAreCurrent, NoneInFlight, InStep, NoStep, Live
<1>11. DOMAIN generations' = DOMAIN generations
  BY <1>2, <1>5
<1>12. CheckpointsBehind'
  BY <1>1, <1>3, <1>11 DEF CheckpointsBehind, Running
<1>13. CurrentComplete'
  BY <1>1, <1>2, <1>3 DEF CurrentComplete, ElasticTypeOK
<1>14. Covered(learned', loader')
  BY <1>1 DEF Covered, Untrained, FromStart
<1>15. NoBatchSkipped'
  BY <1>3, <1>11, <1>14 DEF NoBatchSkipped
<1> QED
  BY <1>9, <1>10, <1>12, <1>13, <1>15

LEMMA ResumeKeeps ==
  ASSUME IInv, Resume
  PROVE  IInv'
<1> USE DEF IInv
<1>1. /\ pc = "down" /\ pc' = "idle"
      /\ UNCHANGED <<dead, thread, step, target, generations, last, current, steps, deaths>>
  BY DEF Resume, disk, bounds
<1>2. Live' = Live
  BY <1>1 DEF Live
<1>3. generations \in Seq(Generations) /\ current \in 0..Len(generations)
  BY DEF ElasticTypeOK
<1>4. learned' \in Batches /\ loader' \in Positions /\ Covered(learned', loader')
  <2>1. CASE current = 0
    BY <2>1 DEF Resume, Untrained, FromStart, Batches, Positions, Covered
  <2>2. CASE current # 0
    <3>1. current \in DOMAIN generations /\ generations[current] \in Generations
      BY <1>3, <2>2
    <3> QED
      BY <2>2, <3>1 DEF Resume, Generations, NoBatchSkipped
  <2> QED
    BY <2>1, <2>2
<1>5. ElasticTypeOK'
  BY <1>1, <1>2, <1>4 DEF ElasticTypeOK
<1>6. StepAccounts' /\ NoneInFlight'
  BY <1>1, <1>2 DEF StepAccounts, NoneInFlight, InStep
<1>7. GradientsAreCurrent'
  BY <1>1, <1>2 DEF GradientsAreCurrent, InStep
<1>8. CurrentComplete' /\ NoBatchSkipped'
  BY <1>1, <1>4 DEF CurrentComplete, NoBatchSkipped
<1>9. CheckpointsBehind'
  BY <1>1, <1>3 DEF CheckpointsBehind, Running, Resume
<1> QED
  BY <1>5, <1>6, <1>7, <1>8, <1>9

-----------------------------------------------------------------------------
(* Every step keeps the invariant.                                         *)
LEMMA InvStep == IInv /\ [Next]_vars => IInv'
<1> SUFFICES ASSUME IInv, [Next]_vars PROVE IInv'
  OBVIOUS
<1>1. CASE UNCHANGED vars
  <2>1. Aside /\ UNCHANGED <<generations, last, current>>
    BY <1>1 DEF vars, model, driver, disk, bounds, Aside
  <2> QED
    BY <2>1, AsideKeeps
    DEF IInv, ElasticTypeOK, CurrentComplete, NoBatchSkipped, CheckpointsBehind, Running, Aside
<1>2. CASE \E r \in Ranks : Rank(r)
  BY <1>2, ThreadStep
<1>3. CASE \E kill \in SUBSET Live : RunStep(kill)
  BY <1>3, RunStepKeeps
<1>4. CASE DeadlinePasses
  BY <1>4, DeadlineKeeps
<1>5. CASE Driver
  BY <1>5, WaveKeeps, JoinedKeeps, JoinTimesOutKeeps, EndRendezvousKeeps, AverageKeeps,
     AllDiedKeeps, RespawnKeeps, RestoreKeeps DEF Driver
<1>6. CASE Checkpoint
  BY <1>6, CheckpointKeeps
<1>7. CASE \E g \in 1..MaxCheckpoints : Writer(g)
  BY <1>7, WriterKeeps
<1>8. CASE (\E r \in Ranks : Respawn(r)) \/ Die \/ Resume
  BY <1>8, RespawnKeeps, DieKeeps, ResumeKeeps
<1> QED
  BY <1>1, <1>2, <1>3, <1>4, <1>5, <1>6, <1>7, <1>8 DEF Next

(* The invariant holds in every state.                                     *)
LEMMA Invariance == Spec => []IInv
<1> QED
  BY InvInit, InvStep, PTL DEF Spec

(* Every variable keeps the shape the job gives it.                        *)
THEOREM ElasticTypes == Spec => []ElasticTypeOK
<1>1. IInv => ElasticTypeOK
  BY DEF IInv
<1> QED
  BY <1>1, Invariance, PTL

(* Wherever the process dies, CURRENT names a complete generation.         *)
THEOREM CurrentIsComplete == Spec => []CurrentComplete
<1>1. IInv => CurrentComplete
  BY DEF IInv
<1> QED
  BY <1>1, Invariance, PTL

(* The model has learned from every batch before a loader's position,      *)
(* whichever ranks die, are late, fail or come back.                       *)
THEOREM NothingIsSkipped == Spec => []NoBatchSkipped
<1>1. IInv => NoBatchSkipped
  BY DEF IInv
<1> QED
  BY <1>1, Invariance, PTL

(* No live rank has a step in flight between two steps of the job.         *)
THEOREM StepsAreOver == Spec => []NoStepInFlight
<1>1. IInv => NoStepInFlight
  BY DEF IInv, NoneInFlight, InStep, NoStepInFlight
<1> QED
  BY <1>1, Invariance, PTL

=============================================================================
