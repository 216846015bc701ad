----------------------------- MODULE ResilientEM -----------------------------
(***************************************************************************)
(* ResilientMPEncodedData of utils/parallel/resilient_em.py: a driver asks *)
(* worker processes for the statistics of their resident shards, survives  *)
(* workers that die, report an error or do not answer in time, recomputes  *)
(* the shards they owed elsewhere, and respawns or blacklists their ranks. *)
(*                                                                         *)
(* A payload is the pair of a shard and the request whose model it was     *)
(* computed for.  A request is an update, which meets the workers before   *)
(* they compute, an initialization, or a scoring (llsum).  Every pipe is a *)
(* pair of queues, so that a reply nobody read is still there when the     *)
(* next one is expected.  Here the worker that a shard is moved to answers *)
(* in time; LateMigrations.tla drops that, and has the branches for        *)
(* replies that are out of step.                                           *)
(***************************************************************************)
EXTENDS Naturals, Sequences, FiniteSets, FiniteSetsExt, Functions

CONSTANTS
  NumWorkers,      \* num_workers: worker ids and shard ids are both 1..NumWorkers
  MaxRetries,      \* max_retries
  MaxFaults,       \* bound: crashes, errors, timeouts and failed spawns of a behaviour
  MaxRequests      \* bound: requests of a behaviour

ASSUME PoolAssumption ==
  /\ NumWorkers \in Nat \ {0}
  /\ MaxRetries \in Nat \ {0}
  /\ MaxFaults \in Nat
  /\ MaxRequests \in Nat

Workers == 1..NumWorkers
Shards == Workers

VARIABLES
  conns,      \* keys of _conns and _procs
  homes,      \* _worker_shards; {} where it has no entry
  failures,   \* _failures
  blacklist,  \* _blacklist
  alive,      \* the worker processes that run
  resident,   \* resident[w]: the shards that process holds
  blocked,    \* blocked[w]: the update the process waits for "go" with, if any
  inbox,      \* inbox[w], outbox[w]: the two directions of its pipe
  outbox,
  pc,         \* where the driver is
  call,       \* the locals of the driver's current request
  requests, answers,
  faults

rankVars == <<conns, homes, failures, blacklist>>
workerVars == <<alive, resident, blocked, inbox, outbox>>
vars == <<rankVars, workerVars, pc, call, requests, answers, faults>>

Pcs == {"idle", "acks", "results", "recover", "redoAck", "redoResult", "respawn", "moving"}

(* The requests, and the command that recovers one shard for each.         *)
Kinds == {"update", "init", "llsum"}
ShardCommand == [update |-> "update_shard", init |-> "init_shard", llsum |-> "llsum_shard"]
ShardCommands == {"update_shard", "init_shard", "llsum_shard"}

(* A command; shards are those whose bytes or seeds it carries.            *)
Command(op, shards, k) == [op |-> op, shards |-> shards, request |-> k]
Commands ==
  [op : Kinds \cup ShardCommands \cup {"add", "go"}, shards : SUBSET Shards, request : Nat]

(* A reply: stats is a list of shards and payloads, scores one of shards,  *)
(* counts and sums; that to a shard command has the command's kind.        *)
Reply(kind, shards, k) == [kind |-> kind, shards |-> shards, request |-> k]
Replies ==
  [kind : ShardCommands \cup {"started", "stats", "scores", "added", "err"},
   shards : SUBSET Shards, request : Nat]

ListKind(kind) == IF kind = "llsum" THEN "scores" ELSE "stats"

NoCall ==
  [kind |-> "update", todo |-> {}, begun |-> {}, failed |-> {}, bad |-> FALSE,
   got |-> [s \in Shards |-> <<>>], lost |-> {}, assigned |-> [w \in Workers |-> {}],
   redo |-> {}, attempted |-> {}, target |-> 0, moves |-> {}]

(* __init__: rank w is spawned with shard w.  A constructor that fails     *)
(* closes what it spawned and raises: there is no handle then.             *)
Init ==
  /\ conns = Workers
  /\ homes = [w \in Workers |-> {w}]
  /\ failures = [w \in Workers |-> 0]
  /\ blacklist = {}
  /\ alive = Workers
  /\ resident = [w \in Workers |-> {w}]
  /\ blocked = [w \in Workers |-> {}]
  /\ inbox = [w \in Workers |-> <<>>]
  /\ outbox = [w \in Workers |-> <<>>]
  /\ pc = "idle"
  /\ call = NoCall
  /\ requests = 0
  /\ answers = <<>>
  /\ faults = 0

Live == conns \ blacklist

Fault ==
  /\ faults < MaxFaults
  /\ faults' = faults + 1

-----------------------------------------------------------------------------
(* Worker processes (_worker_main)                                         *)

Put(w, reply) == outbox' = [outbox EXCEPT ![w] = Append(@, reply)]

Take(w) ==
  /\ w \in alive
  /\ inbox[w] # <<>>
  /\ inbox' = [inbox EXCEPT ![w] = Tail(@)]
  /\ UNCHANGED <<rankVars, alive, pc, call, requests, answers>>

(* update and update_shard: acknowledge, then wait for "go".               *)
Acknowledge(w) ==
  /\ blocked[w] = {}
  /\ Take(w)
  /\ LET m == Head(inbox[w]) IN
       /\ m.op \in {"update", "update_shard"}
       /\ blocked' = [blocked EXCEPT ![w] = {m}]
       /\ Put(w, Reply("started", {}, 0))
  /\ UNCHANGED <<resident, faults>>

(* The statistics a command asks for: of every resident shard, or of the   *)
(* one whose bytes came with it.                                           *)
Statistics(w, m) ==
  IF m.op \in ShardCommands
  THEN Reply(m.op, m.shards, m.request)
  ELSE Reply(ListKind(m.op), resident[w], m.request)

(* An initialization needs a seed for every resident shard.                *)
Seeded(w, m) == m.op = "init" => resident[w] \subseteq m.shards

(* The computation answers, or a seed is missing (a KeyError), or the      *)
(* estimator or the encoder raises.                                        *)
Compute(w, m) ==
  \/ Seeded(w, m) /\ Put(w, Statistics(w, m)) /\ UNCHANGED faults
  \/ ~Seeded(w, m) /\ Put(w, Reply("err", {}, 0)) /\ UNCHANGED faults
  \/ Put(w, Reply("err", {}, 0)) /\ Fault

ComputeAfterGo(w) ==
  /\ Take(w)
  /\ \E m \in blocked[w] : Compute(w, m)
  /\ blocked' = [blocked EXCEPT ![w] = {}]
  /\ UNCHANGED resident

ComputeAtOnce(w) ==
  /\ blocked[w] = {}
  /\ Take(w)
  /\ Head(inbox[w]).op \in {"init", "llsum", "init_shard", "llsum_shard"}
  /\ Compute(w, Head(inbox[w]))
  /\ UNCHANGED <<blocked, resident>>

AddShard(w) ==
  /\ blocked[w] = {}
  /\ Take(w)
  /\ LET m == Head(inbox[w]) IN
       /\ m.op = "add"
       /\ \/ /\ resident' = [resident EXCEPT ![w] = @ \cup m.shards]
             /\ Put(w, Reply("added", {}, 0))
             /\ UNCHANGED faults
          \/ /\ Put(w, Reply("err", {}, 0))
             /\ Fault
             /\ UNCHANGED resident
  /\ UNCHANGED blocked

(* The process dies.  What it already wrote can still be read.             *)
Crash(w) ==
  /\ w \in alive
  /\ Fault
  /\ alive' = alive \ {w}
  /\ blocked' = [blocked EXCEPT ![w] = {}]
  /\ inbox' = [inbox EXCEPT ![w] = <<>>]
  /\ UNCHANGED <<rankVars, resident, outbox, pc, call, requests, answers>>

Work(w) == Acknowledge(w) \/ ComputeAfterGo(w) \/ ComputeAtOnce(w) \/ AddShard(w)

-----------------------------------------------------------------------------
(* What the driver does with a pipe                                        *)

(* _send_raw to each of W; sending to a dead process fails.                *)
Send(W, m) ==
  inbox' = [w \in Workers |-> IF w \in W \cap alive THEN Append(inbox[w], m) ELSE inbox[w]]

(* _recv_raw takes the next reply off the pipe.  It returns a reply that   *)
(* is no error ...                                                         *)
Taken(w) == [outbox EXCEPT ![w] = IF @ = <<>> THEN @ ELSE Tail(@)]

Receives(w) ==
  /\ outbox[w] # <<>>
  /\ Head(outbox[w]).kind # "err"
  /\ UNCHANGED faults

(* ... and raises for an error reply, at the end of file, and when the     *)
(* deadline passes before the worker answers.                              *)
DeadlinePasses(w) == outbox[w] = <<>> /\ w \in alive /\ Fault

RecvRaises(w) ==
  \/ outbox[w] # <<>> /\ Head(outbox[w]).kind = "err" /\ UNCHANGED faults
  \/ outbox[w] = <<>> /\ w \notin alive /\ UNCHANGED faults
  \/ DeadlinePasses(w)

(* Mutant: only the failure is counted, and the worker stays in the pool   *)
(* with whatever its pipe holds.                                           *)
MutRetire(W) ==
  /\ failures' = [w \in Workers |-> IF w \in W THEN failures[w] + 1 ELSE failures[w]]
  /\ UNCHANGED <<conns, homes, blacklist, workerVars>>

(* _retire_failed_workers: the pipes of W are closed, its processes        *)
(* stopped, and what they held is remembered in the caller's locals.       *)
Retire(W) ==
  /\ failures' = [w \in Workers |-> IF w \in W THEN failures[w] + 1 ELSE failures[w]]
  /\ homes' = [w \in Workers |-> IF w \in W THEN {} ELSE homes[w]]
  /\ conns' = conns \ W
  /\ alive' = alive \ W
  /\ resident' = [w \in Workers |-> IF w \in W THEN {} ELSE resident[w]]
  /\ blocked' = [w \in Workers |-> IF w \in W THEN {} ELSE blocked[w]]
  /\ inbox' = [w \in Workers |-> IF w \in W THEN <<>> ELSE inbox[w]]
  /\ outbox' = [w \in Workers |-> IF w \in W THEN <<>> ELSE outbox[w]]
  /\ UNCHANGED blacklist

AssignedWith(W) == [w \in Workers |-> IF w \in W THEN homes[w] ELSE call.assigned[w]]

(* _spawn_worker.  Only the new process and the driver take part, so it is *)
(* one step: the process runs, has the encoder and holds the shards.       *)
Spawn(w, shards) ==
  /\ conns' = conns \cup {w}
  /\ homes' = [homes EXCEPT ![w] = shards]
  /\ alive' = alive \cup {w}
  /\ resident' = [resident EXCEPT ![w] = shards]
  /\ UNCHANGED <<failures, blacklist, blocked, inbox, outbox>>

(* An exception leaves the request as it is: nothing is put back.          *)
Raise ==
  /\ pc' = "idle"
  /\ call' = NoCall
  /\ UNCHANGED <<requests, answers>>

(* The new process dies or does not answer: it is retired, its rank gets   *)
(* no failure, and the exception ends the request.                         *)
SpawnRaises ==
  /\ Fault
  /\ Raise
  /\ UNCHANGED <<rankVars, workerVars>>

-----------------------------------------------------------------------------
(* The round: send, meet, collect                                          *)

(* An initialization sends each worker the seeds of the shards that the    *)
(* driver believes it holds.                                               *)
RequestFor(w, kind, k) == Command(kind, IF kind = "init" THEN homes[w] ELSE {}, k)

StartRequest(kind) ==
  /\ pc = "idle"
  /\ Live # {}
  /\ requests < MaxRequests
  /\ requests' = requests + 1
  /\ inbox' = [w \in Workers |-> IF w \in Live \cap alive
                                THEN Append(inbox[w], RequestFor(w, kind, requests + 1))
                                ELSE inbox[w]]
  /\ pc' = IF kind = "update" THEN "acks" ELSE "results"
  /\ call' = [NoCall EXCEPT !.kind = kind, !.todo = Live \cap alive, !.failed = Live \ alive]
  /\ UNCHANGED <<rankVars, alive, resident, blocked, outbox, answers, faults>>

(* No worker is left, after close() or because every rank was lost: an     *)
(* update refuses, the others find no payload for any shard.               *)
Refuse ==
  /\ pc = "idle"
  /\ Live = {}
  /\ requests < MaxRequests
  /\ requests' = requests + 1
  /\ UNCHANGED <<rankVars, workerVars, pc, call, answers, faults>>

(* Anything but an error counts as the acknowledgement.                    *)
ReadAck ==
  /\ pc = "acks"
  /\ call.todo # {}
  /\ LET w == Min(call.todo) IN
       /\ outbox' = Taken(w)
       /\ \/ /\ Receives(w)
             /\ call' = [call EXCEPT !.todo = @ \ {w}, !.begun = @ \cup {w}]
          \/ /\ RecvRaises(w)
             /\ call' = [call EXCEPT !.todo = @ \ {w}, !.failed = @ \cup {w}]
  /\ UNCHANGED <<rankVars, alive, resident, blocked, inbox, pc, requests, answers>>

(* Every worker that acknowledged and still runs is waved through.         *)
Go ==
  /\ pc = "acks"
  /\ call.todo = {}
  /\ Send(call.begun, Command("go", {}, 0))
  /\ call' = [call EXCEPT !.todo = call.begun \cap alive,
                          !.failed = @ \cup (call.begun \ alive)]
  /\ pc' = "results"
  /\ UNCHANGED <<rankVars, alive, resident, blocked, outbox, requests, answers, faults>>

(* The payloads of a collected reply, each with the shard it is of.        *)
Received(r) ==
  [s \in Shards |->
     IF s \in r.shards THEN Append(call.got[s], <<s, r.request>>) ELSE call.got[s]]

ReadResult ==
  /\ pc = "results"
  /\ call.todo # {}
  /\ LET w == Min(call.todo) IN
       /\ outbox' = Taken(w)
       /\ \/ /\ Receives(w)
             /\ Head(outbox[w]).kind = ListKind(call.kind)
             /\ call' = [call EXCEPT !.todo = @ \ {w}, !.got = Received(Head(outbox[w]))]
          \/ /\ RecvRaises(w)
             /\ call' = [call EXCEPT !.todo = @ \ {w}, !.failed = @ \cup {w}]
  /\ UNCHANGED <<rankVars, alive, resident, blocked, inbox, pc, requests, answers>>

-----------------------------------------------------------------------------
(* Recovery of the shards that failed workers owed (_request_recovery)     *)

(* Mutant: one failure redoes every shard.                                 *)
MutRetireFailed ==
  /\ pc = "results"
  /\ call.todo = {}
  /\ Retire(call.failed)
  /\ call' = [call EXCEPT !.lost = @ \cup call.failed,
                          !.assigned = AssignedWith(call.failed),
                          !.redo = IF call.failed = {} THEN {} ELSE Shards]
  /\ pc' = "recover"
  /\ UNCHANGED <<requests, answers, faults>>

(* The whole failed set is retired before any recovery target is chosen.   *)
RetireFailed ==
  /\ pc = "results"
  /\ call.todo = {}
  /\ ~(call.kind = "update" /\ call.bad)
  /\ Retire(call.failed)
  /\ call' = [call EXCEPT !.lost = @ \cup call.failed,
                          !.assigned = AssignedWith(call.failed),
                          !.redo = UNION {homes[w] : w \in call.failed}]
  /\ pc' = "recover"
  /\ UNCHANGED <<requests, answers, faults>>

Candidates == Live \ call.attempted

(* The ranks that a recovery without candidates may bring back early.      *)
Retryable ==
  {w \in call.lost \ (call.attempted \cup blacklist) : failures[w] < MaxRetries}

AskTarget ==
  /\ pc = "recover"
  /\ call.redo # {}
  /\ Candidates # {}
  /\ LET w == Min(Candidates)
         m == Command(ShardCommand[call.kind], {Min(call.redo)}, requests)
         tried == [call EXCEPT !.target = w, !.attempted = @ \cup {w}]
     IN IF w \in alive
        THEN /\ Send({w}, m)
             /\ call' = tried
             /\ pc' = IF call.kind = "update" THEN "redoAck" ELSE "redoResult"
             /\ UNCHANGED <<rankVars, alive, resident, blocked, outbox>>
        ELSE /\ Retire({w})
             /\ call' = [tried EXCEPT !.lost = @ \cup {w}, !.assigned = AssignedWith({w})]
             /\ pc' = "recover"
  /\ UNCHANGED <<requests, answers, faults>>

RespawnTarget ==
  /\ pc = "recover"
  /\ call.redo # {}
  /\ Candidates = {}
  /\ Retryable # {}
  /\ \/ /\ Spawn(Min(Retryable), call.assigned[Min(Retryable)])
        /\ UNCHANGED <<pc, call, requests, answers, faults>>
     \/ SpawnRaises

NoTargetLeft ==
  /\ pc = "recover"
  /\ call.redo # {}
  /\ Candidates = {}
  /\ Retryable = {}
  /\ Raise
  /\ UNCHANGED <<rankVars, workerVars, faults>>

(* The target fails while the driver waits for it, or before the "go".     *)
LoseTarget ==
  /\ pc \in {"redoAck", "redoResult"}
  /\ LET w == call.target IN
       /\ \/ RecvRaises(w)
          \/ pc = "redoAck" /\ w \notin alive /\ Receives(w)
       /\ Retire({w})
       /\ call' = [call EXCEPT !.lost = @ \cup {w}, !.assigned = AssignedWith({w})]
  /\ pc' = "recover"
  /\ UNCHANGED <<requests, answers>>

(* Mutant: the "go" of a recovery is forgotten.                            *)
MutReleaseTarget ==
  /\ pc = "redoAck"
  /\ call.target \in alive
  /\ Receives(call.target)
  /\ outbox' = Taken(call.target)
  /\ pc' = "redoResult"
  /\ UNCHANGED <<rankVars, alive, resident, blocked, inbox, call, requests, answers>>

(* The acknowledgement is read and "go" is sent.                           *)
ReleaseTarget ==
  /\ pc = "redoAck"
  /\ call.target \in alive
  /\ Receives(call.target)
  /\ outbox' = Taken(call.target)
  /\ Send({call.target}, Command("go", {}, 0))
  /\ pc' = "redoResult"
  /\ UNCHANGED <<rankVars, alive, resident, blocked, call, requests, answers>>

(* The reply is taken as that of the shard asked for; that to update_shard *)
(* names no shard, the others do and are compared.                         *)
ReadRedo ==
  /\ pc = "redoResult"
  /\ Receives(call.target)
  /\ outbox' = Taken(call.target)
  /\ LET r == Head(outbox[call.target])
         s == Min(call.redo)
     IN /\ r.kind = ShardCommand[call.kind]
        /\ call.kind = "update" \/ s \in r.shards
        /\ call' = [call EXCEPT !.redo = @ \ {s}, !.attempted = {},
                                !.got[s] = Append(@, <<Min(r.shards), r.request>>)]
  /\ pc' = "recover"
  /\ UNCHANGED <<rankVars, alive, resident, blocked, inbox, requests, answers>>

-----------------------------------------------------------------------------
(* After the recovery: ranks come back or are given up                     *)

(* Mutant: a rank is given up one failure early.                           *)
MutGivenUp == {w \in call.lost : failures[w] >= MaxRetries - 1}

GivenUp == {w \in call.lost : failures[w] >= MaxRetries}

(* Mutant: a rank that is given up is respawned as well.                   *)
MutComeBack == call.lost \ conns

ComeBack == call.lost \ (GivenUp \cup conns)

(* Mutant: the shards of every lost rank move, also of those that return.  *)
MutMoving == UNION {call.assigned[w] : w \in call.lost}

Moving == UNION {call.assigned[w] : w \in GivenUp}

Restore ==
  /\ pc = "recover"
  /\ call.redo = {}
  /\ blacklist' = blacklist \cup GivenUp
  /\ call' = [call EXCEPT !.todo = ComeBack, !.moves = Moving]
  /\ pc' = "respawn"
  /\ UNCHANGED <<conns, homes, failures, workerVars, requests, answers, faults>>

Respawn ==
  /\ pc = "respawn"
  /\ call.todo # {}
  /\ LET w == Min(call.todo) IN
       \/ /\ Spawn(w, call.assigned[w])
          /\ call' = [call EXCEPT !.todo = @ \ {w}]
          /\ UNCHANGED <<pc, requests, answers, faults>>
       \/ SpawnRaises

(* _migrate_shard_permanently.  None of its failures is caught.            *)
Migrate ==
  /\ pc = "respawn"
  /\ call.todo = {}
  /\ \E s \in call.moves :
       IF Live = {} \/ Min(Live) \notin alive
       THEN Raise /\ UNCHANGED inbox
       ELSE /\ Send({Min(Live)}, Command("add", {s}, 0))
            /\ call' = [call EXCEPT !.target = Min(Live), !.redo = {s},
                                    !.moves = @ \ {s}]
            /\ pc' = "moving"
            /\ UNCHANGED <<requests, answers>>
  /\ UNCHANGED <<rankVars, alive, resident, blocked, outbox, faults>>

(* Mutant: the new home of a shard is not recorded.                        *)
MutShardMoved ==
  /\ pc = "moving"
  /\ Receives(call.target)
  /\ outbox' = Taken(call.target)
  /\ call' = [call EXCEPT !.redo = {}]
  /\ pc' = "respawn"
  /\ UNCHANGED <<rankVars, alive, resident, blocked, inbox, requests, answers>>

ShardMoved ==
  /\ pc = "moving"
  /\ Receives(call.target)
  /\ outbox' = Taken(call.target)
  /\ homes' = [homes EXCEPT ![call.target] = @ \cup call.redo]
  /\ call' = [call EXCEPT !.redo = {}]
  /\ pc' = "respawn"
  /\ UNCHANGED <<conns, failures, blacklist, alive, resident, blocked, inbox, requests, answers>>

MoveRaises ==
  /\ pc = "moving"
  /\ RecvRaises(call.target)
  /\ ~DeadlinePasses(call.target)
  /\ outbox' = Taken(call.target)
  /\ Raise
  /\ UNCHANGED <<rankVars, alive, resident, blocked, inbox>>

(* _canonical_shard_payloads and the fold in shard order.                  *)
Fold ==
  /\ pc = "respawn"
  /\ call.todo = {}
  /\ call.moves = {}
  /\ IF ~call.bad /\ \A s \in Shards : Len(call.got[s]) = 1
     THEN answers' = Append(answers, [request |-> requests,
                                      fold |-> [s \in Shards |-> call.got[s][1]]])
     ELSE UNCHANGED answers
  /\ pc' = "idle"
  /\ call' = NoCall
  /\ UNCHANGED <<rankVars, workerVars, requests, faults>>

(* close(), between requests: every process is stopped.                    *)
Close ==
  /\ pc = "idle"
  /\ conns # {}
  /\ conns' = {}
  /\ alive' = {}
  /\ blocked' = [w \in Workers |-> {}]
  /\ inbox' = [w \in Workers |-> <<>>]
  /\ outbox' = [w \in Workers |-> <<>>]
  /\ UNCHANGED <<homes, failures, blacklist, resident, pc, call, requests, answers, faults>>

-----------------------------------------------------------------------------
Driver ==
  \/ ReadAck \/ Go \/ ReadResult
  \/ RetireFailed \/ AskTarget \/ RespawnTarget \/ NoTargetLeft
  \/ LoseTarget \/ ReleaseTarget \/ ReadRedo
  \/ Restore \/ Respawn \/ Migrate \/ ShardMoved \/ MoveRaises \/ Fold

Next ==
  \/ \E kind \in Kinds : StartRequest(kind)
  \/ Refuse
  \/ Driver
  \/ Close
  \/ \E w \in Workers : Work(w) \/ Crash(w)

(* The driver does not stop inside a request, and a process that runs      *)
(* handles its commands; nobody has to make requests, or to close.         *)
Spec == Init /\ [][Next]_vars /\ WF_vars(Driver) /\ \A w \in Workers : WF_vars(Work(w))

-----------------------------------------------------------------------------
(* Types: every variable keeps the shape the driver and the workers give   *)
(* it, and a rank that was blacklisted has used up its retries.            *)
PoolTypeOK ==
  /\ conns \subseteq Workers
  /\ homes \in [Workers -> SUBSET Shards]
  /\ failures \in [Workers -> Nat]
  /\ blacklist = {w \in Workers : failures[w] >= MaxRetries /\ w \in blacklist}
  /\ alive \subseteq Workers
  /\ resident \in [Workers -> SUBSET Shards]
  /\ blocked \in [Workers -> SUBSET Commands]
  /\ \A w \in Workers : Range(inbox[w]) \subseteq Commands /\ Range(outbox[w]) \subseteq Replies
  /\ pc \in Pcs
  /\ call.got \in [Shards -> Seq(Shards \X Nat)]
  /\ requests \in 0..MaxRequests
  /\ faults \in 0..MaxFaults

Step == INSTANCE ShardedStep WITH NumShards <- NumWorkers, busy <- (pc # "idle")

(* A request is answered only by one payload per shard, each computed for  *)
(* the model of this request, or it raises, whatever fails while it runs:  *)
(* "recovery is bit-identical".                                            *)
ImplementsShardedStep == Step!Spec

(* No two processes hold the same shard, at any moment of a respawn or of  *)
(* a migration, so that no shard is counted twice.                         *)
OneHolder == \A v, w \in alive : v # w => resident[v] \cap resident[w] = {}

(* After an answer the pool is whole again: every rank that is not         *)
(* blacklisted has a worker, every shard has exactly one home among them,  *)
(* and the processes hold what the driver believes they hold.              *)
ReadyAfterAnswer ==
  pc = "idle" /\ conns # {} /\ answers # <<>> /\ answers[Len(answers)].request = requests
    => /\ conns = Workers \ blacklist
       /\ \A s \in Shards : Cardinality({w \in conns : s \in homes[w]}) = 1
       /\ \A w \in conns : resident[w] = homes[w]

(* What a surviving worker answered is kept: a recovery recomputes only    *)
(* shards nobody delivered, and no shard is delivered twice.               *)
OnlyOwedShardsRedone ==
  /\ \A s \in Shards : Len(call.got[s]) <= 1
  /\ pc \in {"recover", "redoAck", "redoResult"} => \A s \in call.redo : call.got[s] = <<>>

(* A blacklisted rank never gets a process again.                          *)
BlacklistIsForever == [][\A w \in blacklist : w \in blacklist' /\ w \notin conns']_vars

(* Every request returns or raises: the search for a recovery target ends, *)
(* because each failure uses up a target.                                  *)
RequestsEnd == (pc # "idle") ~> (pc = "idle")

=============================================================================
