---------------------------- MODULE ResilientProofs ----------------------------
(***************************************************************************)
(* Proofs about ResilientEM, for any number of workers, retries and        *)
(* faults.  The invariant says what each pipe may hold at each point of a  *)
(* request, so that a reply is read by the request it was made for, and    *)
(* who owns each shard, be it a worker or a rank that is to come back.     *)
(***************************************************************************)
EXTENDS ResilientEM, FiniteSetTheorems, WellFoundedInduction, TLAPS

USE PoolAssumption

Calls ==
  [kind : Kinds, todo : SUBSET Workers, begun : SUBSET Workers,
   failed : SUBSET Workers, bad : {FALSE}, got : [Shards -> Seq(Shards \X Nat)],
   lost : SUBSET Workers, assigned : [Workers -> SUBSET Shards], redo : SUBSET Shards,
   attempted : SUBSET Workers, target : Nat, moves : SUBSET Shards]

(* The commands that meet the driver before they compute.                 *)
Meets(m) == m.op \in {"update", "update_shard"}

Types ==
  /\ conns \in SUBSET Workers
  /\ homes \in [Workers -> SUBSET Shards]
  /\ failures \in [Workers -> Nat]
  /\ blacklist \in SUBSET Workers
  /\ alive \in SUBSET conns
  /\ resident \in [Workers -> SUBSET Shards]
  /\ blocked \in [Workers -> SUBSET {m \in Commands : Meets(m)}]
  /\ inbox \in [Workers -> Seq(Commands)]
  /\ outbox \in [Workers -> Seq(Replies)]
  /\ pc \in Pcs
  /\ call \in Calls
  /\ requests \in 0..MaxRequests
  /\ faults \in 0..MaxFaults

-----------------------------------------------------------------------------
(* What a pipe may hold                                                    *)

GoCommand == Command("go", {}, 0)
Started == Reply("started", {}, 0)
Error == Reply("err", {}, 0)

Pipe(w, i, b, o) == inbox[w] = i /\ blocked[w] = b /\ outbox[w] = o
Quiet(w) == Pipe(w, <<>>, {}, <<>>)

(* The replies that command m may get after its rendezvous.                *)
Answers(m) ==
  {Error} \cup IF m.op \in ShardCommands THEN {Reply(m.op, m.shards, m.request)}
               ELSE IF m.op = "add" THEN {Reply("added", {}, 0)}
               ELSE {Reply(ListKind(m.op), S, m.request) : S \in SUBSET Shards}

(* w was sent m and nothing was read from it yet.                          *)
Asked(w, m) ==
  \/ w \in alive /\ Pipe(w, <<m>>, {}, <<>>)
  \/ w \in alive /\ Pipe(w, <<>>, {m}, <<Started>>)
  \/ w \notin alive /\ (Quiet(w) \/ Pipe(w, <<>>, {}, <<Started>>))

(* Its acknowledgement was read.                                           *)
Waits(w, m) == IF w \in alive THEN Pipe(w, <<>>, {m}, <<>>) ELSE Quiet(w)

(* It may compute, and owes the answer to m.                               *)
Owes(w, m) ==
  \/ w \in alive /\ Pipe(w, IF Meets(m) THEN <<GoCommand>> ELSE <<m>>,
                            IF Meets(m) THEN {m} ELSE {}, <<>>)
  \/ \E r \in Answers(m) : Pipe(w, <<>>, {}, <<r>>)
  \/ w \notin alive /\ Quiet(w)

(* It failed in this request and may still have a command to take.         *)
Leftover(w) ==
  inbox[w] = <<>> \/ \E m \in Commands : m.op # "add" /\ inbox[w] = <<m>>

RoundCommand(w) == RequestFor(w, call.kind, requests)
RedoCommand == Command(ShardCommand[call.kind], {Min(call.redo)}, requests)
MoveCommand == Command("add", call.redo, 0)

OthersQuiet == \A w \in Workers \ {call.target} : Quiet(w)

(* No command and no reply outlives its request, except those of workers   *)
(* that failed in it and are about to be retired.                          *)
Pipes ==
  /\ \A w \in Workers \ conns : Quiet(w)
  /\ pc \in {"idle", "recover", "respawn"} => \A w \in Workers : Quiet(w)
  /\ pc = "acks" =>
       /\ call.kind = "update"
       /\ \A w \in Workers :
            /\ w \in call.todo => Asked(w, RoundCommand(w))
            /\ w \in call.begun => Waits(w, RoundCommand(w))
            /\ w \in call.failed => Leftover(w)
            /\ w \notin call.todo \cup call.begun \cup call.failed => Quiet(w)
  /\ pc = "results" =>
       \A w \in Workers :
         /\ w \in call.todo => Owes(w, RoundCommand(w))
         /\ w \in call.failed => Leftover(w)
         /\ w \notin call.todo \cup call.failed => Quiet(w)
  /\ pc \in {"redoAck", "redoResult", "moving"} =>
       call.target \in conns /\ call.redo # {} /\ OthersQuiet
  /\ pc = "redoAck" => call.kind = "update" /\ Asked(call.target, RedoCommand)
  /\ pc = "redoResult" => Owes(call.target, RedoCommand)
  /\ pc = "moving" => Owes(call.target, MoveCommand)

(* Every payload that was kept is of its shard, and of this request.       *)
Payloads ==
  /\ pc = "idle" => call = NoCall
  /\ \A s \in Shards : \A i \in 1..Len(call.got[s]) : call.got[s][i] = <<s, requests>>

-----------------------------------------------------------------------------
(* Ranks and shards                                                        *)

(* The ranks of this request that were lost and may still come back.       *)
Absent ==
  IF pc \in {"recover", "redoAck", "redoResult"} THEN call.lost
  ELSE IF pc \in {"respawn", "moving"} THEN call.todo
  ELSE {}

Ranks ==
  /\ blacklist \cap conns = {}
  /\ \A w \in blacklist : failures[w] >= MaxRetries
  /\ pc \in {"acks", "results"} =>
       call.lost = {} /\ call.todo \cup call.begun \cup call.failed \subseteq conns
  /\ Absent \in SUBSET (Workers \ blacklist)
  /\ pc \notin {"respawn", "moving"} => \A w \in call.lost \cap conns : failures[w] < MaxRetries
  /\ pc \in {"respawn", "moving"} => call.todo \cap conns = {}

(* A shard belongs to the worker that holds it, or to the absent rank      *)
(* that will.                                                              *)
Claim(w) ==
  IF w \in conns THEN homes[w] ELSE IF w \in Absent THEN call.assigned[w] ELSE {}

(* The shards that have no rank any more.                                  *)
Loose == IF pc \in {"respawn", "moving"} THEN call.moves \cup call.redo ELSE {}

(* The new home of a shard holds it before the driver has recorded this.   *)
Arrived(w) == pc = "moving" /\ w = call.target /\ outbox[w] = <<Reply("added", {}, 0)>>

Owners ==
  /\ \A v, w \in Workers : v # w => Claim(v) \cap Claim(w) = {}
  /\ \A w \in Workers : Claim(w) \cap Loose = {}
  /\ pc = "moving" => call.redo \cap call.moves = {}
  /\ pc = "respawn" => call.redo = {}
  /\ \A w \in conns : resident[w] = IF Arrived(w) THEN homes[w] \cup call.redo ELSE homes[w]

IInv == Types /\ Pipes /\ Payloads /\ Ranks /\ Owners

-----------------------------------------------------------------------------
(* A non-empty set of workers has a least element.                         *)
LEMMA MinIn ==
  ASSUME NEW W \in SUBSET Workers, W # {}
  PROVE  Min(W) \in W
<1>1. W \subseteq Nat /\ IsFiniteSet(Workers)
  BY FS_Interval DEF Workers
<1> DEFINE upTo(x) == {z \in W : z <= x}
           T == {upTo(x) : x \in W}
<1>2. IsWellFoundedOn(StrictSubsetOrdering(Workers), FiniteSubsetsOf(Workers))
  BY FS_StrictSubsetOrderingWellFounded
<1>3. FiniteSubsetsOf(Workers) = SUBSET Workers
  BY <1>1, FS_FiniteSubsetsOfFinite
<1>4. T \subseteq SUBSET Workers /\ T # {}
  OBVIOUS
<1>5. PICK t \in T : \A u \in T : ~(<<u, t>> \in StrictSubsetOrdering(Workers))
  <2> HIDE DEF T
  <2>1. T \subseteq FiniteSubsetsOf(Workers)
    BY <1>3, <1>4
  <2> QED
    BY <1>2, <1>4, <2>1, WFMin
<1>6. PICK x \in W : t = upTo(x)
  OBVIOUS
<1>7. \A y \in W : x <= y
  <2> SUFFICES ASSUME NEW y \in W, ~(x <= y) PROVE FALSE
    OBVIOUS
  <2>0. x \in Nat /\ y \in Nat /\ y < x
    BY <1>1
  <2>1. upTo(y) \subseteq upTo(x) /\ x \in upTo(x) /\ x \notin upTo(y)
    <3>1. ASSUME NEW z \in upTo(y) PROVE z \in upTo(x)
      <4>1. z \in W /\ z <= y /\ z \in Nat
        BY <1>1
      <4>2. z <= x
        BY <2>0, <4>1
      <4> QED
        BY <4>1, <4>2
    <3>2. x \in upTo(x) /\ ~(x <= y)
      BY <2>0
    <3>3. x \notin upTo(y)
      BY <3>2
    <3> QED
      BY <3>1, <3>2, <3>3
  <2>2. <<upTo(y), t>> \in StrictSubsetOrdering(Workers)
    BY <1>4, <1>6, <2>1 DEF StrictSubsetOrdering
  <2> QED
    BY <1>5, <2>2
<1> QED
  BY <1>7 DEF Min

LEMMA MinOne ==
  ASSUME NEW x \in Workers
  PROVE  Min({x}) = x
BY MinIn

(* Sequences of one element.                                               *)
LEMMA Single ==
  ASSUME NEW S, NEW x \in S
  PROVE  /\ <<x>> \in Seq(S) /\ <<>> \in Seq(S)
         /\ Append(<<>>, x) = <<x>> /\ Head(<<x>>) = x /\ Tail(<<x>>) = <<>>
         /\ <<x>> # <<>>
OBVIOUS

(* The messages are well-typed.                                            *)
LEMMA Messages ==
  ASSUME NEW S \in SUBSET Shards, NEW k \in Nat
  PROVE  /\ \A op \in Kinds \cup ShardCommands \cup {"add", "go"} :
              Command(op, S, k) \in Commands
         /\ \A kind \in ShardCommands \cup {"started", "stats", "scores", "added", "err"} :
              Reply(kind, S, k) \in Replies
BY DEF Command, Commands, Reply, Replies

-----------------------------------------------------------------------------
(* What the processes do                                                   *)

(* Only process w and its pipe take part.                                  *)
Apart(w) ==
  /\ UNCHANGED <<rankVars, pc, call, requests, answers>>
  /\ w \in alive /\ alive' \in {alive, alive \ {w}}
  /\ \A v \in Workers \ {w} :
       /\ inbox'[v] = inbox[v] /\ blocked'[v] = blocked[v] /\ outbox'[v] = outbox[v]
       /\ resident'[v] = resident[v]

LEMMA CrashStep ==
  ASSUME Types, NEW w \in Workers, Crash(w)
  PROVE  /\ Types' /\ Apart(w) /\ resident' = resident /\ alive' = alive \ {w}
         /\ inbox'[w] = <<>> /\ blocked'[w] = {} /\ outbox'[w] = outbox[w]
<1>1. <<>> \in Seq(Commands) /\ faults' \in 0..MaxFaults
  BY DEF Crash, Fault, Types
<1>2. /\ w \in alive /\ alive' = alive \ {w}
      /\ blocked' = [blocked EXCEPT ![w] = {}] /\ inbox' = [inbox EXCEPT ![w] = <<>>]
      /\ UNCHANGED <<rankVars, resident, outbox, pc, call, requests, answers>>
  BY DEF Crash
<1>3. Types'
  BY <1>1, <1>2 DEF Types, rankVars
<1>4. Apart(w) /\ inbox'[w] = <<>> /\ blocked'[w] = {}
  BY <1>2 DEF Apart, Types
<1> QED
  BY <1>2, <1>3, <1>4

(* It takes the command at the head of its pipe.                           *)
LEMMA TakeStep ==
  ASSUME Types, NEW w \in Workers, Take(w),
         NEW b \in SUBSET {m \in Commands : Meets(m)}, NEW r \in Replies,
         NEW held \in SUBSET Shards,
         blocked' = [blocked EXCEPT ![w] = b], Put(w, r),
         resident' = [resident EXCEPT ![w] = held],
         UNCHANGED faults \/ Fault
  PROVE  /\ Types' /\ Apart(w) /\ alive' = alive /\ resident'[w] = held
         /\ inbox[w] # <<>> /\ Head(inbox[w]) \in Commands
         /\ inbox'[w] = Tail(inbox[w]) /\ blocked'[w] = b
         /\ outbox'[w] = Append(outbox[w], r)
<1>1. Head(inbox[w]) \in Commands /\ Tail(inbox[w]) \in Seq(Commands)
  BY DEF Take, Types
<1>2. Append(outbox[w], r) \in Seq(Replies)
  BY DEF Types
<1>3. faults' \in 0..MaxFaults
  BY DEF Types, Fault
<1>4. /\ inbox' = [inbox EXCEPT ![w] = Tail(inbox[w])]
      /\ outbox' = [outbox EXCEPT ![w] = Append(outbox[w], r)]
      /\ w \in alive /\ inbox[w] # <<>>
      /\ UNCHANGED <<rankVars, alive, pc, call, requests, answers>>
  BY DEF Take, Put
<1>5. Apart(w) /\ inbox'[w] = Tail(inbox[w]) /\ outbox'[w] = Append(outbox[w], r)
  BY <1>4 DEF Apart, Types
<1>6. Types'
  BY <1>1, <1>2, <1>3, <1>4 DEF Types, rankVars
<1> QED
  BY <1>1, <1>4, <1>5, <1>6 DEF Types

(* It acknowledges the command it took, or answers m with r.               *)
Acknowledges(w) ==
  /\ blocked[w] = {} /\ Meets(Head(inbox[w])) /\ resident' = resident
  /\ blocked'[w] = {Head(inbox[w])} /\ outbox'[w] = Append(outbox[w], Started)

Answers1(w, m, r) ==
  /\ IF Meets(m) THEN m \in blocked[w] ELSE blocked[w] = {} /\ m = Head(inbox[w])
  /\ blocked'[w] = {} /\ outbox'[w] = Append(outbox[w], r)
  /\ resident'[w] = IF m.op = "add" /\ r # Error THEN resident[w] \cup m.shards ELSE resident[w]

LEMMA WorkStep ==
  ASSUME Types, NEW w \in Workers, Work(w)
  PROVE  /\ Types' /\ Apart(w) /\ alive' = alive
         /\ inbox[w] # <<>> /\ inbox'[w] = Tail(inbox[w])
         /\ Acknowledges(w)
            \/ \E m \in Commands : \E r \in Answers(m) : Answers1(w, m, r)
<1>1. Error \in Replies /\ Started \in Replies /\ Reply("added", {}, 0) \in Replies
  BY Messages DEF Error, Started
<1>2. resident[w] \in SUBSET Shards /\ resident = [resident EXCEPT ![w] = resident[w]]
  BY DEF Types
<1>3. ASSUME Take(w) PROVE Head(inbox[w]) \in Commands
  BY <1>3 DEF Take, Types
<1>4. CASE Acknowledge(w)
  <2> DEFINE m == Head(inbox[w])
  <2>1. /\ Take(w) /\ Meets(m) /\ blocked[w] = {}
        /\ blocked' = [blocked EXCEPT ![w] = {m}]
        /\ Put(w, Started) /\ UNCHANGED <<resident, faults>>
    BY <1>4 DEF Acknowledge, Meets, Started
  <2>2. {m} \in SUBSET {n \in Commands : Meets(n)}
    BY <1>3, <2>1
  <2> HIDE DEF m
  <2>3. resident' = [resident EXCEPT ![w] = resident[w]]
    BY <1>2, <2>1
  <2>4. /\ Types' /\ Apart(w) /\ alive' = alive /\ resident'[w] = resident[w]
        /\ inbox[w] # <<>> /\ Head(inbox[w]) \in Commands
        /\ inbox'[w] = Tail(inbox[w]) /\ blocked'[w] = {m}
        /\ outbox'[w] = Append(outbox[w], Started)
    BY <1>1, <1>2, <2>1, <2>2, <2>3, TakeStep
  <2> QED
    BY <2>1, <2>4 DEF Acknowledges, m
<1>5. ASSUME NEW m \in Commands, NEW r \in Answers(m) \cap Replies, Take(w),
             IF Meets(m) THEN m \in blocked[w] ELSE blocked[w] = {} /\ m = Head(inbox[w]),
             blocked' = [blocked EXCEPT ![w] = {}], Put(w, r),
             UNCHANGED faults \/ Fault,
             resident' = [resident EXCEPT ![w] =
                            IF m.op = "add" /\ r # Error THEN @ \cup m.shards ELSE @]
      PROVE  /\ Types' /\ Apart(w) /\ alive' = alive
             /\ inbox[w] # <<>> /\ inbox'[w] = Tail(inbox[w])
             /\ Answers1(w, m, r)
  <2> DEFINE held == IF m.op = "add" /\ r # Error THEN resident[w] \cup m.shards ELSE resident[w]
  <2>1. held \in SUBSET Shards
    BY <1>2 DEF Commands
  <2>2. resident' = [resident EXCEPT ![w] = held]
    BY <1>5
  <2>4. resident'[w] = held
    BY <2>2 DEF Types
  <2> HIDE DEF held
  <2>3. /\ Types' /\ Apart(w) /\ alive' = alive /\ resident'[w] = held
        /\ inbox[w] # <<>> /\ inbox'[w] = Tail(inbox[w]) /\ blocked'[w] = {}
        /\ outbox'[w] = Append(outbox[w], r)
    BY <1>5, <2>1, <2>2, TakeStep
  <2> QED
    BY <1>5, <2>3 DEF Answers1, held
<1>6. ASSUME NEW m \in Commands, m.op # "add", m.op # "go", Compute(w, m),
             resident' = resident
      PROVE  \E r \in Answers(m) \cap Replies :
               /\ Put(w, r) /\ (UNCHANGED faults \/ Fault)
               /\ resident' = [resident EXCEPT ![w] =
                                 IF m.op = "add" /\ r # Error THEN @ \cup m.shards ELSE @]
  <2>1. CASE Put(w, Error) /\ Fault
    BY <1>1, <1>2, <1>6, <2>1 DEF Answers
  <2>2. CASE Put(w, Statistics(w, m)) /\ UNCHANGED faults
    <3>1. m.request \in Nat /\ m.shards \in SUBSET Shards
      BY DEF Commands
    <3>2. Statistics(w, m) \in Answers(m) \cap Replies
      BY <1>2, <1>6, <3>1, Messages DEF Statistics, Answers, ListKind
    <3> QED
      BY <1>2, <1>6, <2>2, <3>2
  <2>3. CASE Put(w, Error) /\ UNCHANGED faults
    BY <1>1, <1>2, <1>6, <2>3 DEF Answers
  <2> QED
    BY <1>6, <2>1, <2>2, <2>3 DEF Compute, Error
<1>7. CASE ComputeAfterGo(w)
  <2>1. PICK m \in blocked[w] : Compute(w, m)
    BY <1>7 DEF ComputeAfterGo
  <2>2. m \in Commands /\ Meets(m) /\ m.op # "add" /\ m.op # "go"
    BY <2>1 DEF Types, Meets
  <2> QED
    BY <1>5, <1>6, <1>7, <2>1, <2>2 DEF ComputeAfterGo
<1>8. CASE ComputeAtOnce(w)
  <2> DEFINE m == Head(inbox[w])
  <2>1. m \in Commands /\ ~Meets(m) /\ m.op # "add" /\ m.op # "go" /\ Compute(w, m)
    BY <1>3, <1>8 DEF ComputeAtOnce, Meets
  <2>2. blocked' = [blocked EXCEPT ![w] = {}] /\ Take(w) /\ blocked[w] = {} /\ resident' = resident
    BY <1>8 DEF ComputeAtOnce, Types
  <2> HIDE DEF m
  <2> QED
    BY <1>5, <1>6, <2>1, <2>2 DEF m
<1>9. CASE AddShard(w)
  <2> DEFINE m == Head(inbox[w])
  <2>1. m \in Commands /\ ~Meets(m) /\ m.op = "add"
    BY <1>3, <1>9 DEF AddShard, Meets
  <2>2. blocked' = [blocked EXCEPT ![w] = {}] /\ Take(w) /\ blocked[w] = {}
    BY <1>9 DEF AddShard, Types
  <2>3. Error # Reply("added", {}, 0)
    BY DEF Error, Reply
  <2>4. \E r \in Answers(m) \cap Replies :
          /\ Put(w, r) /\ (UNCHANGED faults \/ Fault)
          /\ resident' = [resident EXCEPT ![w] =
                            IF m.op = "add" /\ r # Error THEN @ \cup m.shards ELSE @]
    <3>1. /\ Put(w, Error) /\ Fault /\ resident' = resident
          \/ /\ Put(w, Reply("added", {}, 0)) /\ UNCHANGED faults
             /\ resident' = [resident EXCEPT ![w] = @ \cup m.shards]
      BY <1>9 DEF AddShard, Error
    <3>2. Error \in Answers(m) \cap Replies /\ Reply("added", {}, 0) \in Answers(m) \cap Replies
      BY <1>1, <2>1 DEF Answers, ShardCommands
    <3> HIDE DEF m
    <3> QED
      BY <1>2, <2>1, <2>3, <3>1, <3>2
  <2> HIDE DEF m
  <2> QED
    BY <1>5, <2>1, <2>2, <2>4 DEF m
<1> QED
  BY <1>4, <1>7, <1>8, <1>9 DEF Work

(* The predicates on a pipe survive what its process does.                 *)
LEMMA PipeKeeps ==
  ASSUME Types, NEW w \in Workers, Work(w) \/ Crash(w), NEW m \in Commands
  PROVE  /\ Quiet(w) => Quiet(w)'
         /\ Meets(m) /\ Asked(w, m) => Asked(w, m)'
         /\ Waits(w, m) => Waits(w, m)'
         /\ m.op # "go" /\ Owes(w, m) => Owes(w, m)'
         /\ Leftover(w) => Leftover(w)'
<1>1. CASE Crash(w)
  <2>1. /\ w \in alive /\ w \notin alive'
        /\ inbox'[w] = <<>> /\ blocked'[w] = {} /\ outbox'[w] = outbox[w]
    BY <1>1, CrashStep DEF Apart
  <2> QED
    BY <2>1 DEF Quiet, Asked, Waits, Owes, Leftover, Pipe
<1>2. CASE Work(w)
  <2>1. /\ w \in alive /\ w \in alive' /\ inbox[w] # <<>> /\ inbox'[w] = Tail(inbox[w])
        /\ Acknowledges(w) \/ \E n \in Commands : \E r \in Answers(n) : Answers1(w, n, r)
    BY <1>2, WorkStep DEF Apart
  <2>2. ~Quiet(w) /\ ~Waits(w, m)
    BY <2>1 DEF Quiet, Waits, Pipe
  <2>3. Leftover(w) => Leftover(w)'
    BY <2>1, Single DEF Leftover
  <2>4. ASSUME Meets(m), Asked(w, m) PROVE Asked(w, m)'
    <3>1. inbox[w] = <<m>> /\ blocked[w] = {} /\ outbox[w] = <<>>
      BY <2>1, <2>4 DEF Asked, Pipe
    <3>2. Head(inbox[w]) = m /\ Tail(inbox[w]) = <<>> /\ Append(outbox[w], Started) = <<Started>>
      BY <3>1, Single
    <3>3. Acknowledges(w)
      BY <2>1, <2>4, <3>1, <3>2 DEF Answers1
    <3> QED
      BY <2>1, <3>2, <3>3 DEF Acknowledges, Asked, Pipe
  <2>5. ASSUME m.op # "go", Owes(w, m) PROVE Owes(w, m)'
    <3>1. Pipe(w, IF Meets(m) THEN <<GoCommand>> ELSE <<m>>, IF Meets(m) THEN {m} ELSE {}, <<>>)
      BY <2>1, <2>5 DEF Owes, Quiet, Pipe
    <3>2. Tail(inbox[w]) = <<>> /\ outbox[w] = <<>> /\ (~Meets(m) => Head(inbox[w]) = m)
      BY <3>1, Single DEF Pipe
    <3>3. ~Acknowledges(w)
      BY <3>1, <3>2 DEF Acknowledges, Pipe
    <3>n. PICK n \in Commands : \E r \in Answers(n) : Answers1(w, n, r)
      BY <2>1, <3>3
    <3>4. PICK r \in Answers(n) : Answers1(w, n, r)
      BY <3>n
    <3>5. n = m
      BY <3>1, <3>2, <3>4 DEF Answers1, Pipe
    <3>6. Append(outbox[w], r) = <<r>>
      BY <3>2, Single
    <3>7. Pipe(w, <<>>, {}, <<r>>)'
      BY <2>1, <3>2, <3>4, <3>6 DEF Answers1, Pipe
    <3> QED
      BY <3>4, <3>5, <3>7 DEF Owes
  <2> QED
    BY <2>2, <2>3, <2>4, <2>5
<1> QED
  BY <1>1, <1>2

LEMMA OthersKeep ==
  ASSUME NEW w \in Workers, Apart(w), NEW v \in Workers \ {w}, NEW m
  PROVE  /\ Quiet(v)' <=> Quiet(v)
         /\ Asked(v, m)' <=> Asked(v, m)
         /\ Waits(v, m)' <=> Waits(v, m)
         /\ Owes(v, m)' <=> Owes(v, m)
         /\ Leftover(v)' <=> Leftover(v)
BY DEF Apart, Quiet, Asked, Waits, Owes, Leftover, Pipe

(* The command that a request sends to worker w.                          *)
LEMMA SentFirst ==
  ASSUME Types, NEW w \in Workers
  PROVE  /\ RoundCommand(w) \in Commands /\ RoundCommand(w).op \notin {"go", "add"}
         /\ call.kind = "update" <=> Meets(RoundCommand(w))
<1>1. call.kind \in Kinds /\ requests \in Nat
  BY DEF Types, Calls
<1>2. (IF call.kind = "init" THEN homes[w] ELSE {}) \in SUBSET Shards
  BY DEF Types
<1>3. RoundCommand(w) \in Commands /\ RoundCommand(w).op = call.kind
  BY <1>1, <1>2, Messages DEF RoundCommand, RequestFor, Command
<1> QED
  BY <1>1, <1>3 DEF Meets, Kinds

(* The commands that the driver sends.                                     *)
LEMMA Sent ==
  ASSUME Types
  PROVE  /\ RedoCommand.op \in ShardCommands /\ RedoCommand.op \notin {"go", "add"}
         /\ call.kind = "update" <=> Meets(RedoCommand)
         /\ call.redo # {} => RedoCommand \in Commands /\ Min(call.redo) \in call.redo
         /\ MoveCommand \in Commands /\ MoveCommand.op = "add"
         /\ GoCommand \in Commands /\ GoCommand.op = "go"
<1>1. requests \in Nat /\ call.redo \in SUBSET Workers
  BY DEF Types, Calls, Shards
<1>2. call.redo # {} => Min(call.redo) \in call.redo
  BY <1>1, MinIn
<1>3. call.kind \in Kinds
  BY DEF Types, Calls
<1>5. /\ RedoCommand.op \in ShardCommands
      /\ call.kind = "update" <=> RedoCommand.op = "update_shard"
  BY <1>3 DEF RedoCommand, Command, Kinds, ShardCommand, ShardCommands
<1>6. call.redo # {} => RedoCommand \in Commands
  BY <1>1, <1>2, <1>5, Messages DEF RedoCommand, Command, Shards
<1> QED
  BY <1>1, <1>2, <1>3, <1>5, <1>6, Messages
  DEF MoveCommand, GoCommand, Command, Meets, Shards, Kinds, ShardCommands

LEMMA WorkKeepsPipes ==
  ASSUME Types, Pipes, NEW w \in Workers, Work(w) \/ Crash(w)
  PROVE  Pipes'
<1>1. Apart(w) /\ Types'
  BY CrashStep, WorkStep
<1>2. UNCHANGED <<conns, homes, pc, call, requests>>
  BY <1>1 DEF Apart, rankVars
<1>3. /\ \A v \in Workers : RoundCommand(v)' = RoundCommand(v)
      /\ RedoCommand' = RedoCommand /\ MoveCommand' = MoveCommand
  BY <1>2 DEF RoundCommand, RequestFor, RedoCommand, MoveCommand
<1>4. \A v \in Workers : Quiet(v) => Quiet(v)'
  BY <1>1, OthersKeep, PipeKeeps, Sent
<1>5. \A v \in Workers : Leftover(v) => Leftover(v)'
  BY <1>1, OthersKeep, PipeKeeps, Sent
<1>6. ASSUME NEW v \in Workers, NEW m \in Commands, Meets(m), Asked(v, m) PROVE Asked(v, m)'
  BY <1>1, <1>6, OthersKeep, PipeKeeps
<1>7. ASSUME NEW v \in Workers, NEW m \in Commands, Waits(v, m) PROVE Waits(v, m)'
  BY <1>1, <1>7, OthersKeep, PipeKeeps
<1>8. ASSUME NEW v \in Workers, NEW m \in Commands, m.op # "go", Owes(v, m) PROVE Owes(v, m)'
  BY <1>1, <1>8, OthersKeep, PipeKeeps
<1>9. CASE pc = "acks"
  <2>1. /\ call.kind = "update"
        /\ \A v \in Workers : Meets(RoundCommand(v)) /\ RoundCommand(v) \in Commands
    BY <1>9, SentFirst DEF Pipes
  <2>2. ASSUME NEW v \in Workers
        PROVE  /\ v \in call.todo => Asked(v, RoundCommand(v))'
               /\ v \in call.begun => Waits(v, RoundCommand(v))'
    <3>1. v \in call.todo => Asked(v, RoundCommand(v))
      BY <1>9 DEF Pipes
    <3>2. v \in call.begun => Waits(v, RoundCommand(v))
      BY <1>9 DEF Pipes
    <3> QED
      BY <1>3, <1>6, <1>7, <2>1, <3>1, <3>2
  <2> QED
    BY <1>2, <1>4, <1>5, <1>9, <2>1, <2>2 DEF Pipes
<1>10. CASE pc = "results"
  <2>1. \A v \in Workers : RoundCommand(v).op # "go" /\ RoundCommand(v) \in Commands
    BY SentFirst
  <2>2. ASSUME NEW v \in Workers, v \in call.todo PROVE Owes(v, RoundCommand(v))'
    BY <1>3, <1>8, <1>10, <2>1, <2>2 DEF Pipes
  <2> QED
    BY <1>2, <1>4, <1>5, <1>10, <2>2 DEF Pipes
<1>11. CASE pc \in {"redoAck", "redoResult", "moving"}
  <2>1. call.target \in Workers /\ call.redo # {} /\ OthersQuiet
    BY <1>11 DEF Pipes, Types
  <2>2. OthersQuiet'
    BY <1>2, <1>4, <2>1 DEF OthersQuiet
  <2>3. RedoCommand \in Commands /\ MoveCommand \in Commands
    BY <2>1, Sent
  <2>4. pc = "redoAck" => call.kind = "update" /\ Asked(call.target, RedoCommand)'
    BY <1>2, <1>3, <1>6, <2>1, <2>3, Sent DEF Pipes
  <2>5. pc = "redoResult" => Owes(call.target, RedoCommand)'
    BY <1>2, <1>3, <1>8, <2>1, <2>3, Sent DEF Pipes
  <2>6. pc = "moving" => Owes(call.target, MoveCommand)'
    BY <1>2, <1>3, <1>8, <2>1, <2>3, Sent DEF Pipes
  <2> QED
    BY <1>2, <1>4, <1>11, <2>1, <2>2, <2>4, <2>5, <2>6 DEF Pipes
<1>12. CASE pc \in {"idle", "recover", "respawn"}
  BY <1>2, <1>4, <1>12 DEF Pipes
<1> QED
  BY <1>9, <1>10, <1>11, <1>12 DEF Types, Pcs

(* Only a migration has a shard added.                                     *)
LEMMA OnlyMovesAdd ==
  ASSUME Types, Pipes, NEW w \in Workers, inbox[w] # <<>>, ~(pc = "moving" /\ w = call.target)
  PROVE  Head(inbox[w]).op # "add"
<1>1. ~Quiet(w) /\ \A m : ~Waits(w, m)
  BY DEF Quiet, Waits, Pipe
<1>2. ASSUME NEW m \in Commands, m.op # "add", Asked(w, m) \/ Owes(w, m)
      PROVE  Head(inbox[w]).op # "add"
  <2>1. inbox[w] = <<m>> \/ inbox[w] = <<GoCommand>>
    BY <1>1, <1>2 DEF Asked, Owes, Pipe
  <2>2. GoCommand.op # "add"
    BY Sent
  <2> QED
    BY <1>2, <2>1, <2>2, Single
<1>3. CASE pc = "acks"
  <2>1. Asked(w, RoundCommand(w)) \/ Leftover(w)
    BY <1>1, <1>3 DEF Pipes
  <2> QED
    BY <1>2, <2>1, Single, SentFirst DEF Leftover
<1>4. CASE pc = "results"
  <2>1. Owes(w, RoundCommand(w)) \/ Leftover(w)
    BY <1>1, <1>4 DEF Pipes
  <2> QED
    BY <1>2, <2>1, Single, SentFirst DEF Leftover
<1>5. CASE pc \in {"redoAck", "redoResult"}
  <2>1. (Asked(w, RedoCommand) \/ Owes(w, RedoCommand)) /\ call.redo # {}
    BY <1>1, <1>5 DEF Pipes, OthersQuiet
  <2> QED
    BY <1>2, <2>1, Sent
<1> QED
  BY <1>1, <1>3, <1>4, <1>5 DEF Pipes, Types, Pcs, OthersQuiet

LEMMA WorkKeepsResident ==
  ASSUME Types, Pipes, NEW w \in Workers, Work(w) \/ Crash(w), w \in conns,
         resident[w] = IF Arrived(w) THEN homes[w] \cup call.redo ELSE homes[w]
  PROVE  resident'[w] = IF Arrived(w)' THEN homes[w] \cup call.redo ELSE homes[w]
<1>1. Apart(w)
  BY CrashStep, WorkStep
<1>2. UNCHANGED <<pc, call>> /\ w \in alive
  BY <1>1 DEF Apart
<1>3. CASE Crash(w)
  BY <1>2, <1>3, CrashStep DEF Arrived
<1>4. CASE Work(w)
  <2>1. /\ inbox[w] # <<>> /\ inbox'[w] = Tail(inbox[w])
        /\ Acknowledges(w) \/ \E m \in Commands : \E r \in Answers(m) : Answers1(w, m, r)
    BY <1>4, WorkStep
  <2>2. CASE pc = "moving" /\ w = call.target
    <3>1. inbox[w] = <<MoveCommand>> /\ blocked[w] = {} /\ outbox[w] = <<>>
      BY <1>2, <2>1, <2>2, Sent DEF Pipes, Owes, Pipe, Meets
    <3>2. Head(inbox[w]) = MoveCommand /\ ~Meets(MoveCommand)
      BY <3>1, Single, Sent DEF Meets
    <3>3. PICK m \in Commands : \E r \in Answers(m) : Answers1(w, m, r)
      BY <2>1, <3>2 DEF Acknowledges
    <3>4. PICK r \in Answers(m) : Answers1(w, m, r)
      BY <3>3
    <3>5. m = MoveCommand
      BY <3>1, <3>2, <3>4 DEF Answers1
    <3>6. r \in {Error, Reply("added", {}, 0)} /\ Error # Reply("added", {}, 0)
      BY <3>5, Sent DEF Answers, Error, Reply, ShardCommands
    <3>7. outbox'[w] = <<r>>
      BY <3>1, <3>4, Single DEF Answers1
    <3>8. resident'[w] = IF r # Error THEN resident[w] \cup call.redo ELSE resident[w]
      BY <3>4, <3>5, Sent DEF Answers1, MoveCommand, Command
    <3>9. ~Arrived(w) /\ (Arrived(w)' <=> r # Error)
      BY <1>2, <2>2, <3>1, <3>6, <3>7 DEF Arrived
    <3> QED
      BY <3>8, <3>9
  <2>3. CASE ~(pc = "moving" /\ w = call.target)
    <3>1. Head(inbox[w]).op # "add"
      BY <2>1, <2>3, OnlyMovesAdd
    <3>2. resident'[w] = resident[w]
      BY <2>1, <3>1 DEF Acknowledges, Answers1, Meets
    <3> QED
      BY <1>2, <2>3, <3>2 DEF Arrived
  <2> QED
    BY <2>2, <2>3
<1> QED
  BY <1>3, <1>4

LEMMA WorkKeeps ==
  ASSUME IInv, NEW w \in Workers, Work(w) \/ Crash(w)
  PROVE  IInv'
<1> USE DEF IInv
<1>1. Apart(w) /\ Types' /\ Pipes'
  BY CrashStep, WorkStep, WorkKeepsPipes
<1>2. UNCHANGED <<rankVars, pc, call, requests>>
  BY <1>1 DEF Apart
<1>3. Payloads' /\ Ranks'
  BY <1>2 DEF Payloads, Ranks, Absent, rankVars
<1>4. Owners'
  <2>1. Absent' = Absent /\ Loose' = Loose
    BY <1>2 DEF Absent, Loose
  <2>2. \A v \in Workers : Claim(v)' = Claim(v)
    BY <1>2, <2>1 DEF Claim, rankVars
  <2>3. ASSUME NEW v \in conns
        PROVE  resident'[v] = IF Arrived(v)' THEN homes[v] \cup call.redo ELSE homes[v]
    <3>1. v \in Workers
      BY DEF Types
    <3>2. CASE v = w
      BY <3>2, WorkKeepsResident DEF Owners
    <3>3. CASE v # w
      BY <1>1, <1>2, <3>1, <3>3 DEF Apart, Arrived, Owners
    <3> QED
      BY <3>2, <3>3
  <2> QED
    BY <1>2, <2>1, <2>2, <2>3 DEF Owners, rankVars
<1> QED
  BY <1>1, <1>3, <1>4

-----------------------------------------------------------------------------
(* What the driver does: parts that several actions share                  *)

LEMMA NoCallType == NoCall \in Calls
BY DEF NoCall, Calls, Kinds

(* A step that neither moves shards nor is part of a migration.            *)
LEMMA OwnersStay ==
  ASSUME Types, Owners, UNCHANGED <<conns, homes, resident>>,
         pc # "moving", pc' \notin {"respawn", "moving"}, Absent' \subseteq Absent,
         call'.assigned = call.assigned \/ Absent' = {}
  PROVE  Owners'
<1>1. \A w \in Workers : Claim(w)' \subseteq Claim(w)
  BY DEF Claim, Types
<1>2. Loose' = {}
  BY DEF Loose
<1>3. \A w \in Workers : ~Arrived(w) /\ ~Arrived(w)'
  BY DEF Arrived
<1>4. \A w \in conns : w \in Workers
  BY DEF Types
<1> QED
  BY <1>1, <1>2, <1>3, <1>4 DEF Owners

(* A request ends and every pipe is quiet.                                 *)
LEMMA EndKeeps ==
  ASSUME IInv, UNCHANGED <<rankVars, resident, requests>>, pc' = "idle", call' = NoCall,
         pc # "moving", Types', \A w \in Workers : Quiet(w)'
  PROVE  IInv'
<1> USE DEF IInv
<1>1. Pipes'
  BY DEF Pipes
<1>2. Payloads'
  BY DEF Payloads, NoCall
<1>3. Absent' = {} /\ call'.lost = {}
  BY DEF Absent, NoCall
<1>4. Ranks'
  BY <1>3 DEF Ranks, rankVars
<1>5. Owners'
  BY <1>3, OwnersStay DEF rankVars
<1> QED
  BY <1>1, <1>2, <1>4, <1>5

LEMMA RefuseKeeps ==
  ASSUME IInv, Refuse
  PROVE  IInv'
<1> USE DEF IInv
<1>1. /\ pc = "idle" /\ requests' = requests + 1 /\ requests < MaxRequests
      /\ UNCHANGED <<rankVars, workerVars, pc, call, answers, faults>>
  BY DEF Refuse
<1>2. Types'
  BY <1>1 DEF Types, rankVars, workerVars
<1>3. Pipes' /\ Ranks' /\ Owners'
  BY <1>1 DEF Pipes, Quiet, Pipe, Ranks, Owners, Absent, Claim, Loose, Arrived, rankVars, workerVars
<1>4. Payloads'
  BY <1>1 DEF Payloads, NoCall
<1> QED
  BY <1>2, <1>3, <1>4

(* Pipes that a command is sent into, or that a reply is taken off.        *)
LEMMA SendStep ==
  ASSUME Types, NEW W \in SUBSET Workers, NEW m \in Commands, Send(W, m)
  PROVE  /\ inbox' \in [Workers -> Seq(Commands)]
         /\ \A w \in Workers :
              inbox'[w] = IF w \in W \cap alive THEN Append(inbox[w], m) ELSE inbox[w]
BY DEF Send, Types

LEMMA TakenStep ==
  ASSUME Types, NEW w \in Workers, outbox' = Taken(w)
  PROVE  /\ outbox' \in [Workers -> Seq(Replies)]
         /\ \A v \in Workers \ {w} : outbox'[v] = outbox[v]
         /\ outbox'[w] = IF outbox[w] = <<>> THEN <<>> ELSE Tail(outbox[w])
         /\ \A r \in Replies : outbox[w] = <<r>> => outbox'[w] = <<>> /\ Head(outbox[w]) = r
<1>1. outbox[w] # <<>> => Tail(outbox[w]) \in Seq(Replies)
  BY DEF Types
<1>2. outbox'[w] = IF outbox[w] = <<>> THEN <<>> ELSE Tail(outbox[w])
  BY DEF Taken, Types
<1>3. \A r \in Replies : outbox[w] = <<r>> => outbox'[w] = <<>> /\ Head(outbox[w]) = r
  BY <1>2, Single
<1> QED
  BY <1>1, <1>2, <1>3 DEF Taken, Types

LEMMA RecvFaults ==
  ASSUME Types, NEW w, Receives(w) \/ RecvRaises(w)
  PROVE  faults' \in 0..MaxFaults
BY DEF Types, Receives, RecvRaises, DeadlinePasses, Fault

LEMMA StartKeeps ==
  ASSUME IInv, NEW kind \in Kinds, StartRequest(kind)
  PROVE  IInv'
<1> USE DEF IInv
<1>m. PICK m : m = [w \in Workers |-> RequestFor(w, kind, requests + 1)]
  OBVIOUS
<1>1. /\ pc = "idle" /\ requests < MaxRequests /\ requests' = requests + 1
      /\ pc' = IF kind = "update" THEN "acks" ELSE "results"
      /\ call' = [NoCall EXCEPT !.kind = kind, !.todo = Live \cap alive,
                                !.failed = Live \ alive]
      /\ UNCHANGED <<rankVars, alive, resident, blocked, outbox, answers, faults>>
  BY DEF StartRequest
<1>2. ASSUME NEW w \in Workers
      PROVE  /\ m[w] \in Commands /\ m[w].op # "go" /\ m[w].op # "add"
             /\ kind = "update" <=> Meets(m[w])
  <2>1. requests + 1 \in Nat /\ (IF kind = "init" THEN homes[w] ELSE {}) \in SUBSET Shards
    BY DEF Types
  <2>2. m[w].op = kind
    BY <1>m DEF RequestFor, Command
  <2>3. m[w] \in Commands
    BY <1>m, <2>1, Messages DEF RequestFor
  <2> QED
    BY <2>2, <2>3 DEF Meets, Kinds
<1>3. Live \in SUBSET Workers /\ Live \subseteq conns
  BY DEF Types, Live
<1>4. /\ call' \in Calls /\ call'.lost = {} /\ call'.todo = Live \cap alive /\ call'.begun = {}
      /\ call'.failed = Live \ alive /\ call'.got = NoCall.got
      /\ call'.kind = kind
  BY <1>1, <1>3, NoCallType DEF Calls, NoCall
<1>5. /\ inbox' \in [Workers -> Seq(Commands)]
      /\ \A w \in Workers :
           inbox'[w] = IF w \in Live \cap alive THEN Append(inbox[w], m[w]) ELSE inbox[w]
  <2>1. inbox' = [w \in Workers |-> IF w \in Live \cap alive THEN Append(inbox[w], m[w])
                                    ELSE inbox[w]]
    BY <1>m DEF StartRequest
  <2> QED
    BY <1>2, <2>1 DEF Types
<1>6. Types'
  BY <1>1, <1>4, <1>5 DEF Types, rankVars, Pcs
<1>7. \A w \in Workers : Quiet(w)
  BY <1>1 DEF Pipes
<1>8. \A w \in Workers : w \notin call'.todo => Quiet(w)'
  BY <1>1, <1>4, <1>5, <1>7 DEF Quiet, Pipe
<1>9. ASSUME NEW w \in Workers, w \in call'.todo
      PROVE  w \in alive' /\ Pipe(w, <<m[w]>>, {}, <<>>)'
  <2>1. inbox'[w] = Append(<<>>, m[w]) /\ blocked'[w] = {} /\ outbox'[w] = <<>> /\ w \in alive'
    BY <1>1, <1>4, <1>5, <1>7, <1>9 DEF Quiet, Pipe
  <2>2. m[w] \in Commands
    BY <1>2
  <2>3. inbox'[w] = <<m[w]>>
    BY <2>1, <2>2, Single
  <2> QED
    BY <2>1, <2>3 DEF Pipe
<1>10. \A w \in Workers : RoundCommand(w)' = m[w]
  BY <1>m, <1>1, <1>4 DEF RoundCommand, RequestFor, rankVars
<1>11. Pipes'
  <2>1. ASSUME NEW w \in Workers, w \in call'.todo
        PROVE  /\ kind = "update" => Asked(w, RoundCommand(w))'
               /\ kind # "update" => Owes(w, RoundCommand(w))'
    BY <1>2, <1>9, <1>10, <2>1 DEF Asked, Owes
  <2>2. \A w \in Workers \ conns : Quiet(w)'
    BY <1>3, <1>4, <1>8
  <2>3. \A w \in Workers : w \in call'.failed => Leftover(w)'
    BY <1>4, <1>8 DEF Quiet, Leftover, Pipe
  <2> QED
    BY <1>1, <1>4, <1>8, <2>1, <2>2, <2>3 DEF Pipes, rankVars
<1>12. Payloads'
  BY <1>1, <1>4 DEF Payloads, NoCall
<1>13. Absent' = {}
  BY <1>1 DEF Absent
<1>14. Ranks'
  BY <1>1, <1>3, <1>4, <1>13 DEF Ranks, rankVars
<1>15. Owners'
  BY <1>1, <1>13, OwnersStay DEF rankVars
<1> QED
  BY <1>6, <1>11, <1>12, <1>14, <1>15

LEMMA ReadAckKeeps ==
  ASSUME IInv, ReadAck
  PROVE  IInv'
<1> USE DEF IInv
<1>w. PICK w : w = Min(call.todo)
  OBVIOUS
<1>1. /\ pc = "acks" /\ call.todo # {} /\ outbox' = Taken(w)
      /\ \/ /\ Receives(w)
            /\ call' = [call EXCEPT !.todo = @ \ {w}, !.begun = @ \cup {w}]
         \/ /\ RecvRaises(w)
            /\ call' = [call EXCEPT !.todo = @ \ {w}, !.failed = @ \cup {w}]
      /\ UNCHANGED <<rankVars, alive, resident, blocked, inbox, pc, requests, answers>>
  BY <1>w DEF ReadAck
<1>2. call.todo \in SUBSET Workers /\ call \in Calls
  BY DEF Types, Calls
<1>3. w \in call.todo /\ w \in Workers
  BY <1>w, <1>1, <1>2, MinIn
<1>4. /\ outbox' \in [Workers -> Seq(Replies)]
      /\ \A v \in Workers \ {w} : outbox'[v] = outbox[v]
      /\ \A r \in Replies : outbox[w] = <<r>> => outbox'[w] = <<>> /\ Head(outbox[w]) = r
      /\ outbox[w] = <<>> => outbox'[w] = <<>>
  BY <1>1, <1>3, TakenStep
<1>5. Types'
  <2>3. /\ call.todo \ {w} \in SUBSET Workers /\ call.begun \cup {w} \in SUBSET Workers
        /\ call.failed \cup {w} \in SUBSET Workers
    BY <1>2, <1>3 DEF Calls
  <2>4. \/ call' = [call EXCEPT !.todo = call.todo \ {w}, !.begun = call.begun \cup {w}]
        \/ call' = [call EXCEPT !.todo = call.todo \ {w}, !.failed = call.failed \cup {w}]
    BY <1>1
  <2>1. call' \in Calls
    BY <1>2, <2>3, <2>4 DEF Calls
  <2>2. faults' \in 0..MaxFaults
    BY <1>1, RecvFaults
  <2> QED
    BY <1>1, <1>4, <2>1, <2>2 DEF Types, rankVars
<1>6. /\ call'.todo = call.todo \ {w} /\ call'.kind = call.kind
      /\ call'.got = call.got /\ call'.lost = call.lost /\ call'.assigned = call.assigned
      /\ \/ /\ Receives(w) /\ call'.begun = call.begun \cup {w} /\ call'.failed = call.failed
         \/ /\ call'.begun = call.begun /\ call'.failed = call.failed \cup {w}
  BY <1>1, <1>2 DEF Calls
<1>7. \A v \in Workers : RoundCommand(v)' = RoundCommand(v)
  BY <1>1, <1>6 DEF RoundCommand, RequestFor, rankVars
<1>m. PICK m : m = RoundCommand(w)
  OBVIOUS
<1>8. Asked(w, m) /\ RoundCommand(w)' = m /\ m \in Commands /\ m.op # "add"
  BY <1>m, <1>1, <1>3, <1>7, SentFirst DEF Pipes
<1>9. \A v \in Workers \ {w} : \A c :
        /\ Quiet(v)' <=> Quiet(v)
        /\ Asked(v, c)' <=> Asked(v, c)
        /\ Waits(v, c)' <=> Waits(v, c)
        /\ Leftover(v)' <=> Leftover(v)
  BY <1>1, <1>4 DEF Quiet, Asked, Waits, Leftover, Pipe
<1>10. Receives(w) => Waits(w, RoundCommand(w))'
  <2>1. Started \in Replies
    BY Messages DEF Started
  <2>2. ASSUME Receives(w) PROVE outbox[w] = <<Started>> /\ inbox[w] = <<>>
        /\ blocked[w] = IF w \in alive THEN {m} ELSE {}
    BY <1>8, <2>2 DEF Receives, Asked, Quiet, Pipe
  <2> QED
    BY <1>1, <1>4, <1>8, <2>1, <2>2 DEF Waits, Quiet, Pipe
<1>11. Leftover(w)'
  BY <1>1, <1>8 DEF Asked, Leftover, Quiet, Pipe
<1>12. Waits(w, RoundCommand(w)) => Waits(w, RoundCommand(w))'
  BY <1>m, <1>1, <1>4, <1>8 DEF Waits, Quiet, Pipe
<1>13. Pipes'
  <2>1. ASSUME NEW v \in Workers
        PROVE  /\ v \in call'.todo => Asked(v, RoundCommand(v))'
               /\ v \in call'.begun => Waits(v, RoundCommand(v))'
               /\ v \in call'.failed => Leftover(v)'
               /\ v \notin call'.todo \cup call'.begun \cup call'.failed => Quiet(v)'
    <3>1. /\ v \in call.todo => Asked(v, RoundCommand(v))
          /\ v \in call.begun => Waits(v, RoundCommand(v))
          /\ v \in call.failed => Leftover(v)
          /\ v \notin call.todo \cup call.begun \cup call.failed => Quiet(v)
      BY <1>1 DEF Pipes
    <3>2. CASE v = w
      BY <1>6, <1>7, <1>10, <1>11, <1>12, <3>1, <3>2
    <3>3. CASE v # w
      BY <1>6, <1>7, <1>9, <3>1, <3>3
    <3> QED
      BY <3>2, <3>3
  <2>2. w \in conns
    BY <1>1, <1>3 DEF Ranks
  <2>3. \A v \in Workers \ conns : Quiet(v)'
    BY <1>9, <2>2 DEF Pipes
  <2> QED
    BY <1>1, <1>6, <2>1, <2>3 DEF Pipes, rankVars
<1>14. Payloads'
  BY <1>1, <1>6 DEF Payloads
<1>15. Absent' = {} /\ Absent = {}
  BY <1>1 DEF Absent
<1>16. Ranks'
  BY <1>1, <1>3, <1>6, <1>15 DEF Ranks, rankVars
<1>17. Owners'
  BY <1>1, <1>15, OwnersStay DEF rankVars
<1> QED
  BY <1>5, <1>13, <1>14, <1>16, <1>17

LEMMA GoKeeps ==
  ASSUME IInv, Go
  PROVE  IInv'
<1> USE DEF IInv
<1>1. /\ pc = "acks" /\ call.todo = {} /\ Send(call.begun, GoCommand)
      /\ call' = [call EXCEPT !.todo = call.begun \cap alive,
                              !.failed = call.failed \cup (call.begun \ alive)]
      /\ pc' = "results"
      /\ UNCHANGED <<rankVars, alive, resident, blocked, outbox, requests, answers, faults>>
  BY DEF Go, GoCommand
<1>2. call \in Calls /\ call.begun \in SUBSET Workers /\ call.failed \in SUBSET Workers
  BY DEF Types, Calls
<1>3. GoCommand \in Commands /\ GoCommand.op # "add"
  BY Sent
<1>4. /\ inbox' \in [Workers -> Seq(Commands)]
      /\ \A w \in Workers :
           inbox'[w] = IF w \in call.begun \cap alive THEN Append(inbox[w], GoCommand)
                       ELSE inbox[w]
  BY <1>1, <1>2, <1>3, SendStep
<1>5. /\ call' \in Calls /\ call'.kind = call.kind /\ call'.got = call.got
      /\ call'.lost = call.lost /\ call'.begun = call.begun
      /\ call'.todo = call.begun \cap alive
      /\ call'.failed = call.failed \cup (call.begun \ alive)
  <2>1. /\ call.begun \cap alive \in SUBSET Workers
        /\ call.failed \cup (call.begun \ alive) \in SUBSET Workers
    BY <1>2
  <2> QED
    BY <1>1, <1>2, <2>1 DEF Calls
<1>6. Types'
  BY <1>1, <1>4, <1>5 DEF Types, rankVars, Pcs
<1>7. /\ \A w \in Workers : /\ RoundCommand(w)' = RoundCommand(w)
                            /\ RoundCommand(w) \in Commands /\ Meets(RoundCommand(w))
      /\ call.kind = "update"
  BY <1>1, <1>5, SentFirst DEF RoundCommand, RequestFor, Pipes, rankVars
<1>8. ASSUME NEW w \in Workers
      PROVE  /\ w \in call'.todo => Owes(w, RoundCommand(w))'
             /\ w \in call'.failed => Leftover(w)'
             /\ w \notin call'.todo \cup call'.failed => Quiet(w)'
  <2>1. /\ w \in call.begun => Waits(w, RoundCommand(w))
        /\ w \in call.failed => Leftover(w)
        /\ w \notin call.begun \cup call.failed => Quiet(w)
    BY <1>1 DEF Pipes
  <2>2. CASE w \in call.begun \cap alive
    <3>1. Pipe(w, <<>>, {RoundCommand(w)}, <<>>) /\ w \in alive'
      BY <1>1, <2>1, <2>2 DEF Waits
    <3>2. inbox'[w] = <<GoCommand>>
      BY <1>3, <1>4, <2>2, <3>1, Single DEF Pipe
    <3>3. Pipe(w, <<GoCommand>>, {RoundCommand(w)}, <<>>)'
      BY <1>1, <1>7, <3>1, <3>2 DEF Pipe, GoCommand
    <3>4. Owes(w, RoundCommand(w))'
      BY <1>7, <3>1, <3>3 DEF Owes, GoCommand
    <3>5. Leftover(w)'
      BY <1>3, <3>2 DEF Leftover
    <3> QED
      BY <1>5, <2>2, <3>4, <3>5
  <2>3. CASE w \notin call.begun \cap alive
    <3>1. inbox'[w] = inbox[w]
      BY <1>4, <2>3
    <3>2. w \in call.begun => Quiet(w)
      BY <2>1, <2>3 DEF Waits
    <3>3. (Leftover(w) \/ Quiet(w)) => Leftover(w)'
      BY <3>1 DEF Leftover, Quiet, Pipe
    <3>4. Quiet(w) => Quiet(w)'
      BY <1>1, <3>1 DEF Quiet, Pipe
    <3> QED
      BY <1>5, <2>1, <2>3, <3>2, <3>3, <3>4
  <2> QED
    BY <2>2, <2>3
<1>9. Pipes'
  <2>1. \A w \in Workers \ conns : Quiet(w)'
    BY <1>1, <1>4 DEF Pipes, Quiet, Pipe, Types
  <2> QED
    BY <1>1, <1>8, <2>1 DEF Pipes, rankVars
<1>10. Payloads'
  BY <1>1, <1>5 DEF Payloads
<1>11. Absent' = {}
  BY <1>1 DEF Absent
<1>12. Ranks'
  BY <1>1, <1>5, <1>11 DEF Ranks, rankVars
<1>13. Owners'
  BY <1>1, <1>11, OwnersStay DEF rankVars
<1> QED
  BY <1>6, <1>9, <1>10, <1>12, <1>13

(* A reply that was owed leaves a quiet pipe when it is taken.             *)
LEMMA OwedTaken ==
  ASSUME Types, NEW w \in Workers, NEW m \in Commands, Owes(w, m), outbox' = Taken(w),
         UNCHANGED <<inbox, blocked>>, outbox[w] # <<>>
  PROVE  Quiet(w)' /\ Head(outbox[w]) \in Answers(m) /\ outbox[w] = <<Head(outbox[w])>>
<1>1. PICK r \in Answers(m) : Pipe(w, <<>>, {}, <<r>>)
  BY DEF Owes, Quiet, Pipe
<1>2. Head(<<r>>) = r /\ Tail(<<r>>) = <<>>
  BY Single
<1> QED
  BY <1>1, <1>2, TakenStep DEF Pipe, Quiet

LEMMA AppendOneMore ==
  ASSUME NEW S, NEW x \in S, NEW q \in Seq(S), \A i \in 1..Len(q) : q[i] = x
  PROVE  Append(q, x) \in Seq(S) /\ \A i \in 1..Len(Append(q, x)) : Append(q, x)[i] = x
OBVIOUS

LEMMA ReadResultKeeps ==
  ASSUME IInv, ReadResult
  PROVE  IInv'
<1> USE DEF IInv
<1>w. PICK w : w = Min(call.todo)
  OBVIOUS
<1> DEFINE r == Head(outbox[w])
<1>1. /\ pc = "results" /\ call.todo # {} /\ outbox' = Taken(w)
      /\ \/ /\ Receives(w) /\ r.kind = ListKind(call.kind)
            /\ call' = [call EXCEPT !.todo = call.todo \ {w}, !.got = Received(r)]
         \/ /\ RecvRaises(w)
            /\ call' = [call EXCEPT !.todo = call.todo \ {w}, !.failed = call.failed \cup {w}]
      /\ UNCHANGED <<rankVars, alive, resident, blocked, inbox, pc, requests, answers>>
  BY <1>w DEF ReadResult
<1>2. /\ call.todo \in SUBSET Workers /\ call.failed \in SUBSET Workers /\ call \in Calls
      /\ call.got \in [Shards -> Seq(Shards \X Nat)]
  BY DEF Types, Calls
<1>3. w \in call.todo /\ w \in Workers
  BY <1>w, <1>1, <1>2, MinIn
<1>4. Owes(w, RoundCommand(w)) /\ RoundCommand(w) \in Commands /\ RoundCommand(w).op # "add"
  BY <1>1, <1>3, SentFirst DEF Pipes
<1>5. ASSUME Receives(w), r.kind = ListKind(call.kind)
      PROVE  /\ Quiet(w)'
             /\ r.shards \in SUBSET Shards /\ r.request = requests
  <2>1. Quiet(w)' /\ r \in Answers(RoundCommand(w))
    BY <1>1, <1>3, <1>4, <1>5, OwedTaken DEF Receives
  <2>2. RoundCommand(w).op = call.kind /\ RoundCommand(w).request = requests
    BY DEF RoundCommand, RequestFor, Command
  <2>3. call.kind \in Kinds
    BY <1>2 DEF Calls
  <2>4. call.kind \notin ShardCommands /\ call.kind # "add" /\ r # Error
    BY <1>5, <2>3 DEF Kinds, ShardCommands, ListKind, Error, Reply
  <2>5. r \in {Reply(ListKind(call.kind), S, requests) : S \in SUBSET Shards}
    BY <2>1, <2>2, <2>4 DEF Answers
  <2> QED
    BY <2>1, <2>5 DEF Reply
<1>6. ASSUME Receives(w), r.kind = ListKind(call.kind)
      PROVE  /\ Received(r) \in [Shards -> Seq(Shards \X Nat)]
             /\ \A s \in Shards : \A i \in 1..Len(Received(r)[s]) :
                  Received(r)[s][i] = <<s, requests>>
  <2>1. requests \in Nat
    BY DEF Types
  <2>2. ASSUME NEW s \in Shards
        PROVE  /\ Received(r)[s] \in Seq(Shards \X Nat)
               /\ \A i \in 1..Len(Received(r)[s]) : Received(r)[s][i] = <<s, requests>>
    <3>1. Received(r)[s] = IF s \in r.shards THEN Append(call.got[s], <<s, requests>>)
                           ELSE call.got[s]
      BY <1>5, <1>6 DEF Received
    <3>2. call.got[s] \in Seq(Shards \X Nat)
      BY <1>2
    <3>3. \A i \in 1..Len(call.got[s]) : call.got[s][i] = <<s, requests>>
      BY DEF Payloads
    <3>4. <<s, requests>> \in Shards \X Nat
      BY <2>1
    <3>5. CASE s \in r.shards
      <4> DEFINE x == <<s, requests>>
                 q == Append(call.got[s], x)
      <4>1. q \in Seq(Shards \X Nat) /\ \A i \in 1..Len(q) : q[i] = x
        <5> HIDE DEF x
        <5> QED
          BY <3>2, <3>3, <3>4, AppendOneMore DEF x
      <4>2. Received(r)[s] = q
        BY <3>1, <3>5
      <4> HIDE DEF q
      <4> QED
        BY <4>1, <4>2
    <3>6. CASE s \notin r.shards
      BY <3>1, <3>2, <3>3, <3>6
    <3> QED
      BY <3>5, <3>6
  <2> QED
    BY <2>2 DEF Received
<1> HIDE DEF r
<1>7. /\ call' \in Calls /\ call'.todo = call.todo \ {w} /\ call'.kind = call.kind
      /\ call'.lost = call.lost /\ call'.begun = call.begun
      /\ \A s \in Shards : \A i \in 1..Len(call'.got[s]) : call'.got[s][i] = <<s, requests>>
      /\ \/ Receives(w) /\ Quiet(w)' /\ call'.failed = call.failed
         \/ call'.failed = call.failed \cup {w}
  <2>1. call.todo \ {w} \in SUBSET Workers /\ call.failed \cup {w} \in SUBSET Workers
    BY <1>2, <1>3
  <2>2. CASE /\ Receives(w) /\ r.kind = ListKind(call.kind)
             /\ call' = [call EXCEPT !.todo = call.todo \ {w}, !.got = Received(r)]
    <3>1. /\ Received(r) \in [Shards -> Seq(Shards \X Nat)] /\ Quiet(w)'
          /\ \A s \in Shards : \A i \in 1..Len(Received(r)[s]) :
               Received(r)[s][i] = <<s, requests>>
      BY <1>5, <1>6, <2>2 DEF r
    <3>2. call'.got = Received(r)
      BY <1>2, <2>2 DEF Calls
    <3> QED
      BY <1>2, <2>1, <2>2, <3>1, <3>2 DEF Calls
  <2>3. CASE call' = [call EXCEPT !.todo = call.todo \ {w}, !.failed = call.failed \cup {w}]
    BY <1>2, <2>1, <2>3 DEF Calls, Payloads
  <2> QED
    BY <1>1, <2>2, <2>3
<1>8. outbox' \in [Workers -> Seq(Replies)] /\ \A v \in Workers \ {w} : outbox'[v] = outbox[v]
  BY <1>1, <1>3, TakenStep
<1>9. Types'
  BY <1>1, <1>7, <1>8, RecvFaults DEF Types, rankVars
<1>10. \A v \in Workers : RoundCommand(v)' = RoundCommand(v)
  BY <1>1, <1>7 DEF RoundCommand, RequestFor, rankVars
<1>11. \A v \in Workers \ {w} : \A m :
         (Quiet(v)' <=> Quiet(v)) /\ (Owes(v, m)' <=> Owes(v, m)) /\ (Leftover(v)' <=> Leftover(v))
  BY <1>1, <1>8 DEF Quiet, Owes, Leftover, Pipe
<1>12. Leftover(w)'
  <2>1. GoCommand \in Commands /\ GoCommand.op # "add"
    BY Sent
  <2> QED
    BY <1>1, <1>4, <2>1 DEF Owes, Leftover, Quiet, Pipe
<1>13. Pipes'
  <2>1. ASSUME NEW v \in Workers
        PROVE  /\ v \in call'.todo => Owes(v, RoundCommand(v))'
               /\ v \in call'.failed => Leftover(v)'
               /\ v \notin call'.todo \cup call'.failed => Quiet(v)'
    <3>1. /\ v \in call.todo => Owes(v, RoundCommand(v))
          /\ v \in call.failed => Leftover(v)
          /\ v \notin call.todo \cup call.failed => Quiet(v)
      BY <1>1 DEF Pipes
    <3>2. CASE v = w
      BY <1>7, <1>12, <3>2
    <3>3. CASE v # w
      BY <1>7, <1>10, <1>11, <3>1, <3>3
    <3> QED
      BY <3>2, <3>3
  <2>2. w \in conns
    BY <1>1, <1>3 DEF Ranks
  <2>3. \A v \in Workers \ conns : Quiet(v)'
    BY <1>11, <2>2 DEF Pipes
  <2> QED
    BY <1>1, <2>1, <2>3 DEF Pipes, rankVars
<1>14. Payloads'
  BY <1>1, <1>7 DEF Payloads
<1>15. Absent' = {}
  BY <1>1 DEF Absent
<1>16. Ranks'
  BY <1>1, <1>3, <1>7, <1>15 DEF Ranks, rankVars
<1>17. Owners'
  BY <1>1, <1>15, OwnersStay DEF rankVars
<1> QED
  BY <1>9, <1>13, <1>14, <1>16, <1>17

-----------------------------------------------------------------------------
(* Workers that are retired take their claims with them.                   *)
LEMMA RetireStep ==
  ASSUME Types, NEW W \in SUBSET conns, Retire(W)
  PROVE  /\ conns' = conns \ W /\ blacklist' = blacklist /\ alive' \in SUBSET (conns \ W)
         /\ failures' \in [Workers -> Nat]
         /\ \A w \in Workers : failures'[w] = IF w \in W THEN failures[w] + 1 ELSE failures[w]
         /\ homes' \in [Workers -> SUBSET Shards] /\ resident' \in [Workers -> SUBSET Shards]
         /\ \A w \in Workers \ W : homes'[w] = homes[w] /\ resident'[w] = resident[w]
         /\ blocked' \in [Workers -> SUBSET {m \in Commands : Meets(m)}]
         /\ inbox' \in [Workers -> Seq(Commands)] /\ outbox' \in [Workers -> Seq(Replies)]
         /\ \A w \in W : Quiet(w)'
         /\ \A w \in Workers \ W : Quiet(w)' <=> Quiet(w)
<1>1. <<>> \in Seq(Commands) /\ <<>> \in Seq(Replies)
  OBVIOUS
<1>2. /\ blocked' = [w \in Workers |-> IF w \in W THEN {} ELSE blocked[w]]
      /\ inbox' = [w \in Workers |-> IF w \in W THEN <<>> ELSE inbox[w]]
      /\ outbox' = [w \in Workers |-> IF w \in W THEN <<>> ELSE outbox[w]]
  BY DEF Retire
<1>3. /\ failures' = [w \in Workers |-> IF w \in W THEN failures[w] + 1 ELSE failures[w]]
      /\ homes' = [w \in Workers |-> IF w \in W THEN {} ELSE homes[w]]
      /\ resident' = [w \in Workers |-> IF w \in W THEN {} ELSE resident[w]]
      /\ conns' = conns \ W /\ alive' = alive \ W /\ blacklist' = blacklist
  BY DEF Retire
<1>4. \A w \in W : Quiet(w)'
  BY <1>2 DEF Quiet, Pipe, Types
<1>5. \A w \in Workers \ W : Quiet(w)' <=> Quiet(w)
  BY <1>2 DEF Quiet, Pipe
<1>6. failures' \in [Workers -> Nat]
  BY <1>3 DEF Types
<1>7. homes' \in [Workers -> SUBSET Shards] /\ resident' \in [Workers -> SUBSET Shards]
  BY <1>3 DEF Types
<1>8. /\ blocked' \in [Workers -> SUBSET {m \in Commands : Meets(m)}]
      /\ inbox' \in [Workers -> Seq(Commands)] /\ outbox' \in [Workers -> Seq(Replies)]
  BY <1>1, <1>2 DEF Types
<1> QED
  BY <1>3, <1>4, <1>5, <1>6, <1>7, <1>8 DEF Types

LEMMA RetireKeeps ==
  ASSUME IInv, NEW W \in SUBSET conns, Retire(W),
         pc \in {"results", "recover", "redoAck", "redoResult"}, pc' = "recover",
         call' \in Calls, call'.lost = call.lost \cup W, call'.assigned = AssignedWith(W),
         call'.got = call.got, requests' = requests, faults' \in 0..MaxFaults,
         \A w \in Workers \ W : Quiet(w)
  PROVE  IInv'
<1> USE DEF IInv
<1>1. /\ conns' = conns \ W /\ blacklist' = blacklist /\ alive' \in SUBSET (conns \ W)
      /\ failures' \in [Workers -> Nat]
      /\ \A w \in Workers : failures'[w] = IF w \in W THEN failures[w] + 1 ELSE failures[w]
      /\ homes' \in [Workers -> SUBSET Shards] /\ resident' \in [Workers -> SUBSET Shards]
      /\ \A w \in Workers \ W : homes'[w] = homes[w] /\ resident'[w] = resident[w]
      /\ blocked' \in [Workers -> SUBSET {m \in Commands : Meets(m)}]
      /\ inbox' \in [Workers -> Seq(Commands)] /\ outbox' \in [Workers -> Seq(Replies)]
      /\ \A w \in W : Quiet(w)'
      /\ \A w \in Workers \ W : Quiet(w)' <=> Quiet(w)
  BY RetireStep
<1>2. Types'
  BY <1>1 DEF Types, Pcs
<1>3. Pipes'
  BY <1>1 DEF Pipes
<1>4. Payloads'
  BY DEF Payloads
<1>5. /\ Absent' = call.lost \cup W /\ W \cap blacklist = {} /\ W \subseteq Workers
      /\ (Absent = call.lost \/ call.lost = {})
  BY DEF Absent, Ranks, Types
<1>6. Ranks'
  <2>1. \A w \in blacklist : failures[w] >= MaxRetries /\ w \in Workers /\ w \notin W
    BY <1>5 DEF Ranks, Types
  <2>2. blacklist' \cap conns' = {} /\ \A w \in blacklist' : failures'[w] >= MaxRetries
    BY <1>1, <2>1 DEF Ranks, Types
  <2>3. call.lost \cap blacklist = {}
    BY <1>5 DEF Ranks, Types, Calls
  <2>4. \A w \in call.lost \cap conns : failures[w] < MaxRetries
    BY DEF Ranks
  <2>5. \A w \in call'.lost \cap conns' : failures'[w] < MaxRetries
    BY <1>1, <2>4 DEF Types
  <2> QED
    BY <1>1, <1>5, <2>2, <2>3, <2>5 DEF Ranks
<1>7. \A w \in Workers : Claim(w)' \subseteq Claim(w)
  <2> SUFFICES ASSUME NEW w \in Workers PROVE Claim(w)' \subseteq Claim(w)
    OBVIOUS
  <2>1. call'.assigned[w] = IF w \in W THEN homes[w] ELSE call.assigned[w]
    BY DEF AssignedWith
  <2>2. CASE w \in W
    BY <1>1, <1>5, <2>1, <2>2 DEF Claim
  <2>3. CASE w \notin W
    BY <1>1, <1>5, <2>1, <2>3 DEF Claim
  <2> QED
    BY <2>2, <2>3
<1>8. Owners'
  <2>1. Loose' = {} /\ \A w \in Workers : ~Arrived(w) /\ ~Arrived(w)'
    BY DEF Loose, Arrived
  <2>2. \A w \in conns' : resident'[w] = homes'[w]
    BY <1>1, <2>1 DEF Owners, Types
  <2> QED
    BY <1>1, <1>7, <2>1, <2>2 DEF Owners, Types
<1> QED
  BY <1>2, <1>3, <1>4, <1>6, <1>8

LEMMA AssignedType ==
  ASSUME Types, NEW W
  PROVE  AssignedWith(W) \in [Workers -> SUBSET Shards]
BY DEF AssignedWith, Types, Calls

LEMMA RetireFailedKeeps ==
  ASSUME IInv, RetireFailed
  PROVE  IInv'
<1> USE DEF IInv
<1> DEFINE W == call.failed
           R == UNION {homes[w] : w \in W}
<1>1. /\ pc = "results" /\ call.todo = {} /\ Retire(W)
      /\ call' = [call EXCEPT !.lost = call.lost \cup W, !.assigned = AssignedWith(W),
                              !.redo = R]
      /\ pc' = "recover"
      /\ UNCHANGED <<requests, answers, faults>>
  BY DEF RetireFailed
<1>2. W \in SUBSET conns
  BY <1>1 DEF Ranks
<1>3. R \in SUBSET Shards /\ call.lost \cup W \in SUBSET Workers /\ call \in Calls
  <2>1. call \in Calls /\ call.lost \in SUBSET Workers
    BY DEF Types, Calls
  <2>2. W \in SUBSET Workers
    BY <1>2 DEF Types
  <2>3. \A w \in W : homes[w] \in SUBSET Shards
    BY <2>2 DEF Types
  <2> QED
    BY <2>1, <2>2, <2>3
<1>4. AssignedWith(W) \in [Workers -> SUBSET Shards]
  BY AssignedType
<1>5. \A w \in Workers \ W : Quiet(w)
  BY <1>1 DEF Pipes
<1> HIDE DEF R
<1>6. call' \in Calls /\ call'.lost = call.lost \cup W /\ call'.assigned = AssignedWith(W)
      /\ call'.got = call.got
  BY <1>1, <1>3, <1>4 DEF Calls
<1>7. faults' \in 0..MaxFaults
  BY <1>1 DEF Types
<1> HIDE DEF W
<1> QED
  BY <1>1, <1>2, <1>5, <1>6, <1>7, RetireKeeps

LEMMA AskTargetKeeps ==
  ASSUME IInv, AskTarget
  PROVE  IInv'
<1> USE DEF IInv
<1>w. PICK w : w = Min(Candidates)
  OBVIOUS
<1>1. /\ pc = "recover" /\ call.redo # {} /\ Candidates # {}
      /\ UNCHANGED <<requests, answers, faults>>
  BY DEF AskTarget
<1>2. Candidates \in SUBSET Workers /\ call \in Calls /\ call.attempted \in SUBSET Workers
  BY DEF Candidates, Live, Types, Calls
<1>3. w \in Candidates /\ w \in conns /\ w \in Workers /\ w \in Nat
  BY <1>w, <1>1, <1>2, MinIn DEF Candidates, Live, Workers
<1>4. \A v \in Workers : Quiet(v)
  BY <1>1 DEF Pipes
<1>5. call.attempted \cup {w} \in SUBSET Workers /\ call.lost \cup {w} \in SUBSET Workers
  BY <1>2, <1>3 DEF Calls
<1>6. CASE w \in alive
  <2>1. /\ Send({w}, RedoCommand)
        /\ call' = [call EXCEPT !.target = w, !.attempted = call.attempted \cup {w}]
        /\ pc' = IF call.kind = "update" THEN "redoAck" ELSE "redoResult"
        /\ UNCHANGED <<rankVars, alive, resident, blocked, outbox>>
    BY <1>w, <1>6 DEF AskTarget, RedoCommand
  <2>2. /\ call' \in Calls /\ call'.target = w /\ call'.kind = call.kind
        /\ call'.redo = call.redo /\ call'.got = call.got /\ call'.lost = call.lost
        /\ call'.assigned = call.assigned
    BY <1>2, <1>3, <1>5, <2>1 DEF Calls
  <2>3. RedoCommand \in Commands /\ (call.kind = "update" <=> Meets(RedoCommand))
    BY <1>1, Sent
  <2>4. /\ inbox' \in [Workers -> Seq(Commands)]
        /\ \A v \in Workers :
             inbox'[v] = IF v \in {w} \cap alive THEN Append(inbox[v], RedoCommand) ELSE inbox[v]
    BY <1>3, <2>1, <2>3, SendStep
  <2>5. Types'
    BY <1>1, <2>1, <2>2, <2>4 DEF Types, rankVars, Pcs
  <2>6. \A v \in Workers \ {w} : Quiet(v)'
    BY <1>4, <2>1, <2>4 DEF Quiet, Pipe
  <2>7. RedoCommand' = RedoCommand
    BY <1>1, <2>2 DEF RedoCommand
  <2>8. inbox'[w] = <<RedoCommand>> /\ blocked'[w] = {} /\ outbox'[w] = <<>> /\ w \in alive'
    BY <1>3, <1>4, <1>6, <2>1, <2>3, <2>4, Single DEF Quiet, Pipe
  <2>9. /\ Asked(w, RedoCommand)'
        /\ call.kind # "update" => Owes(w, RedoCommand)'
    BY <2>3, <2>7, <2>8 DEF Asked, Owes, Pipe
  <2>10. Pipes'
    <3>1. \A v \in Workers \ conns' : Quiet(v)'
      BY <1>3, <2>1, <2>6 DEF rankVars
    <3>2. OthersQuiet'
      BY <2>2, <2>6 DEF OthersQuiet
    <3> QED
      BY <1>1, <1>3, <2>1, <2>2, <2>9, <3>1, <3>2 DEF Pipes, rankVars
  <2>11. Payloads'
    BY <1>1, <2>1, <2>2 DEF Payloads
  <2>12. Absent' = Absent
    BY <1>1, <2>1, <2>2 DEF Absent
  <2>13. Ranks'
    BY <1>1, <2>1, <2>2, <2>12 DEF Ranks, rankVars
  <2>14. Owners'
    BY <1>1, <2>1, <2>2, <2>12, OwnersStay DEF rankVars
  <2> QED
    BY <2>5, <2>10, <2>11, <2>13, <2>14
<1>7. CASE w \notin alive
  <2>1. /\ Retire({w}) /\ pc' = "recover"
        /\ call' = [call EXCEPT !.target = w, !.attempted = call.attempted \cup {w},
                                !.lost = call.lost \cup {w}, !.assigned = AssignedWith({w})]
    BY <1>w, <1>7 DEF AskTarget
  <2>2. AssignedWith({w}) \in [Workers -> SUBSET Shards]
    BY AssignedType
  <2>3. /\ call' \in Calls /\ call'.lost = call.lost \cup {w} /\ call'.got = call.got
        /\ call'.assigned = AssignedWith({w})
    BY <1>2, <1>3, <1>5, <2>1, <2>2 DEF Calls
  <2>4. faults' \in 0..MaxFaults /\ {w} \in SUBSET conns
    BY <1>1, <1>3 DEF Types
  <2> QED
    BY <1>1, <1>4, <2>1, <2>3, <2>4, RetireKeeps
<1> QED
  BY <1>6, <1>7

LEMMA LoseTargetKeeps ==
  ASSUME IInv, LoseTarget
  PROVE  IInv'
<1> USE DEF IInv
<1>w. PICK w : w = call.target
  OBVIOUS
<1>1. /\ pc \in {"redoAck", "redoResult"} /\ pc' = "recover" /\ Retire({w})
      /\ RecvRaises(w) \/ Receives(w)
      /\ call' = [call EXCEPT !.lost = call.lost \cup {w}, !.assigned = AssignedWith({w})]
      /\ UNCHANGED <<requests, answers>>
  BY <1>w DEF LoseTarget
<1>2. w \in conns /\ w \in Workers /\ \A v \in Workers \ {w} : Quiet(v)
  BY <1>w, <1>1 DEF Pipes, OthersQuiet, Types
<1>3. call \in Calls /\ call.lost \cup {w} \in SUBSET Workers
  BY <1>2 DEF Types, Calls
<1>4. AssignedWith({w}) \in [Workers -> SUBSET Shards]
  BY AssignedType
<1>5. /\ call' \in Calls /\ call'.lost = call.lost \cup {w} /\ call'.got = call.got
      /\ call'.assigned = AssignedWith({w})
  BY <1>1, <1>3, <1>4 DEF Calls
<1>6. faults' \in 0..MaxFaults
  BY <1>1, RecvFaults
<1> QED
  BY <1>1, <1>2, <1>5, <1>6, RetireKeeps

LEMMA ReleaseTargetKeeps ==
  ASSUME IInv, ReleaseTarget
  PROVE  IInv'
<1> USE DEF IInv
<1>w. PICK w : w = call.target
  OBVIOUS
<1>1. /\ pc = "redoAck" /\ w \in alive /\ Receives(w) /\ outbox' = Taken(w)
      /\ Send({w}, GoCommand) /\ pc' = "redoResult"
      /\ UNCHANGED <<rankVars, alive, resident, blocked, call, requests, answers>>
  BY <1>w DEF ReleaseTarget, GoCommand
<1>2. /\ w \in conns /\ w \in Workers /\ call.redo # {} /\ Asked(w, RedoCommand)
      /\ \A v \in Workers \ {w} : Quiet(v)
      /\ call.kind = "update"
  BY <1>w, <1>1 DEF Pipes, OthersQuiet, Types
<1>3. GoCommand \in Commands /\ Started \in Replies /\ Meets(RedoCommand)
  BY <1>2, Sent, Messages DEF Started
<1>4. /\ inbox' \in [Workers -> Seq(Commands)]
      /\ \A v \in Workers :
           inbox'[v] = IF v \in {w} \cap alive THEN Append(inbox[v], GoCommand) ELSE inbox[v]
  <2>1. {w} \in SUBSET Workers /\ Send({w}, GoCommand) /\ GoCommand \in Commands
    BY <1>1, <1>2, <1>3
  <2> HIDE DEF IInv
  <2>2. Types
    BY DEF IInv
  <2> QED
    BY <2>1, <2>2, SendStep
<1>5. /\ outbox' \in [Workers -> Seq(Replies)]
      /\ \A v \in Workers \ {w} : outbox'[v] = outbox[v]
      /\ outbox[w] = <<Started>> => outbox'[w] = <<>>
  BY <1>1, <1>2, <1>3, TakenStep
<1>6. Pipe(w, <<>>, {RedoCommand}, <<Started>>)
  BY <1>1, <1>2 DEF Asked, Receives, Pipe
<1>7. Pipe(w, <<GoCommand>>, {RedoCommand}, <<>>)'
  <2>1. RedoCommand' = RedoCommand /\ GoCommand' = GoCommand
    BY <1>1 DEF RedoCommand, GoCommand
  <2> QED
    BY <1>1, <1>2, <1>3, <1>4, <1>5, <1>6, <2>1, Single DEF Pipe
<1>8. Owes(w, RedoCommand)'
  <2>1. RedoCommand' = RedoCommand /\ w \in alive'
    BY <1>1 DEF RedoCommand
  <2> QED
    BY <1>3, <1>7, <2>1 DEF Owes
<1>9. \A v \in Workers \ {w} : Quiet(v)'
  BY <1>1, <1>2, <1>4, <1>5 DEF Quiet, Pipe
<1>10. Types'
  BY <1>1, <1>4, <1>5, RecvFaults DEF Types, rankVars, Pcs
<1>11. Pipes'
  <2>1. OthersQuiet' /\ \A v \in Workers \ conns' : Quiet(v)'
    BY <1>w, <1>1, <1>2, <1>9 DEF OthersQuiet, rankVars
  <2>2. call'.target = w
    BY <1>w, <1>1
  <2> QED
    BY <1>1, <1>2, <1>8, <2>1, <2>2 DEF Pipes, rankVars
<1>12. Absent' = Absent
  BY <1>1 DEF Absent
<1>13. Payloads' /\ Ranks'
  BY <1>1, <1>12 DEF Payloads, Ranks, rankVars
<1>14. Owners'
  BY <1>1, <1>12, OwnersStay DEF rankVars
<1> QED
  BY <1>10, <1>11, <1>13, <1>14

LEMMA ReadRedoKeeps ==
  ASSUME IInv, ReadRedo
  PROVE  IInv'
<1> USE DEF IInv
<1>w. PICK w : w = call.target
  OBVIOUS
<1>s. PICK s : s = Min(call.redo)
  OBVIOUS
<1>r. PICK r : r = Head(outbox[w])
  OBVIOUS
<1>1. /\ pc = "redoResult" /\ Receives(w) /\ outbox' = Taken(w) /\ pc' = "recover"
      /\ r.kind = ShardCommand[call.kind]
      /\ call' = [call EXCEPT !.redo = call.redo \ {s}, !.attempted = {},
                              !.got[s] = Append(call.got[s], <<Min(r.shards), r.request>>)]
      /\ UNCHANGED <<rankVars, alive, resident, blocked, inbox, requests, answers>>
  BY <1>w, <1>s, <1>r DEF ReadRedo
<1>2. /\ w \in conns /\ w \in Workers /\ call.redo # {} /\ Owes(w, RedoCommand)
      /\ \A v \in Workers \ {w} : Quiet(v)
  BY <1>w, <1>1 DEF Pipes, OthersQuiet, Types
<1>3. /\ call \in Calls /\ call.redo \in SUBSET Workers /\ requests \in Nat
      /\ call.got \in [Shards -> Seq(Shards \X Nat)]
  <2>1. call \in Calls /\ requests \in Nat
    BY DEF Types
  <2> QED
    BY <2>1 DEF Calls, Shards
<1>4. s \in Workers /\ s \in Shards
  BY <1>s, <1>2, <1>3, MinIn DEF Shards
<1>5. Quiet(w)' /\ r \in Answers(RedoCommand)
  BY <1>r, <1>1, <1>2, Sent, OwedTaken DEF Receives
<1>6. Min(r.shards) = s /\ r.request = requests
  <2>1. RedoCommand.op \in ShardCommands /\ RedoCommand.shards = {s}
        /\ RedoCommand.request = requests
    BY <1>s, Sent DEF RedoCommand, Command
  <2>2. r # Error
    BY <1>r, <1>1 DEF Receives, Error, Reply
  <2>3. r.shards = {s} /\ r.request = requests
    BY <1>5, <2>1, <2>2 DEF Answers, Reply
  <2> QED
    BY <1>4, <2>3, MinOne
<1> DEFINE x == <<s, requests>>
           q == Append(call.got[s], x)
<1>7. q \in Seq(Shards \X Nat) /\ \A i \in 1..Len(q) : q[i] = x
  <2>1. x \in Shards \X Nat /\ call.got[s] \in Seq(Shards \X Nat)
    BY <1>3, <1>4
  <2>2. \A i \in 1..Len(call.got[s]) : call.got[s][i] = x
    BY <1>4 DEF Payloads
  <2> HIDE DEF x
  <2> QED
    BY <2>1, <2>2, AppendOneMore
<1>8. call' = [call EXCEPT !.redo = call.redo \ {s}, !.attempted = {}, !.got[s] = q]
  BY <1>1, <1>6
<1>9. \A i \in 1..Len(q) : q[i] = <<s, requests>>
  BY <1>7
<1> HIDE DEF q
<1>10. /\ call' \in Calls /\ call'.lost = call.lost /\ call'.assigned = call.assigned
       /\ call'.got = [call.got EXCEPT ![s] = q]
  <2>1. [call.got EXCEPT ![s] = q] \in [Shards -> Seq(Shards \X Nat)]
    BY <1>3, <1>7
  <2>2. call' = [call EXCEPT !.redo = call.redo \ {s}, !.attempted = {},
                             !.got = [call.got EXCEPT ![s] = q]]
    BY <1>3, <1>8 DEF Calls
  <2> QED
    BY <1>3, <2>1, <2>2 DEF Calls, Shards
<1>11. outbox' \in [Workers -> Seq(Replies)] /\ \A v \in Workers \ {w} : outbox'[v] = outbox[v]
  BY <1>1, <1>2, TakenStep
<1>12. Types'
  BY <1>1, <1>10, <1>11, RecvFaults DEF Types, rankVars, Pcs
<1>13. \A v \in Workers : Quiet(v)'
  BY <1>1, <1>2, <1>5, <1>11 DEF Quiet, Pipe
<1>14. Pipes'
  BY <1>1, <1>13 DEF Pipes, rankVars
<1>15. Payloads'
  <2>1. ASSUME NEW t \in Shards
        PROVE  \A i \in 1..Len(call'.got[t]) : call'.got[t][i] = <<t, requests>>
    <3>1. CASE t = s
      BY <1>3, <1>4, <1>9, <1>10, <3>1
    <3>2. CASE t # s
      BY <1>3, <1>10, <3>2 DEF Payloads
    <3> QED
      BY <3>1, <3>2
  <2> QED
    BY <1>1, <2>1 DEF Payloads
<1>16. Absent' = Absent
  BY <1>1, <1>10 DEF Absent
<1>17. Ranks'
  BY <1>1, <1>10, <1>16 DEF Ranks, rankVars
<1>18. Owners'
  BY <1>1, <1>10, <1>16, OwnersStay DEF rankVars
<1> QED
  BY <1>12, <1>14, <1>15, <1>17, <1>18

-----------------------------------------------------------------------------
(* Ranks that come back                                                    *)

(* A fresh process takes over what its rank claimed.                       *)
LEMMA SpawnStep ==
  ASSUME IInv, NEW w \in Absent \ conns, Spawn(w, call.assigned[w]),
         pc \in {"recover", "respawn"}, UNCHANGED <<pc, requests, faults>>,
         call' \in Calls, call'.got = call.got, call'.lost = call.lost, call'.redo = call.redo,
         call'.assigned = call.assigned, call'.moves = call.moves,
         pc = "recover" => failures[w] < MaxRetries,
         pc = "respawn" => call'.todo = call.todo \ {w}
  PROVE  IInv'
<1> USE DEF IInv
<1>1. w \in Workers /\ w \notin blacklist /\ call.assigned[w] \in SUBSET Shards
  BY DEF Ranks, Types, Calls
<1>2. /\ conns' = conns \cup {w} /\ homes' = [homes EXCEPT ![w] = call.assigned[w]]
      /\ alive' = alive \cup {w} /\ resident' = [resident EXCEPT ![w] = call.assigned[w]]
      /\ UNCHANGED <<failures, blacklist, blocked, inbox, outbox>>
  BY DEF Spawn
<1>3. Types'
  BY <1>1, <1>2 DEF Types
<1>4. Pipes'
  BY <1>2 DEF Pipes, Quiet, Pipe
<1>5. Payloads'
  BY DEF Payloads
<1>6. Absent' = IF pc = "recover" THEN Absent ELSE Absent \ {w}
  BY DEF Absent
<1>7. Ranks'
  <2>1. Absent' \in SUBSET (Workers \ blacklist') /\ blacklist' \cap conns' = {}
    BY <1>1, <1>2, <1>6 DEF Ranks
  <2>2. pc = "recover" => \A v \in call.lost \cap conns' : failures[v] < MaxRetries
    BY <1>2 DEF Ranks
  <2>3. pc = "respawn" => call'.todo \cap conns' = {}
    BY <1>2 DEF Ranks
  <2> QED
    BY <1>2, <2>1, <2>2, <2>3 DEF Ranks
<1>8. \A v \in Workers : Claim(v)' = Claim(v)
  <2> SUFFICES ASSUME NEW v \in Workers PROVE Claim(v)' = Claim(v)
    OBVIOUS
  <2>1. homes'[v] = IF v = w THEN call.assigned[w] ELSE homes[v]
    BY <1>1, <1>2 DEF Types
  <2>2. CASE v = w
    BY <1>2, <2>1, <2>2 DEF Claim
  <2>3. CASE v # w
    BY <1>2, <1>6, <2>1, <2>3 DEF Claim
  <2> QED
    BY <2>2, <2>3
<1>9. Owners'
  <2>1. Loose' = Loose
    BY DEF Loose
  <2>2. ASSUME NEW v \in conns' PROVE resident'[v] = homes'[v] /\ ~Arrived(v)'
    <3>1. v \in Workers /\ (v # w => v \in conns)
      BY <1>1, <1>2 DEF Types
    <3>2. v # w => resident[v] = homes[v]
      BY <3>1 DEF Owners, Arrived
    <3> QED
      BY <1>1, <1>2, <3>1, <3>2 DEF Types, Arrived
  <2> QED
    BY <1>8, <2>1, <2>2 DEF Owners
<1> QED
  BY <1>3, <1>4, <1>5, <1>7, <1>9

LEMMA SpawnRaisesKeeps ==
  ASSUME IInv, SpawnRaises, pc \in {"recover", "respawn"}
  PROVE  IInv'
<1> USE DEF IInv
<1>1. pc' = "idle" /\ call' = NoCall /\ UNCHANGED <<rankVars, workerVars, requests, answers>>
  BY DEF SpawnRaises, Raise
<1>2. faults' \in 0..MaxFaults
  BY DEF SpawnRaises, Fault, Types
<1>3. Types'
  BY <1>1, <1>2, NoCallType DEF Types, rankVars, workerVars, Pcs
<1>4. \A w \in Workers : Quiet(w)'
  BY <1>1 DEF Pipes, Quiet, Pipe, workerVars
<1> QED
  BY <1>1, <1>3, <1>4, EndKeeps DEF workerVars

LEMMA RespawnTargetKeeps ==
  ASSUME IInv, RespawnTarget
  PROVE  IInv'
<1>1. CASE SpawnRaises
  BY <1>1, SpawnRaisesKeeps DEF RespawnTarget
<1>2. CASE /\ Spawn(Min(Retryable), call.assigned[Min(Retryable)])
           /\ UNCHANGED <<pc, call, requests, answers, faults>>
  <2>w. PICK w : w = Min(Retryable)
    OBVIOUS
  <2>1. pc = "recover" /\ Candidates = {} /\ Retryable # {}
    BY DEF RespawnTarget
  <2>2. Types /\ Ranks
    BY DEF IInv
  <2>3. Retryable \in SUBSET Workers
    BY <2>2 DEF Retryable, Types, Calls
  <2>4. w \in Retryable
    BY <2>w, <2>1, <2>3, MinIn
  <2>5. w \in Absent \ conns /\ failures[w] < MaxRetries
    BY <2>1, <2>4 DEF Retryable, Candidates, Live, Absent
  <2>6. Spawn(w, call.assigned[w]) /\ UNCHANGED <<pc, call, requests, answers, faults>>
    BY <1>2, <2>w
  <2>7. call' \in Calls
    BY <2>2, <2>6 DEF Types
  <2> QED
    BY <2>1, <2>5, <2>6, <2>7, SpawnStep
<1> QED
  BY <1>1, <1>2 DEF RespawnTarget

LEMMA NoTargetLeftKeeps ==
  ASSUME IInv, NoTargetLeft
  PROVE  IInv'
<1> USE DEF IInv
<1>1. /\ pc = "recover" /\ pc' = "idle" /\ call' = NoCall
      /\ UNCHANGED <<rankVars, workerVars, requests, answers, faults>>
  BY DEF NoTargetLeft, Raise
<1>2. Types'
  BY <1>1, NoCallType DEF Types, rankVars, workerVars, Pcs
<1>3. \A w \in Workers : Quiet(w)'
  BY <1>1 DEF Pipes, Quiet, Pipe, workerVars
<1> QED
  BY <1>1, <1>2, <1>3, EndKeeps DEF workerVars

LEMMA RestoreKeeps ==
  ASSUME IInv, Restore
  PROVE  IInv'
<1> USE DEF IInv
<1>1. /\ pc = "recover" /\ call.redo = {} /\ blacklist' = blacklist \cup GivenUp
      /\ call' = [call EXCEPT !.todo = ComeBack, !.moves = Moving] /\ pc' = "respawn"
      /\ UNCHANGED <<conns, homes, failures, workerVars, requests, answers, faults>>
  BY DEF Restore
<1>2. /\ call \in Calls /\ call.lost \in SUBSET Workers
      /\ call.assigned \in [Workers -> SUBSET Shards]
  BY DEF Types, Calls
<1>3. /\ GivenUp \in SUBSET Workers /\ ComeBack \in SUBSET Workers /\ Moving \in SUBSET Shards
      /\ ComeBack \subseteq call.lost /\ ComeBack \cap (conns \cup GivenUp) = {}
  <2>1. GivenUp \in SUBSET Workers
    BY <1>2 DEF GivenUp
  <2>2. \A w \in GivenUp : call.assigned[w] \in SUBSET Shards
    BY <1>2, <2>1
  <2> QED
    BY <1>2, <2>1, <2>2 DEF ComeBack, Moving
<1>4. /\ call' \in Calls /\ call'.got = call.got /\ call'.lost = call.lost /\ call'.redo = {}
      /\ call'.todo = ComeBack /\ call'.moves = Moving /\ call'.assigned = call.assigned
  BY <1>1, <1>2, <1>3 DEF Calls
<1>5. Types'
  BY <1>1, <1>3, <1>4 DEF Types, workerVars, Pcs
<1>6. Pipes'
  BY <1>1 DEF Pipes, Quiet, Pipe, workerVars
<1>7. Payloads'
  BY <1>1, <1>4 DEF Payloads
<1>8. Absent = call.lost /\ Absent' = ComeBack
  BY <1>1, <1>4 DEF Absent
<1>9. GivenUp \cap conns = {} /\ \A w \in GivenUp : failures[w] >= MaxRetries /\ w \in call.lost
  <2>1. \A w \in call.lost \cap conns : failures[w] < MaxRetries /\ failures[w] \in Nat
    BY <1>1, <1>2 DEF Ranks, Types
  <2> QED
    BY <2>1 DEF GivenUp
<1>10. Ranks'
  BY <1>1, <1>3, <1>4, <1>8, <1>9 DEF Ranks
<1>11. \A w \in Workers : Claim(w)' \subseteq Claim(w)
  BY <1>1, <1>3, <1>4, <1>8 DEF Claim
<1>12. Loose' = Moving
  BY <1>1, <1>4 DEF Loose
<1>13. ASSUME NEW w \in Workers PROVE Claim(w)' \cap Loose' = {}
  <2>1. ASSUME NEW g \in GivenUp PROVE Claim(w)' \cap call.assigned[g] = {}
    <3>1. g \in Workers /\ g \notin conns /\ Claim(g) = call.assigned[g]
      BY <1>2, <1>8, <1>9 DEF Claim
    <3>2. CASE g = w
      BY <1>1, <1>3, <1>8, <3>1, <3>2 DEF Claim
    <3>3. CASE g # w
      BY <1>11, <3>1, <3>3 DEF Owners
    <3> QED
      BY <3>2, <3>3
  <2> QED
    BY <1>12, <2>1 DEF Moving
<1>14. Owners'
  <2>1. \A w \in Workers : ~Arrived(w) /\ ~Arrived(w)'
    BY <1>1 DEF Arrived
  <2>2. conns \subseteq Workers
    BY DEF Types
  <2>3. \A v, w \in Workers : v # w => Claim(v)' \cap Claim(w)' = {}
    BY <1>11 DEF Owners
  <2>4. \A w \in conns' :
          resident'[w] = IF Arrived(w)' THEN homes'[w] \cup call'.redo ELSE homes'[w]
    BY <1>1, <2>1, <2>2 DEF Owners, workerVars
  <2> QED
    BY <1>1, <1>4, <1>13, <2>3, <2>4 DEF Owners
<1> QED
  BY <1>5, <1>6, <1>7, <1>10, <1>14

LEMMA RespawnKeeps ==
  ASSUME IInv, Respawn
  PROVE  IInv'
<1>w. PICK w : w = Min(call.todo)
  OBVIOUS
<1>1. /\ pc = "respawn" /\ call.todo # {}
      /\ \/ /\ Spawn(w, call.assigned[w])
            /\ call' = [call EXCEPT !.todo = call.todo \ {w}]
            /\ UNCHANGED <<pc, requests, answers, faults>>
         \/ SpawnRaises
  BY <1>w DEF Respawn
<1>2. call \in Calls /\ call.todo \in SUBSET Workers /\ call.todo \cap conns = {}
  BY <1>1 DEF IInv, Types, Calls, Ranks
<1>3. w \in Absent \ conns
  BY <1>w, <1>1, <1>2, MinIn DEF Absent
<1>4. CASE SpawnRaises
  BY <1>1, <1>4, SpawnRaisesKeeps
<1>5. CASE /\ Spawn(w, call.assigned[w])
           /\ call' = [call EXCEPT !.todo = call.todo \ {w}]
           /\ UNCHANGED <<pc, requests, answers, faults>>
  <2>1. /\ call' \in Calls /\ call'.got = call.got /\ call'.lost = call.lost
        /\ call'.redo = call.redo /\ call'.assigned = call.assigned /\ call'.moves = call.moves
        /\ call'.todo = call.todo \ {w}
    <3>1. call.todo \ {w} \in SUBSET Workers
      BY <1>2
    <3> QED
      BY <1>2, <1>5, <3>1 DEF Calls
  <2> QED
    BY <1>1, <1>3, <1>5, <2>1, SpawnStep
<1> QED
  BY <1>1, <1>4, <1>5

-----------------------------------------------------------------------------
(* Shards that get a new home, and the end of a request                    *)

LEMMA MigrateKeeps ==
  ASSUME IInv, Migrate
  PROVE  IInv'
<1> USE DEF IInv
<1>w. PICK w : w = Min(Live)
  OBVIOUS
<1>1. /\ pc = "respawn" /\ call.todo = {}
      /\ UNCHANGED <<rankVars, alive, resident, blocked, outbox, faults>>
  BY DEF Migrate
<1>2. PICK s \in call.moves :
        IF Live = {} \/ w \notin alive
        THEN Raise /\ UNCHANGED inbox
        ELSE /\ Send({w}, Command("add", {s}, 0))
             /\ call' = [call EXCEPT !.target = w, !.redo = {s}, !.moves = call.moves \ {s}]
             /\ pc' = "moving"
             /\ UNCHANGED <<requests, answers>>
  BY <1>w DEF Migrate
<1>3. \A v \in Workers : Quiet(v)
  BY <1>1 DEF Pipes
<1>4. CASE Live = {} \/ w \notin alive
  <2>1. pc' = "idle" /\ call' = NoCall /\ UNCHANGED <<inbox, requests, answers>>
    BY <1>2, <1>4 DEF Raise
  <2>2. Types'
    BY <1>1, <2>1, NoCallType DEF Types, rankVars, Pcs
  <2>3. \A v \in Workers : Quiet(v)'
    BY <1>1, <1>3, <2>1 DEF Quiet, Pipe
  <2> QED
    BY <1>1, <2>1, <2>2, <2>3, EndKeeps
<1>5. CASE Live # {} /\ w \in alive
  <2>1. /\ Send({w}, Command("add", {s}, 0)) /\ pc' = "moving"
        /\ call' = [call EXCEPT !.target = w, !.redo = {s}, !.moves = call.moves \ {s}]
        /\ UNCHANGED <<requests, answers>>
    BY <1>2, <1>5
  <2>2. call \in Calls /\ call.moves \in SUBSET Shards /\ s \in Shards
    BY <1>2 DEF Types, Calls
  <2>3. Live \in SUBSET Workers /\ Live \subseteq conns
    BY DEF Live, Types
  <2>4. w \in conns /\ w \in Workers /\ w \in Nat
    <3>1. w \in Live
      BY <1>w, <1>5, <2>3, MinIn
    <3> QED
      BY <2>3, <3>1 DEF Workers
  <2>5. /\ call' \in Calls /\ call'.target = w /\ call'.redo = {s} /\ call'.got = call.got
        /\ call'.moves = call.moves \ {s} /\ call'.lost = call.lost /\ call'.todo = {}
        /\ call'.assigned = call.assigned
    <3>1. call.moves \ {s} \in SUBSET Shards /\ {s} \in SUBSET Shards
      BY <2>2
    <3> QED
      BY <1>1, <2>1, <2>2, <2>4, <3>1 DEF Calls
  <2>m. PICK m : m = Command("add", {s}, 0)
    OBVIOUS
  <2>6. m \in Commands /\ ~Meets(m) /\ MoveCommand' = m
    <3>1. {s} \in SUBSET Shards
      BY <2>2
    <3>2. m \in Commands
      BY <2>m, <3>1, Messages
    <3>3. m.op = "add"
      BY <2>m DEF Command
    <3> QED
      BY <2>5, <2>m, <3>2, <3>3 DEF MoveCommand, Meets
  <2>7. /\ inbox' \in [Workers -> Seq(Commands)]
        /\ \A v \in Workers :
             inbox'[v] = IF v \in {w} \cap alive THEN Append(inbox[v], m) ELSE inbox[v]
    <3>1. {w} \in SUBSET Workers /\ Send({w}, m)
      BY <2>1, <2>4, <2>m
    <3> QED
      BY <2>6, <3>1, SendStep
  <2>8. Types'
    BY <1>1, <2>1, <2>5, <2>7 DEF Types, rankVars, Pcs
  <2>9. \A v \in Workers \ {w} : Quiet(v)'
    BY <1>1, <1>3, <2>7 DEF Quiet, Pipe
  <2>10. Owes(w, MoveCommand)'
    <3>1. inbox'[w] = <<m>> /\ blocked'[w] = {} /\ outbox'[w] = <<>> /\ w \in alive'
      BY <1>1, <1>3, <1>5, <2>4, <2>6, <2>7, Single DEF Quiet, Pipe
    <3> QED
      BY <2>6, <3>1 DEF Owes, Pipe
  <2>11. Pipes'
    <3>1. OthersQuiet' /\ \A v \in Workers \ conns' : Quiet(v)'
      BY <1>1, <2>4, <2>5, <2>9 DEF OthersQuiet, rankVars
    <3> QED
      BY <1>1, <2>1, <2>4, <2>5, <2>10, <3>1 DEF Pipes, rankVars
  <2>12. Payloads'
    BY <2>1, <2>5 DEF Payloads
  <2>13. Absent = {} /\ Absent' = {}
    BY <1>1, <2>1, <2>5 DEF Absent
  <2>14. Ranks'
    BY <1>1, <2>1, <2>5, <2>13 DEF Ranks, rankVars
  <2>15. Loose' = Loose /\ call'.redo \cap call'.moves = {}
    BY <1>1, <2>1, <2>2, <2>5 DEF Loose, Owners
  <2>16. \A v \in Workers : Claim(v)' = Claim(v)
    BY <1>1, <2>13 DEF Claim, rankVars
  <2>17. \A v \in conns : ~Arrived(v) /\ ~Arrived(v)'
    <3>1. \A v \in conns : outbox'[v] = <<>>
      BY <1>1, <1>3 DEF Quiet, Pipe, Types
    <3> QED
      BY <1>1, <3>1 DEF Arrived
  <2>18. Owners'
    BY <1>1, <2>1, <2>15, <2>16, <2>17 DEF Owners, rankVars
  <2> QED
    BY <2>8, <2>11, <2>12, <2>14, <2>18
<1> QED
  BY <1>4, <1>5

LEMMA ShardMovedKeeps ==
  ASSUME IInv, ShardMoved
  PROVE  IInv'
<1> USE DEF IInv
<1>w. PICK w : w = call.target
  OBVIOUS
<1>1. /\ pc = "moving" /\ Receives(w) /\ outbox' = Taken(w) /\ pc' = "respawn"
      /\ homes' = [homes EXCEPT ![w] = @ \cup call.redo]
      /\ call' = [call EXCEPT !.redo = {}]
      /\ UNCHANGED <<conns, failures, blacklist, alive, resident, blocked, inbox>>
      /\ UNCHANGED <<requests, answers>>
  BY <1>w DEF ShardMoved
<1>2. /\ w \in conns /\ w \in Workers /\ Owes(w, MoveCommand)
      /\ \A v \in Workers \ {w} : Quiet(v)
  BY <1>w, <1>1 DEF Pipes, OthersQuiet, Types
<1>3. /\ Quiet(w)' /\ Head(outbox[w]) \in Answers(MoveCommand)
      /\ outbox[w] = <<Head(outbox[w])>>
  BY <1>1, <1>2, Sent, OwedTaken DEF Receives
<1>4. Arrived(w)
  <2>1. Head(outbox[w]) # Error
    BY <1>1 DEF Receives, Error, Reply
  <2>2. Head(outbox[w]) = Reply("added", {}, 0)
    BY <1>3, <2>1, Sent DEF Answers, ShardCommands
  <2> QED
    BY <1>w, <1>1, <1>3, <2>2 DEF Arrived
<1>5. call \in Calls /\ call.redo \in SUBSET Shards
  BY DEF Types, Calls
<1>6. /\ call' \in Calls /\ call'.redo = {} /\ call'.got = call.got /\ call'.lost = call.lost
      /\ call'.todo = call.todo /\ call'.assigned = call.assigned /\ call'.moves = call.moves
  BY <1>1, <1>5 DEF Calls
<1>7. /\ homes' \in [Workers -> SUBSET Shards] /\ homes'[w] = homes[w] \cup call.redo
      /\ \A v \in Workers \ {w} : homes'[v] = homes[v]
  BY <1>1, <1>2, <1>5 DEF Types
<1>8. outbox' \in [Workers -> Seq(Replies)] /\ \A v \in Workers \ {w} : outbox'[v] = outbox[v]
  BY <1>1, <1>2, TakenStep
<1>9. Types'
  BY <1>1, <1>6, <1>7, <1>8, RecvFaults DEF Types, Pcs
<1>10. Pipes'
  <2>1. \A v \in Workers : Quiet(v)'
    BY <1>1, <1>2, <1>3, <1>8 DEF Quiet, Pipe
  <2> QED
    BY <1>1, <2>1 DEF Pipes
<1>11. Payloads'
  BY <1>1, <1>6 DEF Payloads
<1>12. Absent' = Absent
  BY <1>1, <1>6 DEF Absent
<1>13. Ranks'
  BY <1>1, <1>6, <1>12 DEF Ranks
<1>14. Owners'
  <2>1. Loose' = call.moves /\ Loose = call.moves \cup call.redo /\ call.redo \cap call.moves = {}
    BY <1>1, <1>6 DEF Loose, Owners
  <2>2. /\ Claim(w)' = Claim(w) \cup call.redo
        /\ \A v \in Workers \ {w} : Claim(v)' = Claim(v)
    <3>1. Claim(w)' = Claim(w) \cup call.redo
      BY <1>1, <1>2, <1>7 DEF Claim
    <3>2. \A v \in Workers \ {w} : Claim(v)' = Claim(v)
      BY <1>1, <1>6, <1>7, <1>12 DEF Claim
    <3> QED
      BY <3>1, <3>2
  <2>3. \A v \in Workers : Claim(v) \cap Loose = {}
    BY DEF Owners
  <2>4. \A u, v \in Workers : u # v => Claim(u)' \cap Claim(v)' = {}
    <3>1. \A u, v \in Workers : u # v => Claim(u) \cap Claim(v) = {}
      BY DEF Owners
    <3>2. \A v \in Workers : Claim(v) \cap call.redo = {}
      BY <2>1, <2>3
    <3> QED
      BY <2>2, <3>1, <3>2
  <2>5. \A v \in Workers : Claim(v)' \cap Loose' = {}
    BY <2>1, <2>2, <2>3
  <2>6. ASSUME NEW v \in conns' PROVE resident'[v] = homes'[v] /\ ~Arrived(v)'
    <3>1. v \in conns /\ v \in Workers
      BY <1>1 DEF Types
    <3>2. v # w => ~Arrived(v)
      BY <1>w DEF Arrived
    <3> QED
      BY <1>1, <1>4, <1>7, <3>1, <3>2 DEF Owners, Arrived
  <2> QED
    BY <1>1, <1>6, <2>4, <2>5, <2>6 DEF Owners
<1> QED
  BY <1>9, <1>10, <1>11, <1>13, <1>14

LEMMA MoveRaisesKeeps ==
  ASSUME IInv, MoveRaises
  PROVE  IInv'
<1> USE DEF IInv
<1>w. PICK w : w = call.target
  OBVIOUS
<1>1. /\ pc = "moving" /\ RecvRaises(w) /\ ~DeadlinePasses(w) /\ outbox' = Taken(w)
      /\ pc' = "idle" /\ call' = NoCall
      /\ UNCHANGED <<rankVars, alive, resident, blocked, inbox, requests, answers>>
  BY <1>w DEF MoveRaises, Raise
<1>2. /\ w \in conns /\ w \in Workers /\ Owes(w, MoveCommand)
      /\ \A v \in Workers \ {w} : Quiet(v)
  BY <1>w, <1>1 DEF Pipes, OthersQuiet, Types
<1>3. /\ outbox' \in [Workers -> Seq(Replies)] /\ \A v \in Workers \ {w} : outbox'[v] = outbox[v]
      /\ outbox[w] = <<>> => outbox'[w] = <<>>
  BY <1>1, <1>2, TakenStep
<1>4. /\ Quiet(w)'
      /\ outbox[w] # <<Reply("added", {}, 0)>>
  <2>1. CASE outbox[w] # <<>>
    <3>1. Head(outbox[w]).kind = "err"
      BY <1>1, <2>1 DEF RecvRaises, DeadlinePasses
    <3>2. Quiet(w)'
      BY <1>1, <1>2, <2>1, Sent, OwedTaken
    <3>3. Reply("added", {}, 0) \in Replies /\ Reply("added", {}, 0).kind = "added"
      BY Messages DEF Reply
    <3> QED
      BY <3>1, <3>2, <3>3, Single
  <2>2. CASE outbox[w] = <<>>
    <3>1. w \notin alive
      BY <1>1, <2>2 DEF RecvRaises, DeadlinePasses
    <3>2. Quiet(w)
      BY <1>2, <2>2, <3>1 DEF Owes, Pipe, Quiet
    <3>3. Reply("added", {}, 0) \in Replies
      BY Messages
    <3>4. Quiet(w)'
      BY <1>1, <1>3, <2>2, <3>2 DEF Quiet, Pipe
    <3> QED
      BY <2>2, <3>3, <3>4, Single
  <2> QED
    BY <2>1, <2>2
<1>5. Types'
  BY <1>1, <1>3, RecvFaults, NoCallType DEF Types, rankVars, Pcs
<1>6. Pipes'
  <2>1. \A v \in Workers : Quiet(v)'
    BY <1>1, <1>2, <1>3, <1>4 DEF Quiet, Pipe
  <2> QED
    BY <1>1, <2>1 DEF Pipes
<1>7. Payloads'
  BY <1>1 DEF Payloads, NoCall
<1>8. Absent' = {} /\ Loose' = {} /\ call'.lost = {}
  BY <1>1 DEF Absent, Loose, NoCall
<1>9. Ranks'
  BY <1>1, <1>8 DEF Ranks, rankVars
<1>10. Owners'
  <2>1. \A v \in Workers : Claim(v)' \subseteq Claim(v)
    BY <1>1, <1>8 DEF Claim, rankVars
  <2>2. \A v \in conns : ~Arrived(v) /\ ~Arrived(v)'
    BY <1>w, <1>1, <1>4 DEF Arrived
  <2>3. \A v \in conns' : resident'[v] = homes'[v]
    BY <1>1, <2>2 DEF Owners, rankVars
  <2>4. \A u, v \in Workers : u # v => Claim(u)' \cap Claim(v)' = {}
    BY <2>1 DEF Owners
  <2> QED
    BY <1>1, <1>8, <2>2, <2>3, <2>4 DEF Owners, rankVars
<1> QED
  BY <1>5, <1>6, <1>7, <1>9, <1>10

LEMMA FoldKeeps ==
  ASSUME IInv, Fold
  PROVE  IInv'
<1> USE DEF IInv
<1>1. /\ pc = "respawn" /\ pc' = "idle" /\ call' = NoCall
      /\ UNCHANGED <<rankVars, workerVars, requests, faults>>
  BY DEF Fold
<1>2. Types'
  BY <1>1, NoCallType DEF Types, rankVars, workerVars, Pcs
<1>3. \A w \in Workers : Quiet(w)'
  BY <1>1 DEF Pipes, Quiet, Pipe, workerVars
<1> QED
  BY <1>1, <1>2, <1>3, EndKeeps DEF workerVars

LEMMA CloseKeeps ==
  ASSUME IInv, Close
  PROVE  IInv'
<1> USE DEF IInv
<1>1. /\ pc = "idle" /\ conns' = {} /\ alive' = {}
      /\ blocked' = [w \in Workers |-> {}]
      /\ inbox' = [w \in Workers |-> <<>>]
      /\ outbox' = [w \in Workers |-> <<>>]
      /\ UNCHANGED <<homes, failures, blacklist, resident, pc, call, requests, answers, faults>>
  BY DEF Close
<1>2. <<>> \in Seq(Commands) /\ <<>> \in Seq(Replies)
  OBVIOUS
<1>3. Types'
  BY <1>1, <1>2 DEF Types
<1>4. Pipes'
  BY <1>1 DEF Pipes, Quiet, Pipe
<1>5. Payloads'
  BY <1>1 DEF Payloads
<1>6. Absent' = {} /\ Loose' = {} /\ call.lost = {}
  BY <1>1 DEF Absent, Loose, Payloads, NoCall
<1>7. Ranks'
  BY <1>1, <1>6 DEF Ranks
<1>8. Owners'
  BY <1>1, <1>6 DEF Owners, Claim
<1> QED
  BY <1>3, <1>4, <1>5, <1>7, <1>8

-----------------------------------------------------------------------------
(* The invariant holds, and what follows from it                           *)

LEMMA InitKeeps ==
  ASSUME Init
  PROVE  IInv
<1> USE DEF Init
<1>1. <<>> \in Seq(Commands) /\ <<>> \in Seq(Replies)
  OBVIOUS
<1>2. \A w \in Workers : {w} \in SUBSET Shards
  BY DEF Shards
<1>3. Types
  BY <1>1, <1>2, NoCallType DEF Types, Pcs
<1>4. Pipes
  BY DEF Pipes, Quiet, Pipe
<1>5. Payloads
  BY DEF Payloads, NoCall
<1>6. Absent = {} /\ Loose = {} /\ call.lost = {}
  BY DEF Absent, Loose, NoCall
<1>7. Ranks
  BY <1>6 DEF Ranks
<1>8. Owners
  BY <1>6 DEF Owners, Claim, Arrived
<1> QED
  BY <1>3, <1>4, <1>5, <1>7, <1>8 DEF IInv

LEMMA NextKeeps ==
  ASSUME IInv, [Next]_vars
  PROVE  IInv'
<1>1. CASE UNCHANGED vars
  <2> USE DEF vars, rankVars, workerVars, IInv
  <2>1. Types' /\ Payloads'
    BY <1>1 DEF Types, Payloads
  <2>2. Pipes'
    <3>1. /\ \A w \in Workers : RoundCommand(w)' = RoundCommand(w)
          /\ UNCHANGED <<RedoCommand, MoveCommand>>
      BY <1>1 DEF RoundCommand, RequestFor, RedoCommand, MoveCommand
    <3>2. \A w \in Workers :
            /\ (Quiet(w)' <=> Quiet(w)) /\ (Leftover(w)' <=> Leftover(w))
            /\ \A m : (Asked(w, m)' <=> Asked(w, m)) /\ (Waits(w, m)' <=> Waits(w, m))
                     /\ (Owes(w, m)' <=> Owes(w, m))
      BY <1>1 DEF Quiet, Asked, Waits, Owes, Leftover, Pipe
    <3>3. OthersQuiet' <=> OthersQuiet
      BY <1>1, <3>2 DEF OthersQuiet
    <3>4. pc \in {"redoAck", "redoResult", "moving"} => call.target \in Workers
      BY DEF Pipes, Types
    <3>5. \A w \in Workers \ conns' : Quiet(w)'
      BY <1>1, <3>2 DEF Pipes
    <3>6. CASE pc = "acks"
      BY <1>1, <3>1, <3>2, <3>5, <3>6 DEF Pipes
    <3>7. CASE pc = "results"
      BY <1>1, <3>1, <3>2, <3>5, <3>7 DEF Pipes
    <3>8. CASE pc \in {"redoAck", "redoResult", "moving"}
      BY <1>1, <3>1, <3>2, <3>3, <3>4, <3>5, <3>8 DEF Pipes
    <3>9. CASE pc \in {"idle", "recover", "respawn"}
      BY <1>1, <3>2, <3>5, <3>9 DEF Pipes
    <3> QED
      BY <3>6, <3>7, <3>8, <3>9 DEF Types, Pcs
  <2>3. UNCHANGED <<Absent, Loose>> /\ \A w \in Workers : UNCHANGED Claim(w)
    BY <1>1 DEF Absent, Loose, Claim
  <2>4. Ranks'
    BY <1>1, <2>3 DEF Ranks
  <2>5. Owners'
    BY <1>1, <2>3 DEF Owners, Arrived
  <2> QED
    BY <2>1, <2>2, <2>4, <2>5
<1>2. CASE \E kind \in Kinds : StartRequest(kind)
  BY <1>2, StartKeeps
<1>3. CASE Refuse
  BY <1>3, RefuseKeeps
<1>4. CASE Driver
  BY <1>4, ReadAckKeeps, GoKeeps, ReadResultKeeps, RetireFailedKeeps, AskTargetKeeps,
     RespawnTargetKeeps, NoTargetLeftKeeps, LoseTargetKeeps, ReleaseTargetKeeps, ReadRedoKeeps,
     RestoreKeeps, RespawnKeeps, MigrateKeeps, ShardMovedKeeps, MoveRaisesKeeps, FoldKeeps
  DEF Driver
<1>5. CASE Close
  BY <1>5, CloseKeeps
<1>6. CASE \E w \in Workers : Work(w) \/ Crash(w)
  BY <1>6, WorkKeeps
<1> QED
  BY <1>1, <1>2, <1>3, <1>4, <1>5, <1>6 DEF Next

(* The invariant of the pool: what each pipe may hold while the driver     *)
(* waits, and who owns each shard.                                         *)
THEOREM PoolInvariant == Spec => []IInv
<1>1. Init => IInv
  BY InitKeeps
<1>2. IInv /\ [Next]_vars => IInv'
  BY NextKeeps
<1> QED
  BY <1>1, <1>2, PTL DEF Spec

(* Types: the driver, the workers and the pipes keep their shape through   *)
(* every failure and recovery, and a rank is on the blacklist only after   *)
(* it has used up its retries.                                             *)
THEOREM PoolTypes == Spec => []PoolTypeOK
<1>1. IInv => PoolTypeOK
  <2> SUFFICES ASSUME IInv PROVE PoolTypeOK
    OBVIOUS
  <2> USE DEF IInv
  <2>1. blacklist = {w \in Workers : failures[w] >= MaxRetries /\ w \in blacklist}
    BY DEF Types, Ranks
  <2>2. \A w \in Workers : Range(inbox[w]) \subseteq Commands /\ Range(outbox[w]) \subseteq Replies
    <3> SUFFICES ASSUME NEW w \in Workers
                 PROVE  Range(inbox[w]) \subseteq Commands /\ Range(outbox[w]) \subseteq Replies
      OBVIOUS
    <3>1. inbox[w] \in Seq(Commands) /\ outbox[w] \in Seq(Replies)
      BY DEF Types
    <3> QED
      BY <3>1 DEF Range
  <2>3. blocked \in [Workers -> SUBSET Commands]
    BY DEF Types
  <2>4. call.got \in [Shards -> Seq(Shards \X Nat)]
    BY DEF Types, Calls
  <2> QED
    BY <2>1, <2>2, <2>3, <2>4 DEF PoolTypeOK, Types
<1> QED
  BY <1>1, PoolInvariant, PTL

(* No two processes ever hold the same shard: a shard that moves and a     *)
(* rank that comes back never count twice.                                 *)
THEOREM ShardsHaveOneHolder == Spec => []OneHolder
<1>1. IInv => OneHolder
  <2> SUFFICES ASSUME IInv, NEW v \in alive, NEW w \in alive, v # w
               PROVE  resident[v] \cap resident[w] = {}
    BY DEF OneHolder
  <2> USE DEF IInv
  <2>1. v \in conns /\ w \in conns /\ v \in Workers /\ w \in Workers
    BY DEF Types
  <2>2. Claim(v) = homes[v] /\ Claim(w) = homes[w]
    BY <2>1 DEF Claim
  <2>3. homes[v] \cap homes[w] = {}
    BY <2>1, <2>2 DEF Owners
  <2>4. \A u \in {v, w} : Arrived(u) => u = call.target /\ call.redo \cap homes[v] = {}
                                        /\ call.redo \cap homes[w] = {}
    BY <2>1, <2>2 DEF Owners, Arrived, Loose
  <2>5. \A u \in {v, w} : (Arrived(u) /\ resident[u] = homes[u] \cup call.redo)
                          \/ resident[u] = homes[u]
    BY <2>1 DEF Owners
  <2> QED
    BY <2>3, <2>4, <2>5
<1> QED
  BY <1>1, PoolInvariant, PTL

(* The set of blacklisted ranks only grows, and none of them is given a    *)
(* process again.                                                          *)
THEOREM BlacklistedForGood == Spec => BlacklistIsForever
<1>1. ASSUME IInv, IInv', [Next]_vars
      PROVE  [\A w \in blacklist : w \in blacklist' /\ w \notin conns']_vars
  <2>1. blacklist \subseteq blacklist'
    <3>1. UNCHANGED blacklist \/ Restore
      BY <1>1, CrashStep, WorkStep
      DEF Next, Driver, vars, rankVars, StartRequest, Refuse, ReadAck, Go, ReadResult, RetireFailed,
          AskTarget, RespawnTarget, SpawnRaises, Spawn, Retire, NoTargetLeft, LoseTarget,
          ReleaseTarget, ReadRedo, Respawn, Migrate, ShardMoved, MoveRaises, Fold, Close, IInv,
          Apart
    <3> QED
      BY <3>1 DEF Restore
  <2>2. blacklist' \cap conns' = {}
    BY <1>1 DEF IInv, Ranks
  <2> QED
    BY <2>1, <2>2
<1> QED
  BY <1>1, PoolInvariant, PTL DEF Spec, BlacklistIsForever

-----------------------------------------------------------------------------
(* The fold of a request has one payload per shard, of this request.       *)
LEMMA FoldAnswers ==
  ASSUME IInv, Fold
  PROVE  Step!Answer \/ Step!Raise
<1>1. pc = "respawn" /\ pc' = "idle" /\ requests' = requests
  BY DEF Fold
<1>2. CASE ~call.bad /\ \A s \in Shards : Len(call.got[s]) = 1
  <2>1. answers' = Append(answers, [request |-> requests,
                                    fold |-> [s \in Shards |-> call.got[s][1]]])
    BY <1>2 DEF Fold
  <2>2. \A s \in Shards : call.got[s][1] = <<s, requests>>
    BY <1>2 DEF IInv, Payloads
  <2>3. [s \in Shards |-> call.got[s][1]] = [s \in 1..NumWorkers |-> <<s, requests>>]
    BY <2>2 DEF Shards, Workers
  <2> QED
    BY <1>1, <2>1, <2>3 DEF Step!Answer, Step!ExactFold
<1>3. CASE ~(~call.bad /\ \A s \in Shards : Len(call.got[s]) = 1)
  <2>1. answers' = answers
    BY <1>3 DEF Fold
  <2> QED
    BY <1>1, <2>1 DEF Step!Raise
<1> QED
  BY <1>2, <1>3

LEMMA StepImplements ==
  ASSUME IInv, [Next]_vars
  PROVE  [Step!Ask \/ Step!Answer \/ Step!Raise \/ Step!Refuse]_(Step!stepVars)
<1> USE DEF Step!stepVars
<1>1. CASE UNCHANGED vars
  BY <1>1 DEF vars
<1>2. CASE \E kind \in Kinds : StartRequest(kind)
  BY <1>2 DEF StartRequest, Step!Ask
<1>3. CASE Refuse
  BY <1>3 DEF Refuse, Step!Refuse
<1>4. CASE Driver
  <2>1. ASSUME pc # "idle", pc' # "idle", UNCHANGED <<requests, answers>>
        PROVE  UNCHANGED Step!stepVars
    BY <2>1
  <2>2. ASSUME pc # "idle", Raise PROVE Step!Raise
    BY <2>2 DEF Raise, Step!Raise
  <2>3. CASE ReadAck \/ Go \/ ReadResult \/ RetireFailed
    BY <2>1, <2>3 DEF ReadAck, Go, ReadResult, RetireFailed
  <2>4. CASE AskTarget \/ LoseTarget \/ ReleaseTarget \/ ReadRedo
    BY <2>1, <2>4 DEF AskTarget, LoseTarget, ReleaseTarget, ReadRedo
  <2>5. CASE RespawnTarget \/ NoTargetLeft \/ Respawn
    BY <2>1, <2>2, <2>5 DEF RespawnTarget, NoTargetLeft, Respawn, SpawnRaises
  <2>6. CASE Restore \/ Migrate \/ ShardMoved \/ MoveRaises
    BY <2>1, <2>2, <2>6 DEF Restore, Migrate, ShardMoved, MoveRaises
  <2>7. CASE Fold
    BY <2>7, FoldAnswers
  <2> QED
    BY <1>4, <2>3, <2>4, <2>5, <2>6, <2>7 DEF Driver
<1>5. CASE Close
  BY <1>5 DEF Close
<1>6. CASE \E w \in Workers : Work(w) \/ Crash(w)
  <2>1. PICK w \in Workers : Work(w) \/ Crash(w)
    BY <1>6
  <2>2. Apart(w)
    BY <2>1, CrashStep, WorkStep DEF IInv
  <2> QED
    BY <2>2 DEF Apart
<1> QED
  BY <1>1, <1>2, <1>3, <1>4, <1>5, <1>6 DEF Next

(* Whatever dies, raises or misses its deadline, a request is answered     *)
(* only with one payload per shard, each for the model of that request,    *)
(* and otherwise raises: the pool keeps the promise of a handle.           *)
THEOREM PoolKeepsPromise == Spec => ImplementsShardedStep
<1>1. Init => Step!Init
  BY DEF Init, Step!Init
<1>2. IInv /\ [Next]_vars
        => [Step!Ask \/ Step!Answer \/ Step!Raise \/ Step!Refuse]_(Step!stepVars)
  BY StepImplements
<1> QED
  BY <1>1, <1>2, PoolInvariant, PTL DEF Spec, ImplementsShardedStep, Step!Spec

=============================================================================
