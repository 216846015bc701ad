---------------------------- MODULE ReadinessProofs ----------------------------
(***************************************************************************)
(* Two more invariants of ResilientEM, on top of that of ResilientProofs:  *)
(* a recovery redoes only what nobody delivered, and after an answer the   *)
(* pool is whole again.  Both rest on where shards can be: a shard leaves  *)
(* the rank of its own number only when that rank is blacklisted, and what *)
(* was delivered in a request still belongs to somebody.                   *)
(***************************************************************************)
EXTENDS ResilientProofs

Owned(s) == \E w \in Workers : s \in Claim(w)

(* A rank has the shard of its number as long as it is not blacklisted.    *)
OwnShards ==
  /\ \A w \in conns \cup Absent : w \in Claim(w)
  /\ \A w \in Workers : \A s \in Claim(w) : s = w \/ s \in blacklist
  /\ Loose \subseteq blacklist

(* The list in the pipe of w is that of its own shards.                    *)
ListKinds == {"stats", "scores"}
OwnStats(w) ==
  \A r \in Replies : outbox[w] = <<r>> /\ r.kind \in ListKinds => r.shards = homes[w]

(* While the driver collects, it has the payloads of the workers it is     *)
(* done with, and no others.                                               *)
Collecting ==
  /\ pc = "acks" =>
       /\ call.todo \cap call.begun = {} /\ call.failed \cap (call.todo \cup call.begun) = {}
       /\ \A s \in Shards : call.got[s] = <<>>
  /\ pc = "results" =>
       /\ call.todo \cap call.failed = {}
       /\ \A s \in Shards : call.got[s] # <<>> =>
            \E w \in conns \ (call.todo \cup call.failed) : s \in homes[w]
       /\ \A w \in call.todo : OwnStats(w)

Recovering == pc \in {"recover", "redoAck", "redoResult"}

(* A payload was delivered once, and its shard is not redone or forgotten. *)
Delivered ==
  /\ \A s \in Shards : Len(call.got[s]) <= 1
  /\ Recovering => \A s \in call.redo : Owned(s) /\ call.got[s] = <<>>
  /\ pc \notin {"idle", "acks", "results"} =>
       \A s \in Shards : call.got[s] # <<>> => Owned(s) \/ s \in Loose

(* The answers are of earlier requests.                                    *)
AnswerType == [request : Nat, fold : [Shards -> Shards \X Nat]]
Earlier ==
  /\ answers \in Seq(AnswerType)
  /\ \A i \in 1..Len(answers) :
       answers[i].request <= requests /\ (pc # "idle" => answers[i].request # requests)

DInv == OwnShards /\ Collecting /\ Delivered /\ Earlier /\ ReadyAfterAnswer

-----------------------------------------------------------------------------
(* Parts that several actions share                                        *)

(* Inside a request nothing was answered yet.                              *)
LEMMA InCall ==
  ASSUME IInv, DInv, pc # "idle", UNCHANGED <<answers, requests>>
  PROVE  Earlier' /\ ReadyAfterAnswer'
<1>1. answers # <<>> => Len(answers) \in 1..Len(answers)
  BY DEF DInv, Earlier
<1> QED
  BY <1>1 DEF DInv, Earlier, ReadyAfterAnswer

(* The answers are numbered.                                               *)
LEMMA AnswerNumbers ==
  ASSUME DInv
  PROVE  \A i \in 1..Len(answers) : answers[i].request \in Nat
<1>1. \A i \in 1..Len(answers) : answers[i] \in AnswerType
  BY DEF DInv, Earlier
<1> QED
  BY <1>1 DEF AnswerType

(* A step that moves no claim.                                             *)
LEMMA SameClaims ==
  ASSUME DInv, \A w \in Workers : Claim(w)' = Claim(w), UNCHANGED <<blacklist, Loose>>,
         conns' \cup Absent' \subseteq conns \cup Absent,
         conns' \cup Absent' \subseteq Workers
  PROVE  OwnShards' /\ \A s : Owned(s)' <=> Owned(s)
BY DEF DInv, OwnShards, Owned

(* A request ends: what belonged to absent ranks belongs to nobody now.    *)
LEMMA EndedShards ==
  ASSUME IInv, DInv, pc' = "idle", call' = NoCall, UNCHANGED <<conns, homes, blacklist>>
  PROVE  OwnShards' /\ Collecting' /\ Delivered'
<1>1. Absent' = {} /\ Loose' = {}
  BY DEF Absent, Loose
<1>2. conns \subseteq Workers
  BY DEF IInv, Types
<1>3. \A w \in Workers : Claim(w)' = IF w \in conns THEN Claim(w) ELSE {}
  BY <1>1 DEF Claim
<1>4. OwnShards'
  BY <1>1, <1>2, <1>3 DEF DInv, OwnShards
<1>5. Collecting'
  BY DEF Collecting
<1>6. Delivered'
  BY DEF Delivered, Recovering, NoCall
<1> QED
  BY <1>4, <1>5, <1>6

LEMMA Ended ==
  ASSUME IInv, DInv, pc # "idle", pc' = "idle", call' = NoCall,
         UNCHANGED <<conns, homes, blacklist, answers, requests>>
  PROVE  DInv'
BY EndedShards, InCall DEF DInv

LEMMA SpawnRaisesReady ==
  ASSUME IInv, DInv, SpawnRaises, pc # "idle"
  PROVE  DInv'
BY Ended DEF SpawnRaises, Raise, rankVars

(* Ranks that are retired keep their claims until the request ends.        *)
LEMMA RetireClaims ==
  ASSUME IInv, DInv, NEW W \in SUBSET conns, Retire(W),
         pc = "results" \/ Recovering, pc' = "recover",
         call'.lost = call.lost \cup W, call'.assigned = AssignedWith(W),
         UNCHANGED <<answers, requests>>
  PROVE  /\ OwnShards' /\ (\A s : Owned(s)' <=> Owned(s)) /\ Loose' = {} /\ Loose = {}
         /\ Collecting' /\ Earlier' /\ ReadyAfterAnswer'
<1> USE DEF IInv
<1>1. /\ conns' = conns \ W /\ blacklist' = blacklist
      /\ \A w \in Workers \ W : homes'[w] = homes[w]
  BY RetireStep
<1>2. W \subseteq Workers /\ conns \subseteq Workers
  BY DEF Types
<1>3. Absent = call.lost /\ Absent' = call.lost \cup W
  BY DEF Absent, Ranks, Recovering
<1>4. Loose = {} /\ Loose' = {}
  BY DEF Loose, Recovering
<1>5. \A w \in Workers : Claim(w)' = Claim(w)
  <2> SUFFICES ASSUME NEW w \in Workers PROVE Claim(w)' = Claim(w)
    OBVIOUS
  <2>1. call'.assigned[w] = IF w \in W THEN homes[w] ELSE call.assigned[w]
    BY DEF AssignedWith
  <2>2. CASE w \in W
    BY <1>1, <1>3, <2>1, <2>2 DEF Claim
  <2>3. CASE w \notin W
    BY <1>1, <1>3, <2>1, <2>3 DEF Claim
  <2> QED
    BY <2>2, <2>3
<1>6. Absent' \subseteq Workers
  BY <1>2, <1>3 DEF Types, Calls
<1>7. OwnShards' /\ \A s : Owned(s)' <=> Owned(s)
  BY <1>1, <1>2, <1>3, <1>4, <1>5, <1>6, SameClaims
<1>8. Collecting'
  BY DEF Collecting
<1> QED
  BY <1>4, <1>7, <1>8, InCall DEF Recovering

(* A rank that comes back gets what it claims.                             *)
LEMMA SpawnReady ==
  ASSUME IInv, DInv, NEW w \in Absent \ conns, Spawn(w, call.assigned[w]),
         pc \in {"recover", "respawn"}, UNCHANGED <<pc, answers, requests>>,
         call'.got = call.got, call'.lost = call.lost, call'.redo = call.redo,
         call'.assigned = call.assigned, call'.moves = call.moves,
         pc = "respawn" => call'.todo = call.todo \ {w}
  PROVE  DInv'
<1> USE DEF IInv
<1>1. w \in Workers /\ conns \subseteq Workers /\ Absent \subseteq Workers
  BY DEF Ranks, Types
<1>2. /\ conns' = conns \cup {w} /\ homes' = [homes EXCEPT ![w] = call.assigned[w]]
      /\ blacklist' = blacklist
  BY DEF Spawn
<1>3. Absent' = IF pc = "recover" THEN Absent ELSE Absent \ {w}
  BY DEF Absent
<1>4. \A v \in Workers : Claim(v)' = Claim(v)
  <2> SUFFICES ASSUME NEW v \in Workers PROVE Claim(v)' = Claim(v)
    OBVIOUS
  <2>1. homes'[v] = IF v = w THEN call.assigned[w] ELSE homes[v]
    BY <1>1, <1>2 DEF Types
  <2>2. CASE v = w
    BY <1>2, <2>1, <2>2 DEF Claim
  <2>3. CASE v # w
    BY <1>2, <1>3, <2>1, <2>3 DEF Claim
  <2> QED
    BY <2>2, <2>3
<1>5. Loose' = Loose
  BY DEF Loose
<1>6. OwnShards' /\ \A s : Owned(s)' <=> Owned(s)
  BY <1>1, <1>2, <1>3, <1>4, <1>5, SameClaims
<1>7. Collecting'
  BY DEF Collecting
<1>8. Delivered'
  BY <1>5, <1>6 DEF DInv, Delivered, Recovering
<1> QED
  BY <1>6, <1>7, <1>8, InCall DEF DInv

-----------------------------------------------------------------------------
(* The processes                                                           *)

LEMMA WorkOwnStats ==
  ASSUME Types, NEW w \in Workers, Work(w), homes[w] = resident[w], OwnStats(w), outbox[w] = <<>>,
         homes' = homes
  PROVE  OwnStats(w)'
<1> SUFFICES ASSUME NEW r \in Replies, outbox'[w] = <<r>>, r.kind \in ListKinds
             PROVE  r.shards = homes[w]
  BY DEF OwnStats
<1> USE DEF ListKinds
<1>1. ASSUME NEW q \in Replies, Put(w, q) PROVE q = r
  BY <1>1, Single DEF Put, Types
<1>2. Started \in Replies /\ Error \in Replies /\ Reply("added", {}, 0) \in Replies
  BY Messages DEF Started, Error
<1>3. ASSUME NEW m \in Commands, Compute(w, m) PROVE r.shards = homes[w]
  <2>1. Put(w, Statistics(w, m)) \/ Put(w, Error)
    BY <1>3 DEF Compute, Error
  <2>2. m.shards \in SUBSET Shards /\ m.request \in Nat /\ resident[w] \in SUBSET Shards
    BY DEF Commands, Types
  <2>3. Statistics(w, m) \in Replies
    BY <2>2, Messages DEF Statistics, ListKind
  <2>4. r = Statistics(w, m)
    BY <1>1, <1>2, <2>1, <2>3 DEF Error, Reply
  <2> QED
    BY <2>4 DEF Statistics, Reply, ShardCommands
<1>4. inbox[w] # <<>> => Head(inbox[w]) \in Commands
  BY DEF Types
<1>5. CASE Acknowledge(w)
  BY <1>1, <1>2, <1>5 DEF Acknowledge, Started, Reply
<1>6. CASE ComputeAfterGo(w)
  BY <1>3, <1>6 DEF ComputeAfterGo, Types
<1>7. CASE ComputeAtOnce(w)
  BY <1>3, <1>4, <1>7 DEF ComputeAtOnce, Take
<1>8. CASE AddShard(w)
  <2>1. Put(w, Reply("added", {}, 0)) \/ Put(w, Error)
    BY <1>8 DEF AddShard, Error
  <2> QED
    BY <1>1, <1>2, <2>1 DEF Error, Reply
<1> QED
  BY <1>5, <1>6, <1>7, <1>8 DEF Work

LEMMA WorkReady ==
  ASSUME IInv, DInv, NEW w \in Workers, Work(w) \/ Crash(w)
  PROVE  DInv'
<1> USE DEF IInv
<1>1. Apart(w)
  BY CrashStep, WorkStep
<1>2. UNCHANGED <<rankVars, pc, call, requests, answers>>
  BY <1>1 DEF Apart
<1>3. Absent' = Absent /\ Loose' = Loose /\ \A v \in Workers : Claim(v)' = Claim(v)
  BY <1>2 DEF Absent, Loose, Claim, rankVars
<1>4. OwnShards' /\ \A s : Owned(s)' <=> Owned(s)
  BY <1>2, <1>3, SameClaims DEF rankVars, Ranks, Types
<1>5. Collecting'
  <2>1. CASE pc = "results"
    <3>1. ASSUME NEW v \in call.todo PROVE OwnStats(v)'
      <4>1. v \in conns /\ v \in Workers /\ OwnStats(v) /\ Owes(v, RoundCommand(v))
        BY <2>1 DEF DInv, Collecting, Ranks, Types, Pipes
      <4>2. CASE v # w
        BY <1>1, <1>2, <4>1, <4>2 DEF Apart, OwnStats, rankVars
      <4>3. CASE v = w /\ Work(w)
        <5>1. inbox[w] # <<>>
          BY <4>3, WorkStep
        <5>2. outbox[w] = <<>>
          BY <4>1, <4>3, <5>1 DEF Owes, Quiet, Pipe
        <5>3. resident[w] = homes[w]
          BY <2>1, <4>1, <4>3 DEF Owners, Arrived
        <5> QED
          BY <1>2, <4>1, <4>3, <5>2, <5>3, WorkOwnStats DEF rankVars
      <4>4. CASE v = w /\ Crash(w)
        BY <1>2, <4>1, <4>4, CrashStep DEF OwnStats, rankVars
      <4> QED
        BY <4>2, <4>3, <4>4
    <3> QED
      BY <1>2, <2>1, <3>1 DEF DInv, Collecting, rankVars
  <2>2. CASE pc # "results"
    BY <1>2, <2>2 DEF DInv, Collecting
  <2> QED
    BY <2>1, <2>2
<1>6. Delivered'
  BY <1>2, <1>3, <1>4 DEF DInv, Delivered, Recovering
<1>7. Earlier'
  BY <1>2 DEF DInv, Earlier
<1>8. ReadyAfterAnswer'
  <2>1. CASE pc # "idle"
    BY <1>2, <2>1, InCall
  <2>2. CASE pc = "idle"
    <3>1. inbox[w] = <<>>
      BY <2>2 DEF Pipes, Quiet, Pipe
    <3>2. resident' = resident
      BY <3>1, CrashStep, WorkStep
    <3> QED
      BY <1>2, <2>2, <3>2 DEF DInv, ReadyAfterAnswer, rankVars
  <2> QED
    BY <2>1, <2>2
<1> QED
  BY <1>4, <1>5, <1>6, <1>7, <1>8 DEF DInv

-----------------------------------------------------------------------------
(* Collecting                                                              *)

LEMMA StartReady ==
  ASSUME IInv, DInv, NEW kind \in Kinds, StartRequest(kind)
  PROVE  DInv'
<1> USE DEF IInv
<1>1. /\ pc = "idle" /\ requests' = requests + 1 /\ answers' = answers
      /\ pc' = IF kind = "update" THEN "acks" ELSE "results"
      /\ call' = [NoCall EXCEPT !.kind = kind, !.todo = Live \cap alive,
                                !.failed = Live \ alive]
      /\ UNCHANGED <<rankVars, alive, resident, blocked, outbox>>
  BY DEF StartRequest
<1>2. /\ call'.got = [s \in Shards |-> <<>>] /\ call'.todo = Live \cap alive
      /\ call'.failed = Live \ alive /\ call'.begun = {}
  BY <1>1 DEF NoCall
<1>3. Absent' = Absent /\ Loose' = Loose /\ \A w \in Workers : Claim(w)' = Claim(w)
  BY <1>1 DEF Absent, Loose, Claim, rankVars
<1>4. OwnShards'
  BY <1>1, <1>3, SameClaims DEF rankVars, Ranks, Types
<1>5. \A w \in call'.todo : OwnStats(w)'
  <2>1. \A w \in Workers : outbox'[w] = <<>>
    BY <1>1 DEF Pipes, Quiet, Pipe
  <2>2. call'.todo \subseteq Workers
    BY <1>2 DEF Types
  <2>3. \A r : <<r>> # <<>>
    OBVIOUS
  <2> QED
    BY <2>1, <2>2, <2>3 DEF OwnStats
<1>6. Collecting'
  BY <1>2, <1>5 DEF Collecting
<1>7. Delivered'
  BY <1>1, <1>2 DEF Delivered, Recovering
<1>8. Earlier' /\ ReadyAfterAnswer'
  <2>1. requests \in Nat
    BY DEF Types
  <2>2. \A i \in 1..Len(answers) : answers[i].request \in Nat
    BY AnswerNumbers
  <2> QED
    BY <1>1, <2>1, <2>2 DEF DInv, Earlier, ReadyAfterAnswer
<1> QED
  BY <1>4, <1>6, <1>7, <1>8 DEF DInv

LEMMA RefuseReady ==
  ASSUME IInv, DInv, Refuse
  PROVE  DInv'
<1> USE DEF IInv
<1>1. /\ pc = "idle" /\ Live = {} /\ requests' = requests + 1
      /\ UNCHANGED <<rankVars, workerVars, pc, call, answers>>
  BY DEF Refuse
<1>2. conns' = {}
  BY <1>1 DEF Live, Ranks, rankVars
<1>3. Absent' = Absent /\ Loose' = Loose /\ \A w \in Workers : Claim(w)' = Claim(w)
  BY <1>1 DEF Absent, Loose, Claim, rankVars
<1>4. OwnShards'
  BY <1>1, <1>3, SameClaims DEF rankVars, Ranks, Types
<1>5. Collecting' /\ Delivered'
  BY <1>1 DEF DInv, Collecting, Delivered, Recovering
<1>6. Earlier' /\ ReadyAfterAnswer'
  <2>1. requests \in Nat
    BY DEF Types
  <2>2. \A i \in 1..Len(answers) : answers[i].request \in Nat
    BY AnswerNumbers
  <2> QED
    BY <1>1, <1>2, <2>1, <2>2 DEF DInv, Earlier, ReadyAfterAnswer
<1> QED
  BY <1>4, <1>5, <1>6 DEF DInv

(* A step of the driver that moves no shard.                               *)
LEMMA StillReady ==
  ASSUME IInv, DInv, pc # "idle", UNCHANGED <<rankVars, requests, answers, Absent, Loose>>,
         call'.assigned = call.assigned, Collecting', Delivered'
  PROVE  DInv'
<1>1. \A w \in Workers : Claim(w)' = Claim(w)
  BY DEF Claim, rankVars
<1>2. OwnShards'
  BY <1>1, SameClaims DEF rankVars, IInv, Ranks, Types
<1> QED
  BY <1>2, InCall DEF DInv

LEMMA ReadAckReady ==
  ASSUME IInv, DInv, ReadAck
  PROVE  DInv'
<1> USE DEF IInv
<1>w. PICK w : w = Min(call.todo)
  OBVIOUS
<1>1. /\ pc = "acks" /\ call.todo # {}
      /\ UNCHANGED <<rankVars, pc, requests, answers>>
      /\ \/ call' = [call EXCEPT !.todo = call.todo \ {w}, !.begun = call.begun \cup {w}]
         \/ call' = [call EXCEPT !.todo = call.todo \ {w}, !.failed = call.failed \cup {w}]
  BY <1>w DEF ReadAck
<1>2. call \in Calls /\ call.todo \in SUBSET Workers
  BY DEF Types, Calls
<1>3. w \in call.todo
  BY <1>w, <1>1, <1>2, MinIn
<1>4. /\ call'.todo = call.todo \ {w} /\ call'.got = call.got /\ call'.assigned = call.assigned
      /\ \/ call'.begun = call.begun \cup {w} /\ call'.failed = call.failed
         \/ call'.begun = call.begun /\ call'.failed = call.failed \cup {w}
  BY <1>1, <1>2 DEF Calls
<1>5. Absent' = Absent /\ Loose' = Loose
  BY <1>1 DEF Absent, Loose
<1>6. Collecting'
  <2>1. /\ call.todo \cap call.begun = {} /\ call.failed \cap (call.todo \cup call.begun) = {}
        /\ \A s \in Shards : call.got[s] = <<>>
    BY <1>1 DEF DInv, Collecting
  <2>2. call'.todo \cap call'.begun = {} /\ call'.failed \cap (call'.todo \cup call'.begun) = {}
    BY <1>3, <1>4, <2>1
  <2> QED
    BY <1>1, <1>4, <2>1, <2>2 DEF Collecting
<1>7. Delivered'
  BY <1>1, <1>4 DEF DInv, Delivered, Recovering
<1> QED
  BY <1>1, <1>4, <1>5, <1>6, <1>7, StillReady

LEMMA GoReady ==
  ASSUME IInv, DInv, Go
  PROVE  DInv'
<1> USE DEF IInv
<1>1. /\ pc = "acks" /\ call.todo = {} /\ pc' = "results"
      /\ call' = [call EXCEPT !.todo = call.begun \cap alive,
                              !.failed = call.failed \cup (call.begun \ alive)]
      /\ UNCHANGED <<rankVars, outbox, requests, answers>>
  BY DEF Go
<1>2. /\ call'.todo = call.begun \cap alive /\ call'.got = call.got
      /\ call'.failed = call.failed \cup (call.begun \ alive) /\ call'.assigned = call.assigned
  BY <1>1 DEF Types, Calls
<1>3. Absent' = Absent /\ Loose' = Loose
  BY <1>1 DEF Absent, Loose
<1>4. Collecting'
  <2>1. call.failed \cap call.begun = {} /\ \A s \in Shards : call.got[s] = <<>>
    BY <1>1 DEF DInv, Collecting
  <2>2. \A v \in call'.todo : outbox'[v] = <<>>
    BY <1>1, <1>2 DEF Pipes, Waits, Quiet, Pipe, Types, Calls
  <2>3. \A r : <<r>> # <<>>
    OBVIOUS
  <2>4. \A v \in call'.todo : OwnStats(v)'
    BY <2>2, <2>3 DEF OwnStats
  <2> QED
    BY <1>1, <1>2, <2>1, <2>4 DEF Collecting
<1>5. Delivered'
  BY <1>1, <1>2 DEF DInv, Delivered, Recovering
<1> QED
  BY <1>1, <1>2, <1>3, <1>4, <1>5, StillReady

LEMMA ReadResultReady ==
  ASSUME IInv, DInv, ReadResult
  PROVE  DInv'
<1> USE DEF IInv
<1>w. PICK w : w = Min(call.todo)
  OBVIOUS
<1>1. /\ pc = "results" /\ call.todo # {} /\ outbox' = Taken(w)
      /\ UNCHANGED <<rankVars, pc, requests, answers>>
      /\ \/ /\ Receives(w) /\ Head(outbox[w]).kind = ListKind(call.kind)
            /\ call' = [call EXCEPT !.todo = call.todo \ {w}, !.got = Received(Head(outbox[w]))]
         \/ call' = [call EXCEPT !.todo = call.todo \ {w}, !.failed = call.failed \cup {w}]
  BY <1>w DEF ReadResult
<1>2. call \in Calls /\ call.todo \in SUBSET Workers /\ call.got \in [Shards -> Seq(Shards \X Nat)]
  BY DEF Types, Calls
<1>3. w \in call.todo /\ w \in Workers /\ w \in conns
  <2>1. w \in call.todo
    BY <1>w, <1>1, <1>2, MinIn
  <2> QED
    BY <1>1, <1>2, <2>1 DEF Ranks
<1>4. Absent' = Absent /\ Loose' = Loose
  BY <1>1 DEF Absent, Loose
<1>5. /\ call.todo \cap call.failed = {}
      /\ \A s \in Shards : call.got[s] # <<>> =>
           \E v \in conns \ (call.todo \cup call.failed) : s \in homes[v]
      /\ \A v \in call.todo : OwnStats(v)
      /\ \A s \in Shards : Len(call.got[s]) <= 1
  BY <1>1 DEF DInv, Collecting, Delivered
<1>6. \A v \in call.todo \ {w} : OwnStats(v)'
  <2>1. \A v \in Workers \ {w} : outbox'[v] = outbox[v]
    BY <1>1, <1>3, TakenStep
  <2>2. \A v \in call.todo \ {w} : outbox'[v] = outbox[v] /\ homes'[v] = homes[v]
    BY <1>1, <1>2, <2>1 DEF rankVars
  <2> QED
    BY <1>5, <2>2 DEF OwnStats
<1>7. CASE /\ Receives(w) /\ Head(outbox[w]).kind = ListKind(call.kind)
           /\ call' = [call EXCEPT !.todo = call.todo \ {w}, !.got = Received(Head(outbox[w]))]
  <2>1. PICK r \in Answers(RoundCommand(w)) : outbox[w] = <<r>>
    BY <1>1, <1>3, <1>7 DEF Pipes, Owes, Quiet, Pipe, Receives
  <2>2. Head(outbox[w]) = r /\ r \in Replies
    <3>1. outbox[w] \in Seq(Replies) /\ outbox[w] # <<>>
      BY <1>3, <1>7 DEF Types, Receives
    <3>2. Head(outbox[w]) \in Replies
      BY <3>1
    <3>3. Head(<<r>>) = r
      OBVIOUS
    <3> QED
      BY <2>1, <3>2, <3>3
  <2>3. r.shards = homes[w]
    BY <1>3, <1>5, <1>7, <2>1, <2>2 DEF OwnStats, ListKind, ListKinds
  <2>4. /\ call'.todo = call.todo \ {w} /\ call'.failed = call.failed
        /\ call'.assigned = call.assigned /\ call'.got = Received(r)
    BY <1>2, <1>7, <2>2 DEF Calls
  <2>5. \A s \in Shards :
          call'.got[s] = IF s \in homes[w] THEN Append(call.got[s], <<s, r.request>>)
                         ELSE call.got[s]
    BY <2>3, <2>4 DEF Received
  <2>6. ASSUME NEW s \in homes[w], s \in Shards PROVE call.got[s] = <<>>
    <3> SUFFICES ASSUME NEW v \in conns \ (call.todo \cup call.failed), s \in homes[v] PROVE FALSE
      BY <1>5, <2>6
    <3>1. v # w /\ v \in Workers
      BY <1>3 DEF Types
    <3>2. Claim(v) = homes[v] /\ Claim(w) = homes[w]
      BY <1>3 DEF Claim
    <3> QED
      BY <1>3, <2>6, <3>1, <3>2 DEF Owners
  <2>7. \A s \in Shards : Len(call'.got[s]) <= 1
    <3> SUFFICES ASSUME NEW s \in Shards PROVE Len(call'.got[s]) <= 1
      OBVIOUS
    <3>1. CASE s \in homes[w]
      <4>1. PICK x : x = <<s, r.request>>
        OBVIOUS
      <4>2. call'.got[s] = Append(<<>>, x)
        BY <2>5, <2>6, <3>1, <4>1
      <4>3. Len(Append(<<>>, x)) = 1
        OBVIOUS
      <4> QED
        BY <4>2, <4>3
    <3>2. CASE s \notin homes[w]
      BY <1>5, <2>5, <3>2
    <3> QED
      BY <3>1, <3>2
  <2>8. ASSUME NEW s \in Shards, call'.got[s] # <<>>
        PROVE  \E v \in conns' \ (call'.todo \cup call'.failed) : s \in homes'[v]
    <3>1. CASE s \in homes[w]
      BY <1>1, <1>3, <1>5, <2>4, <3>1 DEF rankVars
    <3>2. CASE s \notin homes[w]
      BY <1>1, <1>5, <2>4, <2>5, <2>8, <3>2 DEF rankVars
    <3> QED
      BY <3>1, <3>2
  <2>9. Collecting'
    BY <1>1, <1>5, <1>6, <2>4, <2>8 DEF Collecting
  <2>10. Delivered'
    BY <1>1, <2>7 DEF Delivered, Recovering
  <2> QED
    BY <1>1, <1>4, <2>4, <2>9, <2>10, StillReady
<1>8. CASE call' = [call EXCEPT !.todo = call.todo \ {w}, !.failed = call.failed \cup {w}]
  <2>1. /\ call'.todo = call.todo \ {w} /\ call'.failed = call.failed \cup {w}
        /\ call'.assigned = call.assigned /\ call'.got = call.got
    BY <1>2, <1>8 DEF Calls
  <2>2. call'.todo \cup call'.failed = call.todo \cup call.failed
    BY <1>3, <2>1
  <2>3. Collecting'
    BY <1>1, <1>5, <1>6, <2>1, <2>2 DEF Collecting, rankVars
  <2>4. Delivered'
    BY <1>1, <1>5, <2>1 DEF Delivered, Recovering
  <2> QED
    BY <1>1, <1>4, <2>1, <2>3, <2>4, StillReady
<1> QED
  BY <1>1, <1>7, <1>8

-----------------------------------------------------------------------------
(* Recovering                                                              *)

LEMMA RetireFailedReady ==
  ASSUME IInv, DInv, RetireFailed
  PROVE  DInv'
<1> USE DEF IInv
<1> DEFINE W == call.failed
           R == UNION {homes[w] : w \in W}
<1>1. /\ pc = "results" /\ call.todo = {} /\ Retire(W)
      /\ call' = [call EXCEPT !.lost = call.lost \cup W, !.assigned = AssignedWith(W),
                              !.redo = R]
      /\ pc' = "recover" /\ UNCHANGED <<requests, answers>>
  BY DEF RetireFailed
<1>2. W \in SUBSET conns /\ conns \subseteq Workers
  BY <1>1 DEF Ranks, Types
<1> HIDE DEF R
<1>3. /\ call'.lost = call.lost \cup W /\ call'.assigned = AssignedWith(W)
      /\ call'.got = call.got /\ call'.redo = R
  BY <1>1 DEF Types, Calls
<1>4. /\ OwnShards' /\ (\A s : Owned(s)' <=> Owned(s))
      /\ Collecting' /\ Earlier' /\ ReadyAfterAnswer'
  BY <1>1, <1>2, <1>3, RetireClaims
<1>5. \A v \in conns : Claim(v) = homes[v]
  BY DEF Claim
<1>6. /\ \A s \in Shards : Len(call.got[s]) <= 1
      /\ \A s \in Shards : call.got[s] # <<>> => \E v \in conns \ W : s \in homes[v]
  BY <1>1 DEF DInv, Collecting, Delivered
<1>7. ASSUME NEW s \in R PROVE Owned(s) /\ (s \in Shards => call.got[s] = <<>>)
  <2>1. PICK w \in W : s \in homes[w]
    BY <1>7 DEF R
  <2>2. Owned(s)
    BY <1>2, <1>5, <2>1 DEF Owned
  <2>3. ASSUME NEW v \in conns \ W PROVE s \notin homes[v]
    BY <1>2, <1>5, <2>1, <2>3 DEF Owners
  <2> QED
    BY <1>6, <2>2, <2>3
<1>8. R \subseteq Shards
  BY <1>2 DEF R, Types
<1>9. \A s \in Shards : call.got[s] # <<>> => Owned(s)
  BY <1>2, <1>5, <1>6 DEF Owned
<1>10. Delivered'
  BY <1>3, <1>4, <1>6, <1>7, <1>8, <1>9 DEF Delivered
<1> QED
  BY <1>4, <1>10 DEF DInv

(* A target that fails, or has failed, is retired.                         *)
LEMMA RetireTarget ==
  ASSUME IInv, DInv, NEW w \in conns, Retire({w}), Recovering, pc' = "recover",
         call'.lost = call.lost \cup {w}, call'.assigned = AssignedWith({w}),
         call'.got = call.got, call'.redo = call.redo, UNCHANGED <<answers, requests>>
  PROVE  DInv'
<1>1. /\ OwnShards' /\ (\A s : Owned(s)' <=> Owned(s)) /\ Loose = {}
      /\ Collecting' /\ Earlier' /\ ReadyAfterAnswer'
  BY RetireClaims
<1>2. Delivered'
  BY <1>1 DEF DInv, Delivered, Recovering
<1> QED
  BY <1>1, <1>2 DEF DInv

LEMMA AskTargetReady ==
  ASSUME IInv, DInv, AskTarget
  PROVE  DInv'
<1> USE DEF IInv
<1>w. PICK w : w = Min(Candidates)
  OBVIOUS
<1>1. /\ pc = "recover" /\ Candidates # {} /\ UNCHANGED <<requests, answers>>
  BY DEF AskTarget
<1>2. Candidates \in SUBSET Workers /\ call \in Calls
  BY DEF Candidates, Live, Types
<1>3. w \in conns
  BY <1>w, <1>1, <1>2, MinIn DEF Candidates, Live
<1>4. CASE w \in alive
  <2>1. /\ call' = [call EXCEPT !.target = w, !.attempted = call.attempted \cup {w}]
        /\ pc' = IF call.kind = "update" THEN "redoAck" ELSE "redoResult"
        /\ UNCHANGED rankVars
    BY <1>w, <1>4 DEF AskTarget
  <2>2. /\ call'.redo = call.redo /\ call'.got = call.got /\ call'.lost = call.lost
        /\ call'.assigned = call.assigned
    BY <1>2, <2>1 DEF Calls
  <2>3. Absent' = Absent /\ Loose' = Loose /\ Loose = {}
    BY <1>1, <2>1, <2>2 DEF Absent, Loose
  <2>4. \A v \in Workers : Claim(v)' = Claim(v)
    BY <2>1, <2>2, <2>3 DEF Claim, rankVars
  <2>5. Collecting'
    BY <2>1 DEF Collecting
  <2>6. Delivered'
    BY <1>1, <2>1, <2>2, <2>3, <2>4 DEF DInv, Delivered, Recovering, Owned
  <2> QED
    BY <1>1, <2>1, <2>2, <2>3, <2>5, <2>6, StillReady
<1>5. CASE w \notin alive
  <2>1. /\ Retire({w}) /\ pc' = "recover"
        /\ call' = [call EXCEPT !.target = w, !.attempted = call.attempted \cup {w},
                                !.lost = call.lost \cup {w}, !.assigned = AssignedWith({w})]
    BY <1>w, <1>5 DEF AskTarget
  <2>2. /\ call'.lost = call.lost \cup {w} /\ call'.got = call.got /\ call'.redo = call.redo
        /\ call'.assigned = AssignedWith({w})
    BY <1>2, <2>1 DEF Calls
  <2> QED
    BY <1>1, <1>3, <2>1, <2>2, RetireTarget DEF Recovering
<1> QED
  BY <1>4, <1>5

LEMMA LoseTargetReady ==
  ASSUME IInv, DInv, LoseTarget
  PROVE  DInv'
<1> USE DEF IInv
<1> DEFINE w == call.target
<1>1. /\ pc \in {"redoAck", "redoResult"} /\ Retire({w}) /\ pc' = "recover"
      /\ call' = [call EXCEPT !.lost = call.lost \cup {w}, !.assigned = AssignedWith({w})]
      /\ UNCHANGED <<requests, answers>>
  BY DEF LoseTarget
<1>2. w \in conns
  BY <1>1 DEF Pipes
<1> HIDE DEF w
<1>3. /\ call'.lost = call.lost \cup {w} /\ call'.got = call.got /\ call'.redo = call.redo
      /\ call'.assigned = AssignedWith({w})
  BY <1>1 DEF Types, Calls
<1> QED
  BY <1>1, <1>2, <1>3, RetireTarget DEF Recovering

LEMMA ReleaseTargetReady ==
  ASSUME IInv, DInv, ReleaseTarget
  PROVE  DInv'
<1>1. /\ pc = "redoAck" /\ pc' = "redoResult"
      /\ UNCHANGED <<rankVars, call, requests, answers>>
  BY DEF ReleaseTarget
<1>2. Absent' = Absent /\ Loose' = Loose
  BY <1>1 DEF Absent, Loose
<1>3. \A v \in Workers : Claim(v)' = Claim(v)
  BY <1>1, <1>2 DEF Claim, rankVars
<1>4. Collecting'
  BY <1>1 DEF Collecting
<1>5. Delivered'
  BY <1>1, <1>2, <1>3 DEF DInv, Delivered, Recovering, Owned
<1> QED
  BY <1>1, <1>2, <1>4, <1>5, StillReady

LEMMA ReadRedoReady ==
  ASSUME IInv, DInv, ReadRedo
  PROVE  DInv'
<1> USE DEF IInv
<1> DEFINE s == Min(call.redo)
           r == Head(outbox[call.target])
<1>1. /\ pc = "redoResult" /\ pc' = "recover"
      /\ call' = [call EXCEPT !.redo = call.redo \ {s}, !.attempted = {},
                              !.got[s] = Append(call.got[s], <<Min(r.shards), r.request>>)]
      /\ UNCHANGED <<rankVars, requests, answers>>
  BY DEF ReadRedo
<1>2. call \in Calls /\ call.redo \in SUBSET Workers
  BY DEF Types, Calls, Shards
<1>3. s \in call.redo
  BY <1>1, <1>2, MinIn DEF Pipes
<1>4. PICK x : x = <<Min(r.shards), r.request>>
  OBVIOUS
<1> HIDE DEF s
<1>5. /\ call'.redo = call.redo \ {s} /\ call'.lost = call.lost /\ call'.assigned = call.assigned
      /\ call'.got = [call.got EXCEPT ![s] = Append(call.got[s], x)]
  BY <1>1, <1>2, <1>4 DEF Calls
<1>6. call.got \in [Shards -> Seq(Shards \X Nat)]
  BY <1>2 DEF Calls
<1>7. Absent' = Absent /\ Loose' = Loose /\ Loose = {}
  BY <1>1, <1>5 DEF Absent, Loose
<1>8. \A v \in Workers : Claim(v)' = Claim(v)
  BY <1>1, <1>5, <1>7 DEF Claim, rankVars
<1>9. \A z : Owned(z)' <=> Owned(z)
  BY <1>8 DEF Owned
<1>10. Collecting'
  BY <1>1 DEF Collecting
<1>11. /\ \A z \in Shards : Len(call.got[z]) <= 1
       /\ \A z \in call.redo : Owned(z) /\ call.got[z] = <<>>
       /\ \A z \in Shards : call.got[z] # <<>> => Owned(z)
  BY <1>1, <1>7 DEF DInv, Delivered, Recovering
<1>12. \A z \in Shards : call'.got[z] = IF z = s THEN <<x>> ELSE call.got[z]
  <2>1. Append(<<>>, x) = <<x>>
    OBVIOUS
  <2> QED
    BY <1>3, <1>5, <1>6, <1>11, <2>1
<1>13. Len(<<x>>) = 1
  OBVIOUS
<1>14. \A z \in Shards : Len(call'.got[z]) <= 1
  <2> SUFFICES ASSUME NEW z \in Shards PROVE Len(call'.got[z]) <= 1
    OBVIOUS
  <2>1. CASE z = s
    <3>1. call'.got[z] = <<x>>
      BY <1>12, <2>1
    <3> QED
      BY <1>13, <3>1
  <2>2. CASE z # s
    BY <1>11, <1>12, <2>2
  <2> QED
    BY <2>1, <2>2
<1>15. \A z \in call'.redo : Owned(z)' /\ call'.got[z] = <<>>
  BY <1>2, <1>5, <1>9, <1>11, <1>12 DEF Shards
<1>16. \A z \in Shards : call'.got[z] # <<>> => Owned(z)'
  BY <1>3, <1>9, <1>11, <1>12
<1>17. Delivered'
  BY <1>14, <1>15, <1>16 DEF Delivered
<1> QED
  BY <1>1, <1>5, <1>7, <1>10, <1>17, StillReady

LEMMA RespawnTargetReady ==
  ASSUME IInv, DInv, RespawnTarget
  PROVE  DInv'
<1> USE DEF IInv
<1>w. PICK w : w = Min(Retryable)
  OBVIOUS
<1>1. /\ pc = "recover" /\ Candidates = {} /\ Retryable # {}
      /\ \/ Spawn(w, call.assigned[w]) /\ UNCHANGED <<pc, call, requests, answers, faults>>
         \/ SpawnRaises
  BY <1>w DEF RespawnTarget
<1>2. Retryable \in SUBSET Workers
  BY DEF Retryable, Types, Calls
<1>3. w \in Absent \ conns
  <2>1. w \in Retryable
    BY <1>w, <1>1, <1>2, MinIn
  <2> QED
    BY <1>1, <2>1 DEF Retryable, Candidates, Live, Absent
<1> QED
  BY <1>1, <1>3, SpawnReady, SpawnRaisesReady

LEMMA NoTargetLeftReady ==
  ASSUME IInv, DInv, NoTargetLeft
  PROVE  DInv'
BY Ended DEF NoTargetLeft, Raise, rankVars

-----------------------------------------------------------------------------
(* After the recovery                                                      *)

(* The shards of a rank that is given up were its own, or those of ranks   *)
(* given up before it: they are to move.                                   *)
LEMMA RestoreReady ==
  ASSUME IInv, DInv, Restore
  PROVE  DInv'
<1> USE DEF IInv
<1>1. /\ pc = "recover" /\ call.redo = {} /\ pc' = "respawn"
      /\ blacklist' = blacklist \cup GivenUp
      /\ call' = [call EXCEPT !.todo = ComeBack, !.moves = Moving]
      /\ UNCHANGED <<conns, homes, requests, answers>>
  BY DEF Restore
<1>2. /\ call'.todo = ComeBack /\ call'.moves = Moving /\ call'.redo = {}
      /\ call'.got = call.got /\ call'.assigned = call.assigned
  BY <1>1 DEF Types, Calls
<1>3. /\ Absent = call.lost /\ Absent' = ComeBack /\ Loose = {} /\ Loose' = Moving
  BY <1>1, <1>2 DEF Absent, Loose
<1>4. /\ call.lost \subseteq Workers /\ GivenUp \cap conns = {} /\ GivenUp \subseteq call.lost
      /\ conns \subseteq Workers
  <2>1. call.lost \subseteq Workers /\ conns \subseteq Workers
    BY DEF Types, Calls
  <2>2. \A w \in call.lost \cap conns : failures[w] < MaxRetries
    BY <1>1 DEF Ranks
  <2>3. ASSUME NEW w \in GivenUp PROVE w \in call.lost /\ w \notin conns
    <3>1. w \in call.lost /\ failures[w] >= MaxRetries
      BY DEF GivenUp
    <3>2. failures[w] \in Nat /\ MaxRetries \in Nat
      BY <2>1, <3>1, PoolAssumption DEF Types
    <3>3. ~(failures[w] < MaxRetries)
      BY <3>1, <3>2
    <3> QED
      BY <2>2, <3>1, <3>3
  <2> QED
    BY <2>1, <2>3
<1>5. \A w \in GivenUp : Claim(w) = call.assigned[w]
  BY <1>3, <1>4 DEF Claim
<1>6. \A w \in Workers \ GivenUp : Claim(w)' = Claim(w)
  BY <1>1, <1>2, <1>3 DEF Claim, ComeBack
<1>7. \A w \in GivenUp : Claim(w)' = {}
  BY <1>1, <1>3, <1>4 DEF Claim, ComeBack
<1>8. /\ \A w \in conns \cup Absent : w \in Claim(w)
      /\ \A w \in Workers : \A s \in Claim(w) : s = w \/ s \in blacklist
  BY DEF DInv, OwnShards
<1>9. OwnShards'
  <2>1. \A w \in conns' \cup Absent' : w \in Claim(w)'
    BY <1>1, <1>3, <1>4, <1>6, <1>8 DEF ComeBack
  <2>2. \A w \in Workers : \A s \in Claim(w)' : s = w \/ s \in blacklist'
    BY <1>1, <1>6, <1>7, <1>8
  <2>3. Moving \subseteq blacklist'
    BY <1>1, <1>4, <1>5, <1>8 DEF Moving
  <2> QED
    BY <1>3, <2>1, <2>2, <2>3 DEF OwnShards
<1>10. Collecting'
  BY <1>1 DEF Collecting
<1>11. Delivered'
  <2>1. ASSUME NEW s, Owned(s) PROVE Owned(s)' \/ s \in Loose'
    BY <1>3, <1>5, <1>6, <2>1 DEF Owned, Moving
  <2>2. /\ \A s \in Shards : Len(call.got[s]) <= 1
        /\ \A s \in Shards : call.got[s] # <<>> => Owned(s)
    BY <1>1, <1>3 DEF DInv, Delivered
  <2> QED
    BY <1>1, <1>2, <2>1, <2>2 DEF Delivered, Recovering
<1> QED
  BY <1>1, <1>9, <1>10, <1>11, InCall DEF DInv

LEMMA RespawnReady ==
  ASSUME IInv, DInv, Respawn
  PROVE  DInv'
<1> USE DEF IInv
<1>w. PICK w : w = Min(call.todo)
  OBVIOUS
<1>1. /\ pc = "respawn" /\ call.todo # {}
      /\ \/ /\ Spawn(w, call.assigned[w])
            /\ call' = [call EXCEPT !.todo = call.todo \ {w}]
            /\ UNCHANGED <<pc, requests, answers>>
         \/ SpawnRaises
  BY <1>w DEF Respawn
<1>2. call \in Calls /\ call.todo \in SUBSET Workers
  BY DEF Types, Calls
<1>3. w \in Absent \ conns
  BY <1>w, <1>1, <1>2, MinIn DEF Absent, Ranks
<1>4. CASE SpawnRaises
  BY <1>1, <1>4, SpawnRaisesReady
<1>5. CASE ~SpawnRaises
  <2>1. /\ call'.todo = call.todo \ {w} /\ call'.got = call.got /\ call'.lost = call.lost
        /\ call'.redo = call.redo /\ call'.assigned = call.assigned /\ call'.moves = call.moves
    BY <1>1, <1>2, <1>5 DEF Calls
  <2> QED
    BY <1>1, <1>3, <1>5, <2>1, SpawnReady
<1> QED
  BY <1>4, <1>5

LEMMA MigrateReady ==
  ASSUME IInv, DInv, Migrate
  PROVE  DInv'
<1> USE DEF IInv
<1>1. PICK s \in call.moves :
        IF Live = {} \/ Min(Live) \notin alive
        THEN Raise /\ UNCHANGED inbox
        ELSE /\ Send({Min(Live)}, Command("add", {s}, 0))
             /\ call' = [call EXCEPT !.target = Min(Live), !.redo = {s},
                                     !.moves = call.moves \ {s}]
             /\ pc' = "moving"
             /\ UNCHANGED <<requests, answers>>
  BY DEF Migrate
<1>2. pc = "respawn" /\ call.redo = {} /\ UNCHANGED rankVars
  BY DEF Migrate, Owners
<1>3. CASE Live = {} \/ Min(Live) \notin alive
  BY <1>1, <1>2, <1>3, Ended DEF Raise, rankVars
<1>4. CASE ~(Live = {} \/ Min(Live) \notin alive)
  <2>1. /\ call' = [call EXCEPT !.target = Min(Live), !.redo = {s},
                                !.moves = call.moves \ {s}]
        /\ pc' = "moving" /\ UNCHANGED <<requests, answers>>
    BY <1>1, <1>4
  <2>2. /\ call'.redo = {s} /\ call'.moves = call.moves \ {s} /\ call'.todo = call.todo
        /\ call'.got = call.got /\ call'.assigned = call.assigned
    BY <2>1 DEF Types, Calls
  <2>3. Absent' = Absent /\ Loose' = Loose
    BY <1>2, <2>1, <2>2 DEF Absent, Loose
  <2>4. \A v \in Workers : Claim(v)' = Claim(v)
    BY <1>2, <2>2, <2>3 DEF Claim, rankVars
  <2>5. Collecting'
    BY <2>1 DEF Collecting
  <2>6. Delivered'
    BY <1>2, <2>1, <2>2, <2>3, <2>4 DEF DInv, Delivered, Recovering, Owned
  <2> QED
    BY <1>2, <2>1, <2>2, <2>3, <2>5, <2>6, StillReady
<1> QED
  BY <1>3, <1>4

LEMMA ShardMovedReady ==
  ASSUME IInv, DInv, ShardMoved
  PROVE  DInv'
<1> USE DEF IInv
<1>w. PICK w : w = call.target
  OBVIOUS
<1>1. /\ pc = "moving" /\ pc' = "respawn"
      /\ homes' = [homes EXCEPT ![w] = homes[w] \cup call.redo]
      /\ call' = [call EXCEPT !.redo = {}]
      /\ UNCHANGED <<conns, blacklist, requests, answers>>
  BY <1>w DEF ShardMoved
<1>2. w \in conns /\ conns \subseteq Workers
  BY <1>w, <1>1 DEF Pipes, Types
<1>3. /\ call'.redo = {} /\ call'.moves = call.moves /\ call'.todo = call.todo
      /\ call'.got = call.got /\ call'.assigned = call.assigned
  BY <1>1 DEF Types, Calls
<1>4. Absent' = Absent /\ Loose = Loose' \cup call.redo
  BY <1>1, <1>3 DEF Absent, Loose
<1>5. \A v \in Workers : Claim(v)' = IF v = w THEN Claim(w) \cup call.redo ELSE Claim(v)
  <2>1. \A v \in Workers : homes'[v] = IF v = w THEN homes[w] \cup call.redo ELSE homes[v]
    BY <1>1, <1>2 DEF Types
  <2>2. w \in conns /\ Claim(w) = homes[w] /\ Claim(w)' = homes'[w]
    BY <1>1, <1>2 DEF Claim
  <2>3. \A v \in Workers \ {w} : Claim(v)' = Claim(v)
    BY <1>1, <1>3, <1>4, <2>1 DEF Claim
  <2> QED
    BY <1>2, <2>1, <2>2, <2>3
<1>6. /\ \A v \in conns \cup Absent : v \in Claim(v)
      /\ \A v \in Workers : \A s \in Claim(v) : s = v \/ s \in blacklist
      /\ Loose \subseteq blacklist
  BY DEF DInv, OwnShards
<1>7. OwnShards'
  <2>1. \A v \in conns' \cup Absent' : v \in Claim(v)'
    BY <1>1, <1>2, <1>4, <1>5, <1>6 DEF Ranks
  <2>2. \A v \in Workers : \A s \in Claim(v)' : s = v \/ s \in blacklist'
    BY <1>1, <1>4, <1>5, <1>6
  <2> QED
    BY <1>1, <1>4, <1>6, <2>1, <2>2 DEF OwnShards
<1>8. Collecting'
  BY <1>1 DEF Collecting
<1>9. Delivered'
  <2>1. ASSUME NEW s, Owned(s) \/ s \in Loose PROVE Owned(s)' \/ s \in Loose'
    BY <1>2, <1>4, <1>5, <2>1 DEF Owned
  <2>2. /\ \A s \in Shards : Len(call.got[s]) <= 1
        /\ \A s \in Shards : call.got[s] # <<>> => Owned(s) \/ s \in Loose
    BY <1>1 DEF DInv, Delivered
  <2> QED
    BY <1>1, <1>3, <2>1, <2>2 DEF Delivered, Recovering
<1> QED
  BY <1>1, <1>7, <1>8, <1>9, InCall DEF DInv

LEMMA MoveRaisesReady ==
  ASSUME IInv, DInv, MoveRaises
  PROVE  DInv'
BY Ended DEF MoveRaises, Raise, rankVars

(* One payload per shard means that no shard was lost, and then every rank *)
(* that is not blacklisted still has the one of its own number.            *)
LEMMA FoldReady ==
  ASSUME IInv, DInv, Fold
  PROVE  DInv'
<1> USE DEF IInv
<1>1. /\ pc = "respawn" /\ pc' = "idle" /\ call' = NoCall
      /\ call.todo = {} /\ call.moves = {} /\ call.redo = {}
      /\ UNCHANGED <<conns, homes, blacklist, resident, requests>>
  BY DEF Fold, rankVars, workerVars, Owners
<1>2. OwnShards' /\ Collecting' /\ Delivered'
  BY <1>1, EndedShards
<1>3. CASE ~call.bad /\ \A s \in Shards : Len(call.got[s]) = 1
  <2> DEFINE folded == [s \in Shards |-> call.got[s][1]]
             a == [request |-> requests, fold |-> folded]
  <2>1. answers' = Append(answers, a)
    BY <1>3 DEF Fold
  <2>2. requests \in Nat
    BY DEF Types
  <2>3. folded \in [Shards -> Shards \X Nat]
    <3>1. ASSUME NEW s \in Shards PROVE call.got[s][1] \in Shards \X Nat
      <4>1. call.got[s] \in Seq(Shards \X Nat) /\ Len(call.got[s]) = 1
        BY <1>3 DEF Types, Calls
      <4> QED
        BY <4>1
    <3> QED
      BY <3>1
  <2> HIDE DEF folded
  <2>4. a \in AnswerType /\ a.request = requests
    BY <2>2, <2>3 DEF AnswerType
  <2> HIDE DEF a
  <2>5. /\ answers' \in Seq(AnswerType) /\ Len(answers') = Len(answers) + 1
        /\ answers'[Len(answers) + 1] = a /\ Len(answers) \in Nat
        /\ \A i \in 1..Len(answers) : answers'[i] = answers[i]
    BY <2>1, <2>4 DEF DInv, Earlier
  <2>6. Earlier'
    <3> SUFFICES ASSUME NEW i \in 1..Len(answers') PROVE answers'[i].request <= requests
      BY <1>1, <2>5 DEF Earlier
    <3>1. CASE i \in 1..Len(answers)
      BY <2>5, <3>1 DEF DInv, Earlier
    <3>2. CASE i = Len(answers) + 1
      BY <2>2, <2>4, <2>5, <3>2
    <3> QED
      BY <2>5, <3>1, <3>2
  <2>7. Absent = {} /\ Loose = {} /\ conns \subseteq Workers /\ conns \cap blacklist = {}
    BY <1>1 DEF Absent, Loose, Types, Ranks
  <2>8. \A v \in conns : Claim(v) = homes[v] /\ resident[v] = homes[v]
    BY <1>1 DEF Claim, Owners, Arrived
  <2>9. \A s \in Shards : \E v \in conns : s \in homes[v]
    <3> SUFFICES ASSUME NEW s \in Shards PROVE \E v \in conns : s \in homes[v]
      OBVIOUS
    <3>1. Len(call.got[s]) = 1
      BY <1>3
    <3>2. call.got[s] # <<>>
      BY <3>1
    <3>3. Owned(s)
      BY <1>1, <2>7, <3>2 DEF DInv, Delivered
    <3>4. PICK v \in Workers : s \in Claim(v)
      BY <3>3 DEF Owned
    <3> QED
      BY <2>7, <3>4 DEF Claim
  <2>10. conns = Workers \ blacklist
    <3> SUFFICES ASSUME NEW w \in Workers, w \notin blacklist PROVE w \in conns
      BY <2>7
    <3>1. PICK v \in conns : w \in homes[v]
      BY <2>9 DEF Shards
    <3> QED
      BY <2>7, <2>8, <3>1 DEF DInv, OwnShards
  <2>11. ASSUME NEW s \in Shards PROVE Cardinality({v \in conns : s \in homes[v]}) = 1
    <3>1. PICK v \in conns : s \in homes[v]
      BY <2>9
    <3>2. \A u \in conns : s \in homes[u] => u = v
      BY <2>7, <2>8, <3>1 DEF Owners
    <3>3. {u \in conns : s \in homes[u]} = {v}
      BY <3>1, <3>2
    <3> QED
      BY <3>3, FS_Singleton
  <2>12. ReadyAfterAnswer'
    BY <1>1, <2>8, <2>10, <2>11 DEF ReadyAfterAnswer
  <2> QED
    BY <1>2, <2>6, <2>12 DEF DInv
<1>4. CASE ~(~call.bad /\ \A s \in Shards : Len(call.got[s]) = 1)
  <2>1. answers' = answers
    BY <1>4 DEF Fold
  <2> QED
    BY <1>1, <1>2, <2>1, InCall DEF DInv
<1> QED
  BY <1>3, <1>4

LEMMA CloseReady ==
  ASSUME IInv, DInv, Close
  PROVE  DInv'
<1> USE DEF IInv
<1>1. /\ pc = "idle" /\ conns' = {}
      /\ UNCHANGED <<homes, blacklist, pc, call, requests, answers>>
  BY DEF Close
<1>2. Absent' = {} /\ Loose' = {}
  BY <1>1 DEF Absent, Loose
<1>3. OwnShards'
  BY <1>1, <1>2 DEF OwnShards, Claim
<1>4. Collecting' /\ Delivered'
  BY <1>1 DEF DInv, Collecting, Delivered, Recovering
<1>5. Earlier' /\ ReadyAfterAnswer'
  BY <1>1 DEF DInv, Earlier, ReadyAfterAnswer
<1> QED
  BY <1>3, <1>4, <1>5 DEF DInv

-----------------------------------------------------------------------------
(* The strengthened invariant holds, and what follows from it              *)

LEMMA InitReady ==
  ASSUME Init
  PROVE  DInv
<1> USE DEF Init
<1>1. Absent = {} /\ Loose = {}
  BY DEF Absent, Loose
<1>2. \A w \in Workers : Claim(w) = {w}
  BY DEF Claim
<1>3. OwnShards
  BY <1>1, <1>2 DEF OwnShards
<1>4. Collecting /\ Delivered
  BY DEF Collecting, Delivered, Recovering, NoCall
<1>5. <<>> \in Seq(AnswerType) /\ Len(<<>>) = 0
  OBVIOUS
<1>6. Earlier /\ ReadyAfterAnswer
  BY <1>5 DEF Earlier, ReadyAfterAnswer
<1> QED
  BY <1>3, <1>4, <1>6 DEF DInv

LEMMA NextReady ==
  ASSUME IInv, DInv, [Next]_vars
  PROVE  DInv'
<1>1. CASE UNCHANGED vars
  <2> USE DEF vars, rankVars, workerVars
  <2>1. UNCHANGED <<Absent, Loose>> /\ \A w \in Workers : UNCHANGED Claim(w)
    BY <1>1 DEF Absent, Loose, Claim
  <2>2. OwnShards' /\ \A s : Owned(s)' <=> Owned(s)
    BY <1>1, <2>1, SameClaims DEF IInv, Ranks, Types
  <2>3. \A w : OwnStats(w)' <=> OwnStats(w)
    BY <1>1 DEF OwnStats
  <2>4. Collecting'
    BY <1>1, <2>3 DEF DInv, Collecting
  <2>5. Delivered'
    BY <1>1, <2>1, <2>2 DEF DInv, Delivered, Recovering
  <2>6. Earlier' /\ ReadyAfterAnswer'
    BY <1>1 DEF DInv, Earlier, ReadyAfterAnswer
  <2> QED
    BY <2>2, <2>4, <2>5, <2>6 DEF DInv
<1>2. CASE \E kind \in Kinds : StartRequest(kind)
  BY <1>2, StartReady
<1>3. CASE Refuse
  BY <1>3, RefuseReady
<1>4. CASE Driver
  BY <1>4, ReadAckReady, GoReady, ReadResultReady, RetireFailedReady, AskTargetReady,
     RespawnTargetReady, NoTargetLeftReady, LoseTargetReady, ReleaseTargetReady, ReadRedoReady,
     RestoreReady, RespawnReady, MigrateReady, ShardMovedReady, MoveRaisesReady, FoldReady
  DEF Driver
<1>5. CASE Close
  BY <1>5, CloseReady
<1>6. CASE \E w \in Workers : Work(w) \/ Crash(w)
  BY <1>6, WorkReady
<1> QED
  BY <1>1, <1>2, <1>3, <1>4, <1>5, <1>6 DEF Next

(* Where shards can be, and what was delivered of them.                    *)
THEOREM DeliveryInvariant == Spec => []DInv
<1>1. Init => DInv
  BY InitReady
<1>2. IInv /\ DInv /\ [Next]_vars => DInv'
  BY NextReady
<1> QED
  BY <1>1, <1>2, PoolInvariant, PTL DEF Spec

(* After an answer the pool is whole again, whatever it met: each rank     *)
(* that is not blacklisted has a worker, every shard has one home among    *)
(* them, and the processes hold what the driver believes they hold.        *)
THEOREM WholeAfterAnswer == Spec => []ReadyAfterAnswer
<1>1. DInv => ReadyAfterAnswer
  BY DEF DInv
<1> QED
  BY <1>1, DeliveryInvariant, PTL

(* A recovery recomputes only shards that nobody delivered, and no shard   *)
(* is delivered twice: what a surviving worker answered is kept.           *)
THEOREM NothingRedoneTwice == Spec => []OnlyOwedShardsRedone
<1>1. DInv => OnlyOwedShardsRedone
  BY DEF DInv, Delivered, Recovering, OnlyOwedShardsRedone
<1> QED
  BY <1>1, DeliveryInvariant, PTL

=============================================================================
