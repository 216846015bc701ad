---------------------------- MODULE LateMigrations ----------------------------
(***************************************************************************)
(* ResilientEM without the assumption that the worker a shard is moved to  *)
(* answers in time.  _migrate_shard_permanently lets the TimeoutError      *)
(* through and leaves the worker in the pool, with the answer to come      *)
(* still in its pipe and a shard that the driver does not know of: each    *)
(* later request reads the answer of the one before.  The actions here are *)
(* the branches the driver and the worker take only then.                  *)
(***************************************************************************)
EXTENDS ResilientEM

MoveTimesOut ==
  /\ pc = "moving"
  /\ DeadlinePasses(call.target)
  /\ Raise
  /\ UNCHANGED <<rankVars, workerVars>>

(* A "go" that nothing waits for is an unknown command.                    *)
StrayGo(w) ==
  /\ blocked[w] = {}
  /\ Take(w)
  /\ Head(inbox[w]).op = "go"
  /\ Put(w, Reply("err", {}, 0))
  /\ UNCHANGED <<blocked, resident, faults>>

(* A collected payload of another kind.  An initialization or a scoring    *)
(* extends its list with it, which raises at once for a number (a process  *)
(* id or a size); anything else is kept until somebody unpacks it.         *)
ReadOther ==
  /\ pc = "results"
  /\ call.todo # {}
  /\ LET w == Min(call.todo)
         kind == Head(outbox[w]).kind
     IN /\ Receives(w)
        /\ kind # ListKind(call.kind)
        /\ outbox' = Taken(w)
        /\ IF call.kind # "update" /\ kind \in {"started", "added"}
           THEN Raise
           ELSE /\ call' = [call EXCEPT !.todo = @ \ {w}, !.bad = TRUE]
                /\ UNCHANGED <<pc, requests, answers>>
  /\ UNCHANGED <<rankVars, alive, resident, blocked, inbox>>

(* An update unpacks what it collected before it retires anybody; the      *)
(* others do so at the fold.                                               *)
NotAList ==
  /\ pc = "results"
  /\ call.todo = {}
  /\ call.kind = "update"
  /\ call.bad
  /\ Raise
  /\ UNCHANGED <<rankVars, workerVars, faults>>

(* A recovered payload of another kind that is refused only at the fold:   *)
(* an update looks at no recovered payload before, and a scoring only at   *)
(* the shard it names.                                                     *)
KeptForTheFold(r, s) ==
  \/ call.kind = "update" /\ r.kind # "update_shard"
  \/ call.kind = "llsum" /\ r.kind = "init_shard" /\ s \in r.shards

(* What is refused at once: it does not unpack, or names another shard.    *)
RefusedAtOnce(r, s) ==
  /\ call.kind # "update"
  /\ r.kind # ShardCommand[call.kind] \/ s \notin r.shards

RedoOther ==
  /\ pc = "redoResult"
  /\ Receives(call.target)
  /\ LET r == Head(outbox[call.target])
         s == Min(call.redo)
     IN /\ outbox' = Taken(call.target)
        /\ \/ /\ KeptForTheFold(r, s)
              /\ call' = [call EXCEPT !.redo = @ \ {s}, !.attempted = {}, !.bad = TRUE]
              /\ pc' = "recover"
              /\ UNCHANGED <<requests, answers>>
           \/ /\ RefusedAtOnce(r, s) /\ ~KeptForTheFold(r, s)
              /\ Raise
  /\ UNCHANGED <<rankVars, alive, resident, blocked, inbox>>

LateNext ==
  \/ Next
  \/ MoveTimesOut \/ ReadOther \/ NotAList \/ RedoOther
  \/ \E w \in Workers : StrayGo(w)

LateSpec == Init /\ [][LateNext]_vars

-----------------------------------------------------------------------------
(* Every answer is a fold of one payload per shard, each computed for the  *)
(* model of the request it answers.                                        *)
AnswersAreExact ==
  \A i \in 1..Len(answers) : answers[i] = Step!ExactFold(answers[i].request)

=============================================================================
