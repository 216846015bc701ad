----------------------------- MODULE ShardedStep -----------------------------
(***************************************************************************)
(* What an encoded-data handle promises to optimize(): a request for the   *)
(* statistics of one model either raises or is answered by a fold, in      *)
(* shard order, of exactly one payload per shard, each computed for that   *)
(* request's model.  (The protocol of EncodedDataHandle: pysp_seq_estimate, *)
(* pysp_seq_initialize, pysp_stream_accumulate.)                           *)
(***************************************************************************)
EXTENDS Naturals, Sequences

CONSTANT NumShards

VARIABLES
  requests,  \* the number of requests made so far; the last one is the current one
  busy,      \* a request is being served
  answers    \* the requests that were answered, and what was folded for them

stepVars == <<requests, busy, answers>>

ExactFold(k) == [request |-> k, fold |-> [s \in 1..NumShards |-> <<s, k>>]]

Init ==
  /\ requests = 0
  /\ busy = FALSE
  /\ answers = <<>>

Ask ==
  /\ ~busy
  /\ requests' = requests + 1
  /\ busy' = TRUE
  /\ UNCHANGED answers

Answer ==
  /\ busy
  /\ busy' = FALSE
  /\ answers' = Append(answers, ExactFold(requests))
  /\ UNCHANGED requests

Raise ==
  /\ busy
  /\ busy' = FALSE
  /\ UNCHANGED <<requests, answers>>

(* A handle without workers refuses at once.                               *)
Refuse ==
  /\ ~busy
  /\ requests' = requests + 1
  /\ UNCHANGED <<busy, answers>>

Spec == Init /\ [][Ask \/ Answer \/ Raise \/ Refuse]_stepVars

=============================================================================
