------------------------------ MODULE WorkerPool ------------------------------
(***************************************************************************)
(* MPEncodedData of utils/parallel/multiprocessing.py: a driver broadcasts *)
(* one command to persistent worker processes and collects one reply from  *)
(* each, in the order of the workers.  A request is known by its number; a *)
(* payload is the pair of the worker, whose shard it is of, and the        *)
(* request it was computed for.  A worker that dies or is late takes the   *)
(* whole pool with it; one that answers with an error does not.            *)
(***************************************************************************)
EXTENDS Naturals, Sequences

CONSTANTS
  NumWorkers,   \* num_workers; worker i holds shard i
  MaxErrors,    \* bound: commands that a worker fails
  MaxRequests   \* bound: requests of a behaviour

Workers == 1..NumWorkers

VARIABLES
  open,      \* the handle has its _conns and _procs
  alive,     \* the processes that run
  inbox,     \* inbox[i]: the requests on their way to worker i
  outbox,    \* outbox[i]: its replies that nobody has read
  pc,        \* "idle", or "collect" inside a request
  got,       \* the payloads collected for the current request
  requests,  \* the kinds of the requests made, the last one is the current one
  answers,   \* the requests that were answered, and what was folded for them
  errors

workers == <<open, alive, inbox, outbox>>
vars == <<workers, pc, got, requests, answers, errors>>

(* "stats" is an update or an initialization, whose payloads are pickled   *)
(* statistics; "score" is llsum, whose payload is a pair of numbers.       *)
Kinds == {"stats", "score"}

Reply(ok, k) == [ok |-> ok, request |-> k]

Empty == [i \in Workers |-> <<>>]

(* __init__; a constructor that fails closes the pool and raises.          *)
Init ==
  /\ open = TRUE
  /\ alive = Workers
  /\ inbox = Empty
  /\ outbox = Empty
  /\ pc = "idle"
  /\ got = <<>>
  /\ requests = <<>>
  /\ answers = <<>>
  /\ errors = 0

-----------------------------------------------------------------------------
(* Worker processes                                                        *)

Serve(i) ==
  /\ i \in alive
  /\ inbox[i] # <<>>
  /\ inbox' = [inbox EXCEPT ![i] = Tail(@)]
  /\ \/ /\ outbox' = [outbox EXCEPT ![i] = Append(@, Reply(TRUE, Head(inbox[i])))]
        /\ UNCHANGED errors
     \/ /\ errors < MaxErrors
        /\ errors' = errors + 1
        /\ outbox' = [outbox EXCEPT ![i] = Append(@, Reply(FALSE, Head(inbox[i])))]
  /\ UNCHANGED <<open, alive, pc, got, requests, answers>>

Crash(i) ==
  /\ i \in alive
  /\ alive' = alive \ {i}
  /\ inbox' = [inbox EXCEPT ![i] = <<>>]
  /\ UNCHANGED <<open, outbox, pc, got, requests, answers, errors>>

-----------------------------------------------------------------------------
(* The driver                                                              *)

Terminate ==
  /\ open' = FALSE
  /\ alive' = {}
  /\ inbox' = Empty
  /\ outbox' = Empty

Raise ==
  /\ pc' = "idle"
  /\ got' = <<>>
  /\ UNCHANGED <<requests, answers, errors>>

NewRequest(kind) ==
  /\ pc = "idle"
  /\ Len(requests) < MaxRequests
  /\ requests' = Append(requests, kind)
  /\ UNCHANGED <<got, answers, errors>>

Broadcast(kind) ==
  /\ NewRequest(kind)
  /\ open
  /\ alive = Workers
  /\ inbox' = [i \in Workers |-> Append(inbox[i], Len(requests'))]
  /\ pc' = "collect"
  /\ UNCHANGED <<open, alive, outbox>>

(* _refuse_when_closed.                                                    *)
Refuse(kind) ==
  /\ NewRequest(kind)
  /\ ~open
  /\ UNCHANGED <<workers, pc>>

(* The pipe to a dead worker breaks while the command is sent.             *)
SendBreaks(kind) ==
  /\ NewRequest(kind)
  /\ open
  /\ alive # Workers
  /\ Terminate
  /\ UNCHANGED pc

Current == Len(got) + 1

Collect ==
  /\ pc = "collect"
  /\ Current \in Workers
  /\ outbox[Current] # <<>>
  /\ Head(outbox[Current]).ok
  /\ got' = Append(got, <<Current, Head(outbox[Current]).request>>)
  /\ outbox' = [outbox EXCEPT ![Current] = Tail(@)]
  /\ UNCHANGED <<open, alive, inbox, pc, requests, answers, errors>>

(* An error reply raises at once.  The replies of the workers behind it    *)
(* stay in their pipes, and the pool stays open.                           *)
CollectError ==
  /\ pc = "collect"
  /\ Current \in Workers
  /\ outbox[Current] # <<>>
  /\ ~Head(outbox[Current]).ok
  /\ outbox' = [outbox EXCEPT ![Current] = Tail(@)]
  /\ Raise
  /\ UNCHANGED <<open, alive, inbox>>

(* The worker exited without a reply, or the deadline has passed.          *)
LoseWorker ==
  /\ pc = "collect"
  /\ Current \in Workers
  /\ outbox[Current] = <<>>
  /\ Terminate
  /\ Raise

(* A score adds up the first two items of whatever came; the fold of       *)
(* statistics raises for a pair of numbers.                                *)
Folds(k) == requests[k] = "score" \/ \A i \in Workers : requests[got[i][2]] = "stats"

Fold ==
  /\ pc = "collect"
  /\ Current \notin Workers
  /\ LET k == Len(requests) IN
       answers' = IF Folds(k)
                  THEN Append(answers, [request |-> k, fold |-> [i \in Workers |-> got[i]]])
                  ELSE answers
  /\ pc' = "idle"
  /\ got' = <<>>
  /\ UNCHANGED <<workers, requests, errors>>

(* close(), between requests: "stop" is sent, what is read is dropped and  *)
(* all is terminated.                                                      *)
Close ==
  /\ pc = "idle"
  /\ open
  /\ Terminate
  /\ UNCHANGED <<pc, got, requests, answers, errors>>

-----------------------------------------------------------------------------
Next ==
  \/ \E kind \in Kinds : Broadcast(kind) \/ Refuse(kind) \/ SendBreaks(kind)
  \/ Collect \/ CollectError \/ LoseWorker \/ Fold \/ Close
  \/ \E i \in Workers : Serve(i) \/ Crash(i)

Spec == Init /\ [][Next]_vars

-----------------------------------------------------------------------------
Step ==
  INSTANCE ShardedStep WITH
    NumShards <- NumWorkers, requests <- Len(requests), busy <- (pc # "idle")

(* Every answer is a fold of one payload per worker, each computed for the *)
(* model of the request it answers.                                        *)
AnswersAreExact ==
  \A n \in DOMAIN answers : answers[n] = Step!ExactFold(answers[n].request)

(* A handle that has lost its workers answers nothing more.                *)
ClosedIsFinal == [][~open => ~open' /\ answers' = answers]_vars

=============================================================================
